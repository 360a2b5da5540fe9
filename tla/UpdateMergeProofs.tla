------------------------- MODULE UpdateMergeProofs --------------------------
(***************************************************************************)
(* Proofs about UpdateMerge: however the updates overlap and wherever each *)
(* of them is cut, no unit is lost, none comes twice and no gap is left,   *)
(* and what is read off the result agrees with its blocks.                 *)
(*                                                                         *)
(* The fact that carries the rest is Caught: whatever of a block still     *)
(* with a decoder lies before the end of the block in hand, was taken from *)
(* another decoder.  So what is skimmed, or cut off, is never missed.      *)
(***************************************************************************)
EXTENDS UpdateMerge, SequenceTheorems, WellFoundedInduction, TLAPS

AnyBlocks == Blocks \cup Skips

\* block b has clock k of client c
Covers(b, c, k) == b.client = c /\ b.clock <= k /\ k < End(b)
Known(blocks, c, k) == \E b \in blocks : Covers(b, c, k)

\* all that b has is in some update
Backed(b, units) ==
  \A k \in Nat : b.clock <= k /\ k < End(b) =>
    [client |-> b.client, clock |-> k, kind |-> b.kind] \in units

\* what the decoders still have, and what was taken from them
Waiting(d) == {b \in Blocks : \E i \in Decoders : \E j \in 1..Len(d[i]) : b = d[i][j]}
Put(out) == {b \in AnyBlocks : \E c \in Clients : \E j \in 1..Len(out[c]) : b = out[c][j]}
Taken(w, out) == {b \in Put(out) \cup {w} : ~IsSkip(b)}

Typed(d, w, out) ==
  /\ d \in [Decoders -> Seq(Blocks)]
  /\ w \in AnyBlocks \cup {NoBlock}
  /\ out \in [Clients -> Seq(AnyBlocks)]
  /\ \A i \in Decoders : InOrder(d[i])

Unbroken(w, out) ==
  \A c \in Clients : Contiguous(out[c] \o IF w.client = c THEN <<w>> ELSE <<>>)

Sound(d, w, out, units) == \A b \in Waiting(d) \cup Taken(w, out) : Backed(b, units)
Complete(d, w, out, units) ==
  \A u \in units :
    u.clock \in Nat /\ Known(Waiting(d) \cup Taken(w, out), u.client, u.clock)

Keeps(d, w, out, units) ==
  Typed(d, w, out) /\ Unbroken(w, out) /\ Sound(d, w, out, units) /\ Complete(d, w, out, units)

\* with a block in hand: the clients come in descending order, and what is passed over was taken
Descending(d, w, out) ==
  /\ \A b \in Waiting(d) : b.client <= w.client
  /\ \A c \in Clients : c < w.client => out[c] = <<>>
Caught(d, w, out) ==
  \A b \in Waiting(d) : \A k \in Nat :
    Covers(b, w.client, k) /\ k < End(w) => Known(Taken(w, out), w.client, k)
InHand(d, w, out) == w \in AnyBlocks /\ Descending(d, w, out) /\ Caught(d, w, out)

IInv ==
  /\ Keeps(decoders, written, result, input)
  /\ written \in Blocks \cup {NoBlock}
  /\ IF written = NoBlock
     THEN Waiting(decoders) = {} \/ \A c \in Clients : result[c] = <<>>
     ELSE InHand(decoders, written, result)

----------------------------------------------------------------------------
\* A set of numbers that is not empty has a least element.
LEMMA LeastElement ==
  ASSUME NEW T \in SUBSET Nat, T # {}
  PROVE  \E x \in T : \A y \in T : x <= y
<1> DEFINE R == {p \in Nat \X Nat : p[1] < p[2]}
<1>1. IsWellFoundedOn(R, Nat)
  BY NatLessThanWellFounded DEF OpToRel
<1>2. \A x, y \in Nat : y < x => <<y, x>> \in R
  OBVIOUS
<1> HIDE DEF R
<1>3. PICK x \in T : \A y \in T : ~ (<<y, x>> \in R)
  BY <1>1, WFMin
<1>4. ASSUME NEW y \in T PROVE x <= y
  <2>1. x \in Nat /\ y \in Nat /\ ~ (y < x)
    BY <1>2, <1>3
  <2> QED BY <2>1
<1> QED BY <1>4

\* There is a longest prefix of numbers that are all in a set.
LEMMA LongestPrefix ==
  ASSUME NEW m \in Nat, NEW T \in SUBSET (1..m)
  PROVE  \E n \in 0..m : (\A j \in 1..n : j \in T) /\ (n < m => n + 1 \notin T)
<1> DEFINE F == (1..m) \ T
<1>1. CASE F = {}
  <2>1. m \in 0..m /\ \A j \in 1..m : j \in T
    BY <1>1
  <2> QED BY <2>1
<1>2. CASE F # {}
  <2>1. F \in SUBSET Nat
    OBVIOUS
  <2>2. PICK k \in F : \A j \in F : k <= j
    <3> HIDE DEF F
    <3> QED BY <1>2, <2>1, LeastElement
  <2>3. k - 1 \in 0..m /\ (k - 1) + 1 = k /\ k \notin T
    BY <2>2
  <2>4. ASSUME NEW j \in 1..(k - 1) PROVE j \in T
    <3>1. j \in 1..m /\ ~ (k <= j)
      BY <2>2
    <3> QED BY <2>2, <3>1
  <2> QED BY <2>3, <2>4
<1> QED BY <1>1, <1>2

\* Blocks have whole clocks, at least one each; only Skips are Skips.
LEMMA BlockFacts ==
  /\ \A b \in AnyBlocks : /\ b.client \in Clients /\ b.client \in Nat /\ b.clock \in Nat
                          /\ b.len \in Nat /\ b.len > 0
                          /\ End(b) = b.clock + b.len /\ End(b) \in Nat /\ b.clock < End(b)
  /\ \A b \in Blocks : b \in AnyBlocks /\ ~IsSkip(b) /\ b.kind \in {"item", "gc"}
  /\ \A b \in Skips : b \in AnyBlocks /\ IsSkip(b)
  /\ NoBlock.client = -1 /\ NoBlock.clock = 0 /\ End(NoBlock) = 0 /\ ~IsSkip(NoBlock)
  /\ NoBlock \notin AnyBlocks
<1>1. \A b \in AnyBlocks : /\ b.client \in Clients /\ b.clock \in Nat
                              /\ b.len \in Nat /\ b.len # 0
  BY DEF AnyBlocks, Blocks, Skips
<1>2. \A b \in AnyBlocks : /\ b.client \in Nat /\ b.len > 0 /\ End(b) = b.clock + b.len
                            /\ End(b) \in Nat /\ b.clock < End(b)
  <2> SUFFICES ASSUME NEW b \in AnyBlocks
               PROVE  /\ b.client \in Nat /\ b.len > 0 /\ End(b) = b.clock + b.len
                      /\ End(b) \in Nat /\ b.clock < End(b)
    OBVIOUS
  <2>1. b.client \in Nat
    BY <1>1, ClientsAssumption
  <2>2. b.clock \in Nat /\ b.len \in Nat /\ b.len # 0
    BY <1>1
  <2> QED BY <2>1, <2>2 DEF End
<1>3. /\ \A b \in Blocks : b \in AnyBlocks /\ ~IsSkip(b) /\ b.kind \in {"item", "gc"}
      /\ \A b \in Skips : b \in AnyBlocks /\ IsSkip(b)
  BY DEF AnyBlocks, Blocks, Skips, IsSkip
<1>4. NoBlock.client = -1 /\ NoBlock.clock = 0 /\ End(NoBlock) = 0 /\ ~IsSkip(NoBlock)
  BY DEF NoBlock, MkBlock, End, IsSkip
<1>5. NoBlock \notin AnyBlocks
  BY <1>2, <1>4
<1> QED BY <1>1, <1>2, <1>3, <1>4, <1>5

\* One sequence after another.
LEMMA Joined ==
  ASSUME NEW S, NEW s \in Seq(S), NEW t \in Seq(S)
  PROVE  /\ s \o t \in Seq(S) /\ Len(s \o t) = Len(s) + Len(t)
         /\ \A k \in 1..Len(s) : (s \o t)[k] = s[k]
         /\ \A k \in 1..Len(t) : (s \o t)[Len(s) + k] = t[k]
OBVIOUS

\* What is left of a sequence when its first n elements are gone.
LEMMA Suffix ==
  ASSUME NEW S, NEW s \in Seq(S), NEW n \in 0..Len(s)
  PROVE  LET rest == SubSeq(s, n + 1, Len(s))
         IN /\ rest \in Seq(S) /\ Len(rest) = Len(s) - n
            /\ \A k \in 1..Len(rest) : n + k \in 1..Len(s) /\ rest[k] = s[n + k]
            /\ \A j \in 1..Len(s) : j \in 1..n \/ (j - n \in 1..Len(rest) /\ s[j] = rest[j - n])
<1> DEFINE rest == SubSeq(s, n + 1, Len(s))
<1>1. Len(s) \in Nat /\ n \in Nat /\ \A k \in 1..Len(s) : s[k] \in S
  OBVIOUS
<1>2. /\ rest \in Seq(S) /\ Len(rest) = Len(s) - n
      /\ \A k \in 1..Len(rest) : rest[k] = s[n + k]
  BY <1>1
<1> HIDE DEF rest
<1>3. \A k \in 1..Len(rest) : n + k \in 1..Len(s)
  BY <1>1, <1>2
<1>4. ASSUME NEW j \in 1..Len(s), j \notin 1..n
      PROVE  j - n \in 1..Len(rest) /\ s[j] = rest[j - n]
  <2>1. j - n \in 1..Len(rest) /\ n + (j - n) = j
    BY <1>1, <1>2, <1>4
  <2> QED BY <1>2, <2>1
<1> QED BY <1>2, <1>3, <1>4 DEF rest

\* after has all that d waits with but the first n blocks of decoder i
LeavesOut(d, after, i, n) ==
  \A b : b \in Waiting(d) <=> b \in Waiting(after) \/ \E j \in 1..n : b = d[i][j]

\* A decoder that has handed out blocks is still in order, and only these are gone.
LEMMA DropFirst ==
  ASSUME NEW d, NEW w, NEW out, Typed(d, w, out), NEW i \in Decoders, NEW n \in 0..Len(d[i])
  PROVE  LET after == [d EXCEPT ![i] = SubSeq(d[i], n + 1, Len(d[i]))]
         IN Typed(after, w, out) /\ LeavesOut(d, after, i, n)
<1> DEFINE s == d[i]
           rest == SubSeq(s, n + 1, Len(s))
           after == [d EXCEPT ![i] = rest]
           gone == {s[j] : j \in 1..n}
<1>1. s \in Seq(Blocks) /\ InOrder(s) /\ n \in 0..Len(s) /\ n \in Nat
  BY DEF Typed
<1>2. d \in [Decoders -> Seq(Blocks)]
  BY DEF Typed
<1> HIDE DEF s
<1>3. /\ rest \in Seq(Blocks) /\ Len(rest) = Len(s) - n
      /\ \A k \in 1..Len(rest) : n + k \in 1..Len(s) /\ rest[k] = s[n + k]
      /\ \A j \in 1..Len(s) : j \in 1..n \/ (j - n \in 1..Len(rest) /\ s[j] = rest[j - n])
  BY <1>1, Suffix
<1> HIDE DEF rest
<1>4. InOrder(rest)
  <2> SUFFICES ASSUME NEW j \in 1..Len(rest), NEW k \in 1..Len(rest), j < k
               PROVE  \/ rest[k].client < rest[j].client
                      \/ rest[k].client = rest[j].client /\ End(rest[j]) <= rest[k].clock
    <3>1. DOMAIN rest = 1..Len(rest)
      BY <1>3
    <3> QED BY <3>1 DEF InOrder
  <2>1. n + j \in DOMAIN s /\ n + k \in DOMAIN s /\ n + j < n + k
    BY <1>1, <1>3
  <2>2. rest[j] = s[n + j] /\ rest[k] = s[n + k]
    BY <1>3
  <2> QED BY <1>1, <2>1, <2>2 DEF InOrder
<1>5. after \in [Decoders -> Seq(Blocks)] /\ after[i] = rest
      /\ \A j \in Decoders : j # i => after[j] = d[j]
  BY <1>2, <1>3
<1>6. Typed(after, w, out)
  BY <1>4, <1>5 DEF Typed
<1>7. gone \subseteq Waiting(d)
  <2>1. \A j \in 1..n : j \in 1..Len(s) /\ s[j] \in Blocks
    BY <1>1
  <2> QED BY <2>1 DEF Waiting, s
<1>8. Waiting(after) \subseteq Waiting(d)
  <2> SUFFICES ASSUME NEW e \in Decoders, NEW k \in 1..Len(after[e]), after[e][k] \in Blocks
               PROVE  \E j \in 1..Len(d[e]) : after[e][k] = d[e][j]
    BY DEF Waiting
  <2>1. CASE e = i
    BY <1>3, <1>5, <2>1 DEF s
  <2>2. CASE e # i
    BY <1>5, <2>2
  <2> QED BY <2>1, <2>2
<1>9. Waiting(d) \subseteq Waiting(after) \cup gone
  <2> SUFFICES ASSUME NEW e \in Decoders, NEW k \in 1..Len(d[e]), d[e][k] \in Blocks,
                      d[e][k] \notin gone
               PROVE  \E j \in 1..Len(after[e]) : d[e][k] = after[e][j]
    BY DEF Waiting
  <2>1. CASE e = i
    BY <1>3, <1>5, <2>1 DEF s
  <2>2. CASE e # i
    BY <1>5, <2>2
  <2> QED BY <2>1, <2>2
<1>10. Waiting(d) = Waiting(after) \cup gone
  BY <1>7, <1>8, <1>9
<1>11. \A b : b \in gone <=> \E j \in 1..n : b = d[i][j]
  BY DEF s
<1> HIDE DEF gone, after
<1>12. LeavesOut(d, after, i, n)
  BY <1>10, <1>11 DEF LeavesOut
<1> QED BY <1>6, <1>12 DEF s, rest, after

\* What skimming passes over ends before the block in hand does, and the next one does not.
LEMMA SkimmedFacts ==
  ASSUME NEW s \in Seq(Blocks), written \in AnyBlocks
  PROVE  \E n \in 0..Len(s) :
           /\ Skimmed(s) = SubSeq(s, n + 1, Len(s))
           /\ \A j \in 1..n : End(s[j]) <= End(written) /\ s[j].client >= written.client
           /\ n < Len(s) => ~ (/\ End(s[n + 1]) <= End(written)
                               /\ s[n + 1].client >= written.client)
<1> DEFINE stale(b) == End(b) <= End(written) /\ b.client >= written.client
           Passed(n) == /\ \A j \in 1..n : stale(s[j])
                        /\ n < Len(s) => ~stale(s[n + 1])
           T == {j \in 1..Len(s) : stale(s[j])}
<1>1. \E n \in 0..Len(s) : Passed(n)
  <2> HIDE DEF stale
  <2>1. Len(s) \in Nat /\ T \in SUBSET (1..Len(s))
    OBVIOUS
  <2>2. PICK n \in 0..Len(s) : (\A j \in 1..n : j \in T) /\ (n < Len(s) => n + 1 \notin T)
    <3> HIDE DEF T
    <3> QED BY <2>1, LongestPrefix
  <2>3. n < Len(s) => n + 1 \in 1..Len(s)
    BY <2>1
  <2> QED BY <2>2, <2>3
<1> DEFINE n == CHOOSE n \in 0..Len(s) : Passed(n)
<1>2. n \in 0..Len(s) /\ Passed(n)
  BY <1>1
<1>3. Skimmed(s) = SubSeq(s, n + 1, Len(s))
  BY DEF Skimmed
<1> HIDE DEF n
<1> QED BY <1>2, <1>3

\* Blocks that end before the block in hand does may be passed over: what they have was taken.
LEMMA PassOver ==
  ASSUME NEW d, NEW w, NEW out, NEW units, Keeps(d, w, out, units), InHand(d, w, out),
         NEW i \in Decoders, NEW n \in 0..Len(d[i]),
         \A j \in 1..n : d[i][j].client = w.client /\ End(d[i][j]) <= End(w)
  PROVE  LET after == [d EXCEPT ![i] = SubSeq(d[i], n + 1, Len(d[i]))]
         IN Keeps(after, w, out, units) /\ InHand(after, w, out)
<1> DEFINE after == [d EXCEPT ![i] = SubSeq(d[i], n + 1, Len(d[i]))]
           gone == {d[i][j] : j \in 1..n}
<1>1. Typed(after, w, out) /\ Waiting(d) = Waiting(after) \cup gone
  <2>1. Typed(d, w, out)
    BY DEF Keeps
  <2>2. Typed(after, w, out) /\ LeavesOut(d, after, i, n)
    BY <2>1, DropFirst
  <2> HIDE DEF after
  <2> QED BY <2>2 DEF LeavesOut
<1>2. \A b \in gone : b.client = w.client /\ End(b) <= End(w)
  OBVIOUS
<1>3. gone \subseteq Blocks
  <2>1. d[i] \in Seq(Blocks)
    BY DEF Keeps, Typed
  <2>2. \A j \in 1..n : j \in 1..Len(d[i])
    <3>1. Len(d[i]) \in Nat
      BY <2>1
    <3> QED BY <3>1
  <2> QED BY <2>1, <2>2
<1> HIDE DEF after, gone
<1>4. Sound(after, w, out, units)
  BY <1>1 DEF Keeps, Sound
<1>5. ASSUME NEW u \in units
      PROVE  u.clock \in Nat /\ Known(Waiting(after) \cup Taken(w, out), u.client, u.clock)
  <2>1. u.clock \in Nat /\ Known(Waiting(d) \cup Taken(w, out), u.client, u.clock)
    BY DEF Keeps, Complete
  <2>2. PICK b \in Waiting(d) \cup Taken(w, out) : Covers(b, u.client, u.clock)
    BY <2>1 DEF Known
  <2>3. CASE b \in Waiting(after) \cup Taken(w, out)
    BY <2>1, <2>2, <2>3 DEF Known
  <2>4. CASE b \in gone
    <3>1. b.client = w.client /\ End(b) <= End(w) /\ End(b) \in Nat /\ End(w) \in Nat
      BY <1>2, <1>3, <2>4, BlockFacts DEF InHand
    <3>2. u.client = w.client /\ u.clock < End(w)
      BY <2>1, <2>2, <3>1 DEF Covers
    <3>3. Known(Taken(w, out), w.client, u.clock)
      BY <1>1, <2>1, <2>2, <2>4, <3>2 DEF InHand, Caught
    <3> QED BY <2>1, <3>2, <3>3 DEF Known
  <2> QED BY <1>1, <2>2, <2>3, <2>4
<1>6. Complete(after, w, out, units)
  BY <1>5 DEF Complete
<1>7. InHand(after, w, out)
  BY <1>1 DEF InHand, Descending, Caught
<1> QED BY <1>1, <1>4, <1>6, <1>7 DEF Keeps, after

\* What a decoder still has, it is waiting with.
LEMMA WaitingFacts ==
  ASSUME NEW d, NEW w, NEW out, Typed(d, w, out)
  PROVE  /\ Waiting(d) \subseteq Blocks
         /\ \A i \in Decoders : /\ d[i] \in Seq(Blocks) /\ Len(d[i]) \in Nat
                                /\ \A j \in 1..Len(d[i]) : d[i][j] \in Waiting(d)
         /\ \A b \in Waiting(d) : \E i \in Decoders : \E j \in 1..Len(d[i]) : b = d[i][j]
<1>1. \A i \in Decoders : d[i] \in Seq(Blocks) /\ Len(d[i]) \in Nat
  BY DEF Typed
<1>2. \A i \in Decoders : \A j \in 1..Len(d[i]) : d[i][j] \in Blocks
  BY <1>1
<1> QED BY <1>1, <1>2 DEF Waiting

\* A decoder may be skimmed before the next block is looked at.
LEMMA SkimKeeps ==
  ASSUME IInv, written # NoBlock, NEW i \in Decoders, decoders[i] # <<>>
  PROVE  LET s == Skimmed(decoders[i])
             after == [decoders EXCEPT ![i] = s]
         IN /\ Keeps(after, written, result, input) /\ InHand(after, written, result)
            /\ after[i] = s /\ s \in Seq(Blocks)
            /\ s = decoders[i] => after = decoders
            /\ s # decoders[i] => /\ End(Current(i)) <= End(written)
                                  /\ Current(i).client >= written.client
            /\ s # <<>> => ~ (/\ End(Head(s)) <= End(written)
                              /\ Head(s).client >= written.client)
<1> DEFINE s == Skimmed(decoders[i])
           all == decoders[i]
           after == [decoders EXCEPT ![i] = s]
<1>1. Keeps(decoders, written, result, input) /\ InHand(decoders, written, result)
  BY DEF IInv
<1>2. /\ Typed(decoders, written, result) /\ written \in AnyBlocks
      /\ decoders \in [Decoders -> Seq(Blocks)] /\ all \in Seq(Blocks)
  BY <1>1 DEF Keeps, InHand, Typed
<1>3. PICK n \in 0..Len(all) :
           /\ s = SubSeq(all, n + 1, Len(all))
           /\ \A j \in 1..n : End(all[j]) <= End(written) /\ all[j].client >= written.client
           /\ n < Len(all) => ~ (/\ End(all[n + 1]) <= End(written)
                                 /\ all[n + 1].client >= written.client)
  BY <1>2, SkimmedFacts
<1> HIDE DEF s
<1>4. \A j \in 1..n : all[j] \in Waiting(decoders) /\ all[j] \in Blocks
  <2>1. \A j \in 1..n : j \in 1..Len(all)
    BY <1>2
  <2> QED BY <1>2, <2>1, WaitingFacts
<1>5. \A j \in 1..n : all[j].client = written.client /\ End(all[j]) <= End(written)
  <2>1. ASSUME NEW j \in 1..n PROVE all[j].client = written.client
    <3>1. all[j].client <= written.client /\ all[j].client >= written.client
      BY <1>1, <1>3, <1>4 DEF InHand, Descending
    <3>2. all[j].client \in Nat /\ written.client \in Nat
      BY <1>2, <1>4, BlockFacts
    <3> QED BY <3>1, <3>2
  <2> QED BY <1>3, <2>1
<1>6. Keeps(after, written, result, input) /\ InHand(after, written, result)
  BY <1>1, <1>3, <1>5, PassOver
<1>7. /\ s \in Seq(Blocks) /\ Len(s) = Len(all) - n
      /\ \A k \in 1..Len(s) : s[k] = all[n + k]
  BY <1>2, <1>3, Suffix
<1>8. after[i] = s /\ (s = all => after = decoders)
  BY <1>2
<1>9. s # all => End(Current(i)) <= End(written) /\ Current(i).client >= written.client
  <2>1. n = 0 => s = all
    BY <1>2, <1>3, <1>7
  <2>2. n # 0 => 1 \in 1..n
    BY <1>3
  <2>3. Current(i) = all[1]
    BY <1>2 DEF Current
  <2> QED BY <1>3, <2>1, <2>2, <2>3
<1>10. s # <<>> => ~ (End(Head(s)) <= End(written) /\ Head(s).client >= written.client)
  <2>1. SUFFICES ASSUME s # <<>>
                 PROVE  ~ (End(Head(s)) <= End(written) /\ Head(s).client >= written.client)
    OBVIOUS
  <2>2. Len(s) >= 1 /\ Head(s) = s[1]
    BY <1>7, <2>1
  <2>3. s[1] = all[n + 1] /\ n < Len(all)
    BY <1>2, <1>7, <2>2
  <2> QED BY <1>3, <2>2, <2>3
<1> QED BY <1>6, <1>7, <1>8, <1>9, <1>10 DEF s

\* more is out and s
PutsAll(more, out, s) == \A b : b \in Put(more) <=> b \in Put(out) \/ \E j \in 1..Len(s) : b = s[j]

\* Clients' results after a block was written.
LEMMA AddFacts ==
  ASSUME NEW out \in [Clients -> Seq(AnyBlocks)], NEW c \in Clients, NEW s \in Seq(AnyBlocks)
  PROVE  /\ Add(out, c, s) \in [Clients -> Seq(AnyBlocks)]
         /\ Add(out, c, s)[c] = out[c] \o s
         /\ \A e \in Clients : e # c => Add(out, c, s)[e] = out[e]
         /\ PutsAll(Add(out, c, s), out, s)
<1>1. out[c] \in Seq(AnyBlocks) /\ out[c] \o s \in Seq(AnyBlocks)
  BY ConcatProperties
<1>2. Add(out, c, s) \in [Clients -> Seq(AnyBlocks)]
  BY <1>1 DEF Add
<1>3. Add(out, c, s)[c] = out[c] \o s /\ \A e \in Clients : e # c => Add(out, c, s)[e] = out[e]
  BY DEF Add
<1> DEFINE more == Add(out, c, s)
<1> HIDE DEF more
<1>4. /\ more \in [Clients -> Seq(AnyBlocks)] /\ more[c] = out[c] \o s
      /\ \A e \in Clients : e # c => more[e] = out[e]
  BY <1>2, <1>3 DEF more
<1>5. /\ Len(more[c]) = Len(out[c]) + Len(s) /\ Len(out[c]) \in Nat /\ Len(s) \in Nat
      /\ \A j \in 1..Len(out[c]) : j \in 1..Len(more[c]) /\ more[c][j] = out[c][j]
      /\ \A j \in 1..Len(s) : /\ Len(out[c]) + j \in 1..Len(more[c])
                              /\ more[c][Len(out[c]) + j] = s[j]
  BY <1>1, <1>4
<1>6. \A j \in 1..Len(more[c]) :
        \/ j \in 1..Len(out[c])
        \/ j - Len(out[c]) \in 1..Len(s) /\ more[c][j] = s[j - Len(out[c])]
  <2> SUFFICES ASSUME NEW j \in 1..Len(more[c]), j \notin 1..Len(out[c])
               PROVE  j - Len(out[c]) \in 1..Len(s) /\ more[c][j] = s[j - Len(out[c])]
    OBVIOUS
  <2>1. j - Len(out[c]) \in 1..Len(s) /\ Len(out[c]) + (j - Len(out[c])) = j
    BY <1>5
  <2> QED BY <1>5, <2>1
<1>7. ASSUME NEW e \in Clients, NEW j \in 1..Len(more[e]), more[e][j] \in AnyBlocks
      PROVE  more[e][j] \in Put(out) \/ \E h \in 1..Len(s) : more[e][j] = s[h]
  <2>1. CASE e = c
    BY <1>5, <1>6, <1>7, <2>1 DEF Put
  <2>2. CASE e # c
    BY <1>4, <1>7, <2>2 DEF Put
  <2> QED BY <2>1, <2>2
<1>8. ASSUME NEW e \in Clients, NEW j \in 1..Len(out[e]), out[e][j] \in AnyBlocks
      PROVE  out[e][j] \in Put(more)
  <2>1. CASE e = c
    BY <1>5, <1>8, <2>1 DEF Put
  <2>2. CASE e # c
    BY <1>4, <1>8, <2>2 DEF Put
  <2> QED BY <2>1, <2>2
<1>9. ASSUME NEW j \in 1..Len(s) PROVE s[j] \in Put(more)
  BY <1>5 DEF Put
<1>10. ASSUME NEW b \in Put(more) PROVE b \in Put(out) \/ \E h \in 1..Len(s) : b = s[h]
  <2>1. PICK e \in Clients : \E j \in 1..Len(more[e]) : b = more[e][j]
    BY DEF Put
  <2>2. b \in AnyBlocks
    BY DEF Put
  <2> QED BY <1>7, <2>1, <2>2
<1>11. ASSUME NEW b \in Put(out) PROVE b \in Put(more)
  <2>1. PICK e \in Clients : \E j \in 1..Len(out[e]) : b = out[e][j]
    BY DEF Put
  <2>2. PICK j \in 1..Len(out[e]) : b = out[e][j]
    BY <2>1
  <2>3. b \in AnyBlocks
    BY DEF Put
  <2> HIDE DEF more
  <2> QED BY <1>8, <2>2, <2>3
<1>12. PutsAll(more, out, s)
  BY <1>9, <1>10, <1>11 DEF PutsAll
<1> QED BY <1>2, <1>3, <1>12 DEF more

\* The block in hand is written.
LEMMA PutDown ==
  ASSUME NEW d, NEW w \in AnyBlocks, NEW out, NEW units, Keeps(d, w, out, units)
  PROVE  Keeps(d, NoBlock, Add(out, w.client, <<w>>), units)
<1> DEFINE more == Add(out, w.client, <<w>>)
<1>1. w.client \in Clients /\ <<w>> \in Seq(AnyBlocks) /\ Len(<<w>>) = 1 /\ <<w>>[1] = w
  BY BlockFacts
<1>2. Typed(d, w, out) /\ out \in [Clients -> Seq(AnyBlocks)]
  BY DEF Keeps, Typed
<1>3. /\ more \in [Clients -> Seq(AnyBlocks)] /\ more[w.client] = out[w.client] \o <<w>>
      /\ \A e \in Clients : e # w.client => more[e] = out[e]
      /\ \A b : b \in Put(more) <=> b \in Put(out) \/ b = w
  <2>0. PutsAll(more, out, <<w>>)
    BY <1>1, <1>2, AddFacts
  <2>1. \A b : b \in Put(more) <=> b \in Put(out) \/ \E j \in 1..Len(<<w>>) : b = <<w>>[j]
    BY <2>0 DEF PutsAll
  <2>2. \A b : (\E j \in 1..Len(<<w>>) : b = <<w>>[j]) <=> b = w
    BY <1>1
  <2>3. \A b : b \in Put(more) <=> b \in Put(out) \/ b = w
    BY <2>1, <2>2
  <2> QED BY <1>1, <1>2, <2>3, AddFacts
<1> HIDE DEF more
<1>4. Typed(d, NoBlock, more)
  BY <1>2, <1>3 DEF Typed
<1>5. Unbroken(NoBlock, more)
  <2> SUFFICES ASSUME NEW c \in Clients PROVE Contiguous(more[c] \o <<>>)
    <3>1. \A c \in Clients : NoBlock.client # c
      BY BlockFacts, ClientsAssumption
    <3> QED BY <3>1 DEF Unbroken
  <2>1. more[c] \in Seq(AnyBlocks) /\ more[c] \o <<>> = more[c]
    BY <1>3, ConcatEmptySeq
  <2>2. Contiguous(out[c] \o IF w.client = c THEN <<w>> ELSE <<>>)
    BY DEF Keeps, Unbroken
  <2>3. CASE w.client = c
    BY <1>3, <2>1, <2>2, <2>3
  <2>4. CASE w.client # c
    <3>1. out[c] \o <<>> = out[c]
      BY <1>2, ConcatEmptySeq
    <3> QED BY <1>3, <2>1, <2>2, <2>4, <3>1
  <2> QED BY <2>3, <2>4
<1>6. Taken(NoBlock, more) = Taken(w, out) \cup {NoBlock}
  <2>1. ~IsSkip(NoBlock)
    BY BlockFacts
  <2> QED BY <1>3, <2>1 DEF Taken
<1>7. Backed(NoBlock, units) /\ \A c, k : k \in Nat => ~Covers(NoBlock, c, k)
  BY BlockFacts DEF Backed, Covers
<1>8. Sound(d, NoBlock, more, units)
  BY <1>6, <1>7 DEF Keeps, Sound
<1>9. Complete(d, NoBlock, more, units)
  <2>1. \A c, k : Known(Waiting(d) \cup Taken(w, out), c, k)
                   => Known(Waiting(d) \cup Taken(NoBlock, more), c, k)
    BY <1>6 DEF Known
  <2> QED BY <2>1 DEF Keeps, Complete
<1> QED BY <1>4, <1>5, <1>8, <1>9 DEF Keeps, more

\* The first decoder has the least clock that is left of the highest client.
LEMMA FirstIsFirst ==
  ASSUME NEW w, NEW out, Typed(decoders, w, out), NEW i \in Decoders, First(i)
  PROVE  /\ Current(i) \in Waiting(decoders) /\ Current(i) \in Blocks
         /\ \A b \in Waiting(decoders) :
              /\ b.client <= Current(i).client
              /\ b.client = Current(i).client => Current(i).clock <= b.clock
<1>1. ASSUME NEW j \in Decoders, decoders[j] # <<>>
      PROVE  /\ decoders[j] \in Seq(Blocks) /\ Len(decoders[j]) >= 1
             /\ Current(j) = decoders[j][1] /\ Current(j) \in Waiting(decoders)
             /\ Current(j) \in Blocks
  <2>1. decoders[j] \in Seq(Blocks)
    BY DEF Typed
  <2>2. Len(decoders[j]) \in Nat /\ Len(decoders[j]) >= 1 /\ Current(j) = decoders[j][1]
    BY <1>1, <2>1 DEF Current
  <2>3. 1 \in 1..Len(decoders[j])
    BY <2>2
  <2> QED BY <2>1, <2>2, <2>3, WaitingFacts
<1>2. decoders[i] # <<>>
  BY DEF First
<1>3. ASSUME NEW b \in Waiting(decoders)
      PROVE  /\ b.client <= Current(i).client
             /\ b.client = Current(i).client => Current(i).clock <= b.clock
  <2>1. PICK j \in Decoders : \E k \in 1..Len(decoders[j]) : b = decoders[j][k]
    BY DEF Waiting
  <2>2. PICK k \in 1..Len(decoders[j]) : b = decoders[j][k]
    BY <2>1
  <2>3. decoders[j] # <<>> /\ decoders[j] \in Seq(Blocks) /\ InOrder(decoders[j])
    <3>1. decoders[j] \in Seq(Blocks) /\ InOrder(decoders[j])
      BY DEF Typed
    <3> QED BY <2>2, <3>1
  <2>4. /\ Current(j) = decoders[j][1] /\ Current(j) \in Blocks /\ Len(decoders[j]) >= 1
    BY <1>1, <2>3
  <2>5. \/ Current(j).client < Current(i).client
        \/ Current(j).client = Current(i).client /\ Current(j).clock >= Current(i).clock
    BY <2>3 DEF First
  <2>6. \/ b = Current(j)
        \/ b.client < Current(j).client
        \/ b.client = Current(j).client /\ End(Current(j)) <= b.clock
    <3>1. CASE k = 1
      BY <2>2, <2>4, <3>1
    <3>2. CASE k # 1
      <4>1. 1 \in DOMAIN decoders[j] /\ k \in DOMAIN decoders[j] /\ 1 < k
        BY <2>2, <2>3, <2>4, <3>2
      <4> QED BY <2>2, <2>3, <2>4, <4>1 DEF InOrder
    <3> QED BY <3>1, <3>2
  <2>7. b \in Blocks /\ Current(i) \in Blocks
    BY <1>1, <1>2, WaitingFacts
  <2>8. /\ b.client \in Nat /\ b.clock \in Nat /\ Current(i).client \in Nat /\ Current(i).clock \in Nat
        /\ Current(j).client \in Nat /\ Current(j).clock \in Nat /\ End(Current(j)) \in Nat
        /\ Current(j).clock < End(Current(j))
    BY <2>4, <2>7, BlockFacts
  <2> QED BY <2>5, <2>6, <2>8
<1> QED BY <1>1, <1>2, <1>3

\* The first block of a client is taken in hand.
LEMMA TakeUp ==
  ASSUME NEW out, Keeps(decoders, NoBlock, out, input), NEW i \in Decoders, First(i),
         \A c \in Clients : c <= Current(i).client => out[c] = <<>>
  PROVE  LET after == [decoders EXCEPT ![i] = Tail(decoders[i])]
         IN /\ Keeps(after, Current(i), out, input)
            /\ InHand(after, Current(i), out)
<1> DEFINE w == Current(i)
           after == [decoders EXCEPT ![i] = Tail(decoders[i])]
<1>1. /\ Typed(decoders, NoBlock, out) /\ decoders[i] \in Seq(Blocks) /\ decoders[i] # <<>>
      /\ out \in [Clients -> Seq(AnyBlocks)]
  BY DEF Keeps, Typed, First
<1>2. /\ w \in Waiting(decoders) /\ w \in Blocks /\ w \in AnyBlocks
      /\ \A b \in Waiting(decoders) :
              /\ b.client <= w.client
              /\ b.client = w.client => w.clock <= b.clock
  BY <1>1, FirstIsFirst, BlockFacts
<1>3. Len(decoders[i]) \in Nat /\ Len(decoders[i]) >= 1 /\ w = decoders[i][1]
  BY <1>1 DEF Current
<1> HIDE DEF w
<1>4. Typed(after, NoBlock, out) /\ LeavesOut(decoders, after, i, 1)
  <2>1. Tail(decoders[i]) = SubSeq(decoders[i], 1 + 1, Len(decoders[i]))
    <3>1. Tail(decoders[i]) = SubSeq(decoders[i], 2, Len(decoders[i]))
      BY <1>1, TailIsSubSeq
    <3>2. 1 + 1 = 2
      OBVIOUS
    <3> QED BY <3>1, <3>2
  <2>2. 1 \in 0..Len(decoders[i])
    BY <1>3
  <2> QED BY <1>1, <2>1, <2>2, DropFirst
<1>5. Typed(after, w, out)
  BY <1>2, <1>4 DEF Typed
<1> HIDE DEF after
<1>6. \A b : b \in Waiting(decoders) <=> b \in Waiting(after) \/ b = w
  <2>1. \A b : b \in Waiting(decoders) <=>
                 b \in Waiting(after) \/ \E j \in 1..1 : b = decoders[i][j]
    BY <1>4 DEF LeavesOut
  <2>2. \A b : (\E j \in 1..1 : b = decoders[i][j]) <=> b = w
    BY <1>3
  <2> QED BY <2>1, <2>2
<1>7. \A b : b \in Taken(w, out) <=> b = w \/ b \in Taken(NoBlock, out) \ {NoBlock}
  <2>1. ~IsSkip(w) /\ NoBlock \notin Put(out)
    BY <1>2, BlockFacts DEF Put
  <2> QED BY <2>1 DEF Taken
<1>8. Unbroken(w, out)
  <2> SUFFICES ASSUME NEW c \in Clients
               PROVE  Contiguous(out[c] \o IF w.client = c THEN <<w>> ELSE <<>>)
    BY DEF Unbroken
  <2>1. CASE w.client = c
    <3>1. out[c] = <<>>
      <4>1. c <= w.client
        BY <1>2, <2>1, BlockFacts
      <4> QED BY <4>1 DEF w
    <3>2. out[c] \o <<w>> = <<w>>
      BY <1>2, <3>1, ConcatEmptySeq
    <3>3. Contiguous(<<w>>)
      <4>1. DOMAIN <<w>> = {1}
        OBVIOUS
      <4>2. \A j, k \in {1} : k # j + 1
        OBVIOUS
      <4> QED BY <4>1, <4>2 DEF Contiguous
    <3> QED BY <2>1, <3>2, <3>3
  <2>2. CASE w.client # c
    <3>1. NoBlock.client # c
      BY BlockFacts, ClientsAssumption
    <3> QED BY <2>2, <3>1 DEF Keeps, Unbroken
  <2> QED BY <2>1, <2>2
<1>9. Sound(after, w, out, input)
  BY <1>2, <1>6, <1>7 DEF Keeps, Sound
<1>10. Complete(after, w, out, input)
  <2> SUFFICES ASSUME NEW u \in input
               PROVE  /\ u.clock \in Nat
                      /\ Known(Waiting(after) \cup Taken(w, out), u.client, u.clock)
    BY DEF Complete
  <2>1. u.clock \in Nat /\ Known(Waiting(decoders) \cup Taken(NoBlock, out), u.client, u.clock)
    BY DEF Keeps, Complete
  <2>2. PICK b \in Waiting(decoders) \cup Taken(NoBlock, out) : Covers(b, u.client, u.clock)
    BY <2>1 DEF Known
  <2>3. b # NoBlock
    BY <2>1, <2>2, BlockFacts DEF Covers
  <2>4. b \in Waiting(after) \cup Taken(w, out)
    BY <1>6, <1>7, <2>3
  <2> QED BY <2>1, <2>2, <2>4 DEF Known
<1>11. InHand(after, w, out)
  <2>1. Descending(after, w, out)
    <3>1. \A c \in Clients : c < w.client => out[c] = <<>>
      <4>1. \A c \in Clients : c < w.client => c <= w.client
        BY <1>2, BlockFacts, ClientsAssumption
      <4> QED BY <4>1 DEF w
    <3> QED BY <1>2, <1>6, <3>1 DEF Descending
  <2>2. Caught(after, w, out)
    <3> SUFFICES ASSUME NEW b \in Waiting(after), NEW k \in Nat, Covers(b, w.client, k), k < End(w)
                 PROVE  Known(Taken(w, out), w.client, k)
      BY DEF Caught
    <3>1. b.client = w.client /\ b.clock <= k /\ w.clock <= b.clock
      BY <1>2, <1>6 DEF Covers
    <3>2. b \in Blocks /\ b.clock \in Nat /\ w.clock \in Nat
      BY <1>2, BlockFacts DEF Waiting
    <3>3. Covers(w, w.client, k)
      BY <3>1, <3>2 DEF Covers
    <3> QED BY <1>7, <3>3 DEF Known
  <2> QED BY <1>2, <2>1, <2>2 DEF InHand
<1> QED BY <1>5, <1>8, <1>9, <1>10, <1>11 DEF Keeps, w, after

\* Nothing is lost when blocks go from a decoder to the result, and nothing new comes up.
LEMMA Moved ==
  ASSUME NEW d, NEW w, NEW out, NEW units, Sound(d, w, out, units), Complete(d, w, out, units),
         NEW after, NEW w2, NEW out2,
         Waiting(after) \subseteq Waiting(d),
         Taken(w2, out2) \subseteq Taken(w, out) \cup Waiting(d),
         Taken(w, out) \subseteq Taken(w2, out2),
         Waiting(d) \subseteq Waiting(after) \cup Taken(w2, out2)
  PROVE  Sound(after, w2, out2, units) /\ Complete(after, w2, out2, units)
<1>1. Sound(after, w2, out2, units)
  BY DEF Sound
<1>2. \A c, k : Known(Waiting(d) \cup Taken(w, out), c, k)
                => Known(Waiting(after) \cup Taken(w2, out2), c, k)
  BY DEF Known
<1>3. Complete(after, w2, out2, units)
  BY <1>2 DEF Complete
<1> QED BY <1>1, <1>3

\* w and n blocks of decoder i that follow it are taken; run is w and all blocks of the decoder
Takes(i, w, blocks, out, n, run) ==
  /\ Len(run) = Len(blocks) + 1 /\ run[1] = w
  /\ \A j \in 1..Len(blocks) : run[j + 1] = blocks[j]
  /\ \A j \in 1..n : run[j + 1].client = w.client /\ run[j + 1].clock = End(run[j])
  /\ n < Len(blocks) => ~ (/\ run[n + 2].client = w.client
                           /\ run[n + 2].clock = End(run[n + 1]))
  /\ written' = run[n + 1] /\ input' = input
  /\ result' = Add(out, w.client, SubSeq(run, 1, n))
  /\ decoders' = [decoders EXCEPT ![i] = SubSeq(blocks, n + 1, Len(blocks))]

\* The blocks that are taken at once begin with w and touch each other.
LEMMA RunFacts ==
  ASSUME NEW w \in AnyBlocks, NEW i \in Decoders, NEW blocks \in Seq(Blocks), NEW out,
         decoders \in [Decoders -> Seq(Blocks)], TakeOn(i, w, blocks, out)
  PROVE  \E n \in 0..Len(blocks), run \in Seq(AnyBlocks) : Takes(i, w, blocks, out, n, run)
<1> DEFINE run == <<w>> \o blocks
           follows(j) == run[j + 1].client = w.client /\ run[j + 1].clock = End(run[j])
           Longest(n) == /\ \A j \in 1..n : follows(j)
                         /\ n < Len(blocks) => ~follows(n + 1)
           n == CHOOSE n \in 0..Len(blocks) : Longest(n)
           T == {j \in 1..Len(blocks) : follows(j)}
<1>1. /\ run \in Seq(AnyBlocks) /\ Len(run) = Len(blocks) + 1 /\ run[1] = w
      /\ \A j \in 1..Len(blocks) : run[j + 1] = blocks[j]
  <2>1. blocks \in Seq(AnyBlocks) /\ Len(blocks) \in Nat
    BY DEF AnyBlocks
  <2> QED BY <2>1
<1>2. /\ written' = run[n + 1] /\ input' = input
      /\ result' = Add(out, w.client, SubSeq(run, 1, n))
      /\ decoders' = [decoders EXCEPT ![i] = SubSeq(run, n + 2, Len(run))]
  BY DEF TakeOn
<1> HIDE DEF run
<1>3. \E m \in 0..Len(blocks) : Longest(m)
  <2> HIDE DEF follows
  <2>1. Len(blocks) \in Nat /\ T \in SUBSET (1..Len(blocks))
    OBVIOUS
  <2>2. PICK m \in 0..Len(blocks) : (\A j \in 1..m : j \in T) /\ (m < Len(blocks) => m + 1 \notin T)
    <3> HIDE DEF T
    <3> QED BY <2>1, LongestPrefix
  <2>3. m < Len(blocks) => m + 1 \in 1..Len(blocks)
    BY <2>1
  <2> QED BY <2>2, <2>3
<1>4. n \in 0..Len(blocks) /\ Longest(n)
  <2> HIDE DEF Longest
  <2> QED BY <1>3
<1> HIDE DEF n
<1>5. SubSeq(run, n + 2, Len(run)) = SubSeq(blocks, n + 1, Len(blocks))
  <2> DEFINE a == SubSeq(run, n + 2, Len(run))
             b == SubSeq(blocks, n + 1, Len(blocks))
  <2>1. n \in Nat /\ Len(blocks) \in Nat /\ n <= Len(blocks) /\ n + 1 \in 0..Len(run)
        /\ (n + 1) + 1 = n + 2
    BY <1>1, <1>4
  <2>2. /\ b \in Seq(Blocks) /\ Len(b) = Len(blocks) - n
        /\ \A k \in 1..Len(b) : n + k \in 1..Len(blocks) /\ b[k] = blocks[n + k]
    BY <1>4, Suffix
  <2>3. /\ a \in Seq(AnyBlocks) /\ Len(a) = Len(run) - (n + 1)
        /\ \A k \in 1..Len(a) : (n + 1) + k \in 1..Len(run) /\ a[k] = run[(n + 1) + k]
    <3>1. a = SubSeq(run, (n + 1) + 1, Len(run))
      BY <2>1
    <3> HIDE DEF a
    <3> QED BY <1>1, <2>1, <3>1, Suffix
  <2> HIDE DEF a, b
  <2>4. Len(a) = Len(b)
    BY <1>1, <2>1, <2>2, <2>3
  <2>5. ASSUME NEW k \in 1..Len(b) PROVE a[k] = b[k]
    <3>1. (n + 1) + k = (n + k) + 1
      BY <2>1, <2>2
    <3> QED BY <1>1, <2>2, <2>3, <2>4, <3>1
  <2>6. a \in Seq(AnyBlocks) /\ b \in Seq(AnyBlocks)
    BY <2>2, <2>3 DEF AnyBlocks
  <2>7. a = b
    BY <2>4, <2>5, <2>6, SeqEqual
  <2> QED BY <2>7 DEF a, b
<1>6. (n + 1) + 1 = n + 2
  BY <1>4
<1>7. Takes(i, w, blocks, out, n, run)
  BY <1>1, <1>2, <1>4, <1>5, <1>6 DEF Takes
<1> QED BY <1>1, <1>4, <1>7

\* What touches may be put behind what touches its first block.
LEMMA UnbrokenRun ==
  ASSUME NEW s \in Seq(AnyBlocks), NEW run \in Seq(AnyBlocks), NEW n \in Nat, n + 1 <= Len(run),
         Contiguous(s \o <<run[1]>>), \A j \in 1..n : run[j + 1].clock = End(run[j])
  PROVE  Contiguous((s \o SubSeq(run, 1, n)) \o <<run[n + 1]>>)
<1> DEFINE old == s \o <<run[1]>>
           front == SubSeq(run, 1, n)
           most == s \o front
           new == most \o <<run[n + 1]>>
<1>1. PICK L \in Nat : L = Len(s)
  OBVIOUS
<1>2. \A j \in 1..(n + 1) : run[j] \in AnyBlocks
  <2>1. \A j \in 1..(n + 1) : j \in 1..Len(run)
    OBVIOUS
  <2> QED BY <2>1
<1>3. Contiguous(old)
  OBVIOUS
<1>4. /\ Len(old) = L + 1 /\ DOMAIN old = 1..(L + 1) /\ old[L + 1] = run[1]
      /\ \A k \in 1..L : old[k] = s[k]
  <2>1. <<run[1]>> \in Seq(AnyBlocks) /\ Len(<<run[1]>>) = 1 /\ <<run[1]>>[1] = run[1]
    BY <1>2
  <2>2. /\ old \in Seq(AnyBlocks) /\ Len(old) = Len(s) + Len(<<run[1]>>)
        /\ \A k \in 1..Len(s) : old[k] = s[k]
        /\ \A k \in 1..Len(<<run[1]>>) : old[Len(s) + k] = <<run[1]>>[k]
    BY <2>1, Joined
  <2> HIDE DEF old
  <2> QED BY <1>1, <2>1, <2>2
<1>5. front \in Seq(AnyBlocks) /\ Len(front) = n /\ \A j \in 1..n : front[j] = run[j]
  OBVIOUS
<1> HIDE DEF old, front
<1>6. /\ most \in Seq(AnyBlocks) /\ Len(most) = L + n
      /\ \A k \in 1..L : most[k] = s[k]
      /\ \A j \in 1..n : most[L + j] = run[j]
  BY <1>1, <1>5, Joined
<1> HIDE DEF most
<1>7. /\ DOMAIN new = 1..(L + n + 1) /\ new[L + n + 1] = run[n + 1]
      /\ \A k \in 1..(L + n) : new[k] = most[k]
  <2> DEFINE e == <<run[n + 1]>>
  <2>1. e \in Seq(AnyBlocks) /\ Len(e) = 1 /\ e[1] = run[n + 1]
    BY <1>2
  <2> HIDE DEF e
  <2>2. /\ most \o e \in Seq(AnyBlocks) /\ Len(most \o e) = L + n + 1
        /\ \A k \in 1..(L + n) : (most \o e)[k] = most[k]
        /\ (most \o e)[L + n + 1] = e[1]
    <3>1. /\ most \o e \in Seq(AnyBlocks) /\ Len(most \o e) = Len(most) + Len(e)
          /\ \A k \in 1..Len(most) : (most \o e)[k] = most[k]
          /\ \A k \in 1..Len(e) : (most \o e)[Len(most) + k] = e[k]
      <4>1. most \in Seq(AnyBlocks) /\ e \in Seq(AnyBlocks)
        BY <1>6, <2>1
      <4> QED BY <4>1, Joined
    <3>2. 1 \in 1..Len(e) /\ Len(most) + 1 = L + n + 1
      BY <1>6, <2>1
    <3> QED BY <1>6, <2>1, <3>1, <3>2
  <2>3. DOMAIN (most \o e) = 1..(L + n + 1)
    BY <2>2
  <2> QED BY <2>1, <2>2, <2>3 DEF e
<1> HIDE DEF new
<1>8. \A k \in 1..L : new[k] = s[k]
  <2>1. \A k \in 1..L : k \in 1..(L + n)
    OBVIOUS
  <2> QED BY <1>6, <1>7, <2>1
<1>9. \A j \in 1..(n + 1) : new[L + j] = run[j]
  <2> SUFFICES ASSUME NEW j \in 1..(n + 1) PROVE new[L + j] = run[j]
    OBVIOUS
  <2>1. CASE j = n + 1
    <3>1. L + j = L + n + 1
      BY <2>1
    <3> QED BY <1>7, <2>1, <3>1
  <2>2. CASE j # n + 1
    <3>1. j \in 1..n /\ L + j \in 1..(L + n)
      BY <2>2
    <3> QED BY <1>6, <1>7, <3>1
  <2> QED BY <2>1, <2>2
<1>10. ASSUME NEW k \in 1..(L + n) PROVE new[k + 1].clock = End(new[k])
  <2>1. CASE k <= L
    <3>1. k \in DOMAIN old /\ k + 1 \in DOMAIN old
      BY <1>4, <2>1
    <3>2. old[k + 1].clock = End(old[k])
      BY <1>3, <3>1 DEF Contiguous
    <3>3. k \in 1..L /\ new[k] = old[k]
      BY <1>4, <1>8, <2>1
    <3>4. new[k + 1] = old[k + 1]
      <4>1. CASE k = L
        <5>1. 1 \in 1..(n + 1)
          OBVIOUS
        <5> QED BY <1>4, <1>9, <4>1, <5>1
      <4>2. CASE k # L
        <5>1. k + 1 \in 1..L
          BY <2>1, <4>2
        <5> QED BY <1>4, <1>8, <5>1
      <4> QED BY <4>1, <4>2
    <3> QED BY <3>2, <3>3, <3>4
  <2>2. CASE ~ (k <= L)
    <3>1. PICK j \in 1..n : k = L + j
      <4>1. k - L \in 1..n /\ k = L + (k - L)
        BY <2>2
      <4> QED BY <4>1
    <3>2. j \in 1..(n + 1) /\ j + 1 \in 1..(n + 1) /\ L + (j + 1) = k + 1
      BY <3>1
    <3>3. new[k] = run[j] /\ new[k + 1] = run[j + 1]
      BY <1>9, <3>1, <3>2
    <3> QED BY <3>1, <3>3
  <2> QED BY <2>1, <2>2
<1>11. Contiguous(new)
  <2> SUFFICES ASSUME NEW j \in DOMAIN new, NEW k \in DOMAIN new, k = j + 1
               PROVE  new[k].clock = End(new[j])
    BY DEF Contiguous
  <2>1. j \in 1..(L + n)
    BY <1>7
  <2> QED BY <1>10, <2>1
<1> QED BY <1>11 DEF new, most, front

\* The end of the loop's body keeps everything, provided that a Skip is followed at once.
LEMMA TakeOnKeeps ==
  ASSUME decoders \in [Decoders -> Seq(Blocks)],
         NEW w, NEW out, NEW i \in Decoders, NEW blocks \in Seq(Blocks),
         Keeps([decoders EXCEPT ![i] = blocks], w, out, input),
         InHand([decoders EXCEPT ![i] = blocks], w, out),
         IsSkip(w) => /\ Len(blocks) > 0
                      /\ blocks[1].client = w.client /\ blocks[1].clock = End(w),
         TakeOn(i, w, blocks, out)
  PROVE  IInv'
<1> DEFINE d == [decoders EXCEPT ![i] = blocks]
<1>1. Typed(d, w, out) /\ out \in [Clients -> Seq(AnyBlocks)] /\ w \in AnyBlocks
  BY DEF Keeps, Typed, InHand
<1>2. /\ w.client \in Clients /\ End(w) \in Nat /\ Len(blocks) \in Nat
      /\ \A j \in 1..Len(blocks) : blocks[j] \in Blocks
  BY <1>1, BlockFacts
<1>0. PICK n \in 0..Len(blocks), run \in Seq(AnyBlocks) : Takes(i, w, blocks, out, n, run)
  BY <1>1, RunFacts
<1>3. /\ Len(run) = Len(blocks) + 1 /\ run[1] = w
      /\ \A j \in 1..Len(blocks) : run[j + 1] = blocks[j]
      /\ \A j \in 1..n : run[j + 1].client = w.client /\ run[j + 1].clock = End(run[j])
      /\ n < Len(blocks) => ~ (/\ run[n + 2].client = w.client
                               /\ run[n + 2].clock = End(run[n + 1]))
      /\ written' = run[n + 1] /\ input' = input
      /\ result' = Add(out, w.client, SubSeq(run, 1, n))
      /\ decoders' = [decoders EXCEPT ![i] = SubSeq(blocks, n + 1, Len(blocks))]
  BY <1>0 DEF Takes
<1> DEFINE after == [d EXCEPT ![i] = SubSeq(d[i], n + 1, Len(d[i]))]
           w2 == run[n + 1]
           out2 == Add(out, w.client, SubSeq(run, 1, n))
<1>4. d[i] = blocks /\ decoders' = after
  BY <1>3
<1>5. Typed(after, w, out) /\ LeavesOut(d, after, i, n)
  <2> HIDE DEF d
  <2> QED BY <1>1, <1>3, <1>4, DropFirst
<1> HIDE DEF after
<1>6. /\ Waiting(after) \subseteq Waiting(d)
      /\ \A j \in 1..n : blocks[j] \in Waiting(d)
      /\ \A b \in Waiting(d) : b \in Waiting(after) \/ \E j \in 1..n : b = blocks[j]
  BY <1>4, <1>5 DEF LeavesOut
<1>7. Keeps(d, w, out, input) /\ InHand(d, w, out)
  OBVIOUS
<1> HIDE DEF d
<1>n. n \in Nat
  BY <1>2
<1>8. /\ n \in Nat /\ n <= Len(blocks)
      /\ \A j \in 1..(n + 1) : j \in 1..Len(run) /\ run[j] \in AnyBlocks /\ run[j].client = w.client
  <2>1. n \in Nat /\ n <= Len(blocks)
    BY <1>2, <1>3
  <2>2. ASSUME NEW j \in 1..(n + 1) PROVE j \in 1..Len(run) /\ run[j].client = w.client
    <3>1. j \in 1..Len(run)
      BY <1>2, <1>3, <2>1
    <3>2. CASE j = 1
      BY <1>3, <3>1, <3>2
    <3>3. CASE j # 1
      <4>1. j - 1 \in 1..n /\ (j - 1) + 1 = j
        BY <2>1, <3>3
      <4> QED BY <1>3, <3>1, <4>1
    <3> QED BY <3>2, <3>3
  <2> QED BY <1>3, <2>1, <2>2
<1>9. w2 \in AnyBlocks /\ w2.client = w.client
  <2>1. n + 1 \in 1..(n + 1)
    BY <1>8
  <2> QED BY <1>8, <2>1
<1>10. /\ SubSeq(run, 1, n) \in Seq(AnyBlocks) /\ Len(SubSeq(run, 1, n)) = n
       /\ \A j \in 1..n : SubSeq(run, 1, n)[j] = run[j]
  BY <1>2, <1>3, <1>8
<1>11. /\ out2 \in [Clients -> Seq(AnyBlocks)]
       /\ out2[w.client] = out[w.client] \o SubSeq(run, 1, n)
       /\ \A e \in Clients : e # w.client => out2[e] = out[e]
       /\ \A b : b \in Put(out2) <=> b \in Put(out) \/ \E j \in 1..n : b = run[j]
  <2> DEFINE front == SubSeq(run, 1, n)
  <2>1. front \in Seq(AnyBlocks) /\ Len(front) = n /\ \A j \in 1..n : front[j] = run[j]
    BY <1>10
  <2>2. out2 = Add(out, w.client, front)
    OBVIOUS
  <2> HIDE DEF front, out2
  <2>3. \A b : b \in Put(out2) <=> b \in Put(out) \/ \E j \in 1..Len(front) : b = front[j]
    <3>1. PutsAll(out2, out, front)
      BY <1>1, <1>2, <2>1, <2>2, AddFacts
    <3> QED BY <3>1 DEF PutsAll
  <2>4. \A b : (\E j \in 1..Len(front) : b = front[j]) <=> \E j \in 1..n : b = run[j]
    BY <2>1
  <2>5. \A b : b \in Put(out2) <=> b \in Put(out) \/ \E j \in 1..n : b = run[j]
    <3> TAKE b
    <3>1. b \in Put(out2) <=> b \in Put(out) \/ \E j \in 1..Len(front) : b = front[j]
      BY <2>3
    <3>2. (\E j \in 1..Len(front) : b = front[j]) <=> \E j \in 1..n : b = run[j]
      BY <2>4
    <3> QED BY <3>1, <3>2
  <2>6. /\ out2 \in [Clients -> Seq(AnyBlocks)]
        /\ out2[w.client] = out[w.client] \o front
        /\ \A e \in Clients : e # w.client => out2[e] = out[e]
    <3>1. w.client \in Clients /\ out \in [Clients -> Seq(AnyBlocks)]
      BY <1>1, <1>2
    <3>2. /\ Add(out, w.client, front) \in [Clients -> Seq(AnyBlocks)]
          /\ Add(out, w.client, front)[w.client] = out[w.client] \o front
          /\ \A e \in Clients : e # w.client => Add(out, w.client, front)[e] = out[e]
      BY <2>1, <3>1, AddFacts
    <3> QED BY <2>2, <3>2
  <2> QED BY <2>5, <2>6 DEF front
<1> HIDE DEF out2
<1>12. Typed(after, w2, out2)
  BY <1>5, <1>9, <1>11 DEF Typed
\* what is taken is what was, and the blocks that follow w
<1>13. Taken(w, out) \subseteq Taken(w2, out2)
  <2>1. w \in Put(out2) \cup {w2}
    <3>1. CASE n = 0
      BY <1>3, <3>1
    <3>2. CASE n # 0
      <4>1. 1 \in 1..n
        BY <1>8, <3>2
      <4> QED BY <1>3, <1>11, <4>1
    <3> QED BY <3>1, <3>2
  <2> QED BY <1>11, <2>1 DEF Taken
<1>14. ASSUME NEW j \in 1..n PROVE blocks[j] \in Taken(w2, out2)
  <2>1. blocks[j] = run[j + 1] /\ ~IsSkip(blocks[j])
    <3>1. j \in 1..Len(blocks)
      BY <1>2, <1>8
    <3> QED BY <1>2, <1>3, <3>1, BlockFacts
  <2>2. run[j + 1] \in Put(out2) \cup {w2}
    <3>1. CASE j = n
      BY <3>1
    <3>2. CASE j # n
      <4>1. j + 1 \in 1..n
        BY <1>8, <3>2
      <4> QED BY <1>11, <4>1
    <3> QED BY <3>1, <3>2
  <2> QED BY <2>1, <2>2 DEF Taken
<1>15. Taken(w2, out2) \subseteq Taken(w, out) \cup Waiting(d)
  <2>1. ASSUME NEW j \in 1..(n + 1) PROVE run[j] = w \/ run[j] \in Waiting(d)
    <3>1. CASE j = 1
      BY <1>3, <3>1
    <3>2. CASE j # 1
      <4>1. j - 1 \in 1..n /\ j - 1 \in 1..Len(blocks) /\ (j - 1) + 1 = j
        BY <1>2, <1>8, <3>2
      <4> QED BY <1>3, <1>6, <4>1
    <3> QED BY <3>1, <3>2
  <2>2. (\A j \in 1..n : j \in 1..(n + 1)) /\ n + 1 \in 1..(n + 1)
    BY <1>8
  <2>3. \A b \in Put(out2) \cup {w2} : b \in Put(out) \/ b = w \/ b \in Waiting(d)
    <3>1. ASSUME NEW b \in Put(out2) PROVE b \in Put(out) \/ b = w \/ b \in Waiting(d)
      <4>1. CASE b \in Put(out)
        BY <4>1
      <4>2. CASE b \notin Put(out)
        <5>1. PICK j \in 1..n : b = run[j]
          BY <1>11, <4>2
        <5> QED BY <2>1, <2>2, <5>1
      <4> QED BY <4>1, <4>2
    <3>2. w2 = w \/ w2 \in Waiting(d)
      BY <2>1, <2>2
    <3> QED BY <3>1, <3>2
  <2> QED BY <2>3 DEF Taken
<1>16. Waiting(d) \subseteq Waiting(after) \cup Taken(w2, out2)
  BY <1>6, <1>14
<1>17. Sound(after, w2, out2, input) /\ Complete(after, w2, out2, input)
  <2> HIDE DEF w2
  <2>1. Sound(d, w, out, input) /\ Complete(d, w, out, input)
    BY <1>7 DEF Keeps
  <2> QED BY <1>6, <1>13, <1>15, <1>16, <2>1, Moved
<1>18. Unbroken(w2, out2)
  <2> SUFFICES ASSUME NEW c \in Clients
               PROVE  Contiguous(out2[c] \o IF w2.client = c THEN <<w2>> ELSE <<>>)
    BY DEF Unbroken
  <2>1. Contiguous(out[c] \o IF w.client = c THEN <<w>> ELSE <<>>)
    BY <1>7 DEF Keeps, Unbroken
  <2>2. CASE c # w.client
    BY <1>9, <1>11, <2>1, <2>2
  <2>3. CASE c = w.client
    <3>1. Contiguous(out[c] \o <<run[1]>>)
      BY <1>3, <2>1, <2>3
    <3>2. out[c] \in Seq(AnyBlocks) /\ n + 1 <= Len(run)
      BY <1>1, <1>2, <1>3, <1>8
    <3>3. \A j \in 1..n : run[j + 1].clock = End(run[j])
      BY <1>3
    <3>4. Contiguous((out[c] \o SubSeq(run, 1, n)) \o <<run[n + 1]>>)
      BY <1>n, <3>1, <3>2, <3>3, UnbrokenRun
    <3> QED BY <1>9, <1>11, <2>3, <3>4
  <2> QED BY <2>2, <2>3
<1>19. Descending(after, w2, out2)
  <2>1. Descending(d, w, out)
    BY <1>7 DEF InHand
  <2>2. \A b \in Waiting(after) : b.client <= w2.client
    BY <1>6, <1>9, <2>1 DEF Descending
  <2>3. ASSUME NEW c \in Clients, c < w2.client PROVE out2[c] = <<>>
    <3>1. c # w.client /\ c < w.client
      BY <1>2, <1>9, <2>3, ClientsAssumption
    <3> QED BY <1>11, <2>1, <3>1 DEF Descending
  <2> QED BY <2>2, <2>3 DEF Descending
<1>20. Caught(after, w2, out2)
  <2> SUFFICES ASSUME NEW b \in Waiting(after), NEW k \in Nat, Covers(b, w.client, k), k < End(w2)
               PROVE  Known(Taken(w2, out2), w.client, k)
    BY <1>9 DEF Caught
  <2>1. CASE k < End(w)
    <3>1. Known(Taken(w, out), w.client, k)
      BY <1>6, <1>7, <2>1 DEF InHand, Caught
    <3> QED BY <1>13, <3>1 DEF Known
  <2>2. CASE ~ (k < End(w))
    <3> DEFINE T == {j \in 1..(n + 1) : k < End(run[j])}
    <3>1. n + 1 \in T /\ T \in SUBSET Nat
      BY <1>8
    <3> HIDE DEF T
    <3>2. PICK m \in T : \A j \in T : m <= j
      BY <3>1, LeastElement
    <3>3. m \in 1..(n + 1) /\ k < End(run[m])
      BY <3>2 DEF T
    <3>4. m # 1
      BY <1>3, <2>2, <3>3
    <3>5. m - 1 \in 1..n /\ m - 1 \in 1..(n + 1) /\ (m - 1) + 1 = m /\ m - 1 \in 1..Len(blocks)
      BY <1>2, <1>8, <3>3, <3>4
    <3>6. m - 1 \notin T
      BY <3>2, <3>3, <3>5
    <3>7. ~ (k < End(run[m - 1])) /\ End(run[m - 1]) \in Nat
      BY <1>8, <3>5, <3>6, BlockFacts DEF T
    <3>8. run[m].clock <= k /\ run[m].client = w.client /\ run[m] = blocks[m - 1]
      <4>1. run[m].clock = End(run[m - 1]) /\ run[m].client = w.client /\ run[m] = blocks[m - 1]
        BY <1>3, <3>5
      <4> QED BY <3>7, <4>1
    <3>9. Covers(run[m], w.client, k)
      BY <3>3, <3>8 DEF Covers
    <3> QED BY <1>14, <3>5, <3>8, <3>9 DEF Known
  <2> QED BY <2>1, <2>2
<1>21. w2 \in Blocks
  <2>1. CASE n = 0
    <3>1. w2 = w
      BY <1>3, <2>1
    <3>2. ~IsSkip(w)
      <4>1. SUFFICES ASSUME IsSkip(w) PROVE FALSE
        OBVIOUS
      <4>2. Len(blocks) > 0 /\ blocks[1].client = w.client /\ blocks[1].clock = End(w)
        BY <4>1
      <4>3. 1 \in 1..Len(blocks) /\ 1 + 1 = 2 /\ n + 2 = 2 /\ n + 1 = 1 /\ n < Len(blocks)
        BY <1>2, <2>1, <4>2
      <4> QED BY <1>3, <4>2, <4>3
    <3> QED BY <1>1, <3>1, <3>2, BlockFacts DEF AnyBlocks
  <2>2. CASE n # 0
    <3>1. n \in 1..Len(blocks)
      BY <1>2, <1>8, <2>2
    <3> QED BY <1>2, <1>3, <3>1
  <2> QED BY <2>1, <2>2
<1>22. InHand(after, w2, out2) /\ Keeps(after, w2, out2, input)
  BY <1>9, <1>12, <1>17, <1>18, <1>19, <1>20 DEF InHand, Keeps
<1>23. decoders' = after /\ written' = w2 /\ result' = out2 /\ input' = input
  BY <1>3, <1>4 DEF out2
<1>24. w2 # NoBlock
  BY <1>9, BlockFacts
<1> HIDE DEF w2
<1> QED BY <1>21, <1>22, <1>23, <1>24 DEF IInv

\* The block in hand is written and w2, which touches it, is taken in hand.
LEMMA NextInHand ==
  ASSUME NEW d, NEW w, NEW out, NEW units, Keeps(d, w, out, units), InHand(d, w, out),
         NEW w2 \in AnyBlocks, w2.client = w.client, w2.clock = End(w)
  PROVE  LET out2 == Add(out, w.client, <<w>>)
         IN /\ Typed(d, w2, out2) /\ Unbroken(w2, out2) /\ Descending(d, w2, out2)
            /\ Taken(w2, out2) = Taken(w, out) \cup ({w2} \ Skips)
<1> DEFINE out2 == Add(out, w.client, <<w>>)
<1>1. /\ Typed(d, w, out) /\ out \in [Clients -> Seq(AnyBlocks)] /\ w \in AnyBlocks
      /\ w.client \in Clients /\ w.client \in Nat
  BY BlockFacts DEF Keeps, Typed, InHand
<1>2. <<w>> \in Seq(AnyBlocks) /\ Len(<<w>>) = 1 /\ <<w>>[1] = w
  BY <1>1
<1>3. /\ out2 \in [Clients -> Seq(AnyBlocks)] /\ out2[w.client] = out[w.client] \o <<w>>
      /\ \A e \in Clients : e # w.client => out2[e] = out[e]
      /\ PutsAll(out2, out, <<w>>)
  BY <1>1, <1>2, AddFacts
<1> HIDE DEF out2
<1>4. \A b : b \in Put(out2) <=> b \in Put(out) \/ b = w
  <2>1. \A b : (\E j \in 1..Len(<<w>>) : b = <<w>>[j]) <=> b = w
    BY <1>2
  <2> QED BY <1>3, <2>1 DEF PutsAll
<1>5. Taken(w2, out2) = Taken(w, out) \cup ({w2} \ Skips)
  <2>1. IsSkip(w2) <=> w2 \in Skips
    BY BlockFacts DEF AnyBlocks
  <2> QED BY <1>4, <2>1 DEF Taken
<1>6. Typed(d, w2, out2)
  BY <1>1, <1>3 DEF Typed
<1>7. Descending(d, w2, out2)
  <2>1. Descending(d, w, out)
    BY DEF InHand
  <2>2. ASSUME NEW c \in Clients, c < w2.client PROVE out2[c] = <<>>
    <3>1. c # w.client /\ c < w.client
      BY <1>1, <2>2, ClientsAssumption
    <3> QED BY <1>3, <2>1, <3>1 DEF Descending
  <2> QED BY <2>1, <2>2 DEF Descending
<1>8. Unbroken(w2, out2)
  <2> SUFFICES ASSUME NEW c \in Clients
               PROVE  Contiguous(out2[c] \o IF w2.client = c THEN <<w2>> ELSE <<>>)
    BY DEF Unbroken
  <2>1. Contiguous(out[c] \o IF w.client = c THEN <<w>> ELSE <<>>)
    BY DEF Keeps, Unbroken
  <2>2. CASE c # w.client
    BY <1>3, <2>1, <2>2
  <2>3. CASE c = w.client
    <3> DEFINE run == <<w, w2>>
    <3>1. /\ run \in Seq(AnyBlocks) /\ Len(run) = 2 /\ run[1] = w /\ run[2] = w2
          /\ SubSeq(run, 1, 1) = <<w>>
      <4>1. run \in Seq(AnyBlocks) /\ Len(run) = 2 /\ run[1] = w /\ run[2] = w2
        BY <1>1
      <4> HIDE DEF run
      <4>2. /\ SubSeq(run, 1, 1) \in Seq(AnyBlocks) /\ Len(SubSeq(run, 1, 1)) = 1
            /\ SubSeq(run, 1, 1)[1] = w
        <5>1. 1 \in Nat /\ 1 <= Len(run) /\ (\A j \in 1..1 : j \in 1..Len(run))
          BY <4>1
        <5>2. \A n \in Nat : n <= Len(run) =>
                /\ SubSeq(run, 1, n) \in Seq(AnyBlocks) /\ Len(SubSeq(run, 1, n)) = n
                /\ \A j \in 1..n : SubSeq(run, 1, n)[j] = run[j]
          BY <4>1
        <5>3. 1 \in 1..1
          OBVIOUS
        <5> QED BY <4>1, <5>1, <5>2, <5>3
      <4>3. \A k \in 1..Len(<<w>>) : SubSeq(run, 1, 1)[k] = <<w>>[k]
        BY <1>2, <4>2
      <4>4. SubSeq(run, 1, 1) = <<w>>
        BY <1>2, <4>2, <4>3, SeqEqual
      <4> QED BY <4>1, <4>4
    <3> HIDE DEF run
    <3>2. Contiguous(out[c] \o <<run[1]>>) /\ out[c] \in Seq(AnyBlocks)
      BY <1>1, <2>1, <2>3, <3>1
    <3>3. \A j \in 1..1 : run[j + 1].clock = End(run[j])
      <4>1. \A j \in 1..1 : j = 1 /\ j + 1 = 2
        OBVIOUS
      <4> QED BY <3>1, <4>1
    <3>4. 1 + 1 <= Len(run) /\ 1 \in Nat /\ 1 + 1 = 2
      BY <3>1
    <3>5. Contiguous((out[c] \o SubSeq(run, 1, 1)) \o <<run[1 + 1]>>)
      BY <3>1, <3>2, <3>3, <3>4, UnbrokenRun
    <3> QED BY <1>3, <2>3, <3>1, <3>4, <3>5
  <2> QED BY <2>2, <2>3
<1> QED BY <1>5, <1>6, <1>7, <1>8 DEF out2

----------------------------------------------------------------------------
\* Nothing is in hand: the first block of the highest client is taken.
LEMMA TakeFirstStep ==
  ASSUME IInv, NEW i \in Decoders, TakeFirst(i)
  PROVE  IInv'
<1>1. Keeps(decoders, NoBlock, result, input) /\ written = NoBlock /\ First(i)
  BY DEF IInv, TakeFirst
<1>2. /\ Typed(decoders, NoBlock, result) /\ decoders \in [Decoders -> Seq(Blocks)]
      /\ decoders[i] \in Seq(Blocks) /\ decoders[i] # <<>>
  BY <1>1 DEF Keeps, Typed, First
<1>3. Current(i) \in Waiting(decoders) /\ Current(i) \in Blocks
  BY <1>1, <1>2, FirstIsFirst
<1>4. \A c \in Clients : result[c] = <<>>
  BY <1>1, <1>3 DEF IInv
<1> DEFINE blocks == Tail(decoders[i])
           d == [decoders EXCEPT ![i] = blocks]
<1>5. Keeps(d, Current(i), result, input) /\ InHand(d, Current(i), result)
  BY <1>1, <1>4, TakeUp
<1>6. blocks \in Seq(Blocks) /\ ~IsSkip(Current(i))
  BY <1>2, <1>3, BlockFacts
<1>7. TakeOn(i, Current(i), blocks, result)
  BY DEF TakeFirst
<1> HIDE DEF blocks
<1> QED BY <1>2, <1>5, <1>6, <1>7, TakeOnKeeps

\* What every round with a block in hand starts from.
LEMMA WritingFacts ==
  ASSUME IInv, NEW i \in Decoders, Writing(i)
  PROVE  LET s == Skimmed(decoders[i])
             d == [decoders EXCEPT ![i] = s]
         IN /\ decoders \in [Decoders -> Seq(Blocks)] /\ First(i)
            /\ Keeps(decoders, written, result, input) /\ InHand(decoders, written, result)
            /\ Keeps(d, written, result, input) /\ InHand(d, written, result)
            /\ written \in Blocks
            /\ d[i] = s /\ s \in Seq(Blocks) /\ Len(s) \in Nat /\ Len(s) >= 1 /\ Head(s) = s[1]
            /\ Head(s) \in Blocks /\ Head(s) \in Waiting(d)
            /\ Current(i) \in Waiting(decoders) /\ Current(i) \in Blocks
            /\ Head(s).client = Current(i).client
            /\ s = decoders[i] \/ Head(s).clock <= End(written)
            /\ s = decoders[i] => d = decoders /\ Head(s) = Current(i)
            /\ s # decoders[i] => Current(i).client >= written.client
            /\ ~ (End(Head(s)) <= End(written) /\ Head(s).client >= written.client)
<1> DEFINE s == Skimmed(decoders[i])
           d == [decoders EXCEPT ![i] = s]
<1>1. written # NoBlock /\ First(i) /\ decoders[i] # <<>>
  BY DEF Writing, First
<1>2. /\ Keeps(decoders, written, result, input) /\ InHand(decoders, written, result)
      /\ written \in Blocks
  BY <1>1 DEF IInv
<1>3. Typed(decoders, written, result) /\ decoders \in [Decoders -> Seq(Blocks)]
  BY <1>2 DEF Keeps, Typed
<1>4. Current(i) \in Waiting(decoders) /\ Current(i) \in Blocks
  BY <1>1, <1>3, FirstIsFirst
<1>5. /\ s # <<>> /\ Head(s).client = Current(i).client
      /\ s = decoders[i] \/ ~ (Head(s).clock > End(written))
  BY DEF Writing, Reorders
<1>6. /\ Keeps(d, written, result, input) /\ InHand(d, written, result)
      /\ d[i] = s /\ s \in Seq(Blocks)
      /\ s = decoders[i] => d = decoders
      /\ s # decoders[i] => Current(i).client >= written.client
      /\ ~ (End(Head(s)) <= End(written) /\ Head(s).client >= written.client)
  BY <1>1, <1>5, SkimKeeps
<1>7. s = decoders[i] => Head(s) = Current(i)
  BY DEF Current
<1> HIDE DEF s
<1>8. Len(s) \in Nat /\ Len(s) >= 1 /\ Head(s) = s[1] /\ 1 \in 1..Len(s)
  BY <1>5, <1>6
<1>9. Head(s) \in Blocks /\ Head(s) \in Waiting(d)
  <2>1. Typed(d, written, result)
    BY <1>6 DEF Keeps
  <2> HIDE DEF d
  <2>2. d[i][1] \in Waiting(d) /\ Waiting(d) \subseteq Blocks
    BY <1>6, <1>8, <2>1, WaitingFacts
  <2> QED BY <1>6, <1>8, <2>2
<1>10. s = decoders[i] \/ Head(s).clock <= End(written)
  <2>1. Head(s).clock \in Nat /\ End(written) \in Nat
    BY <1>2, <1>9, BlockFacts
  <2> QED BY <1>5, <2>1
<1> QED BY <1>1, <1>2, <1>3, <1>4, <1>5, <1>6, <1>7, <1>8, <1>9, <1>10 DEF s

\* The client in hand has no more blocks anywhere: it is written, the next one begins.
LEMMA NextClientStep ==
  ASSUME IInv, NEW i \in Decoders, NextClient(i)
  PROVE  IInv'
<1> DEFINE s == Skimmed(decoders[i])
           out == Add(result, written.client, <<written>>)
           d == [decoders EXCEPT ![i] = Tail(s)]
<1>1. Writing(i) /\ Head(s).client # written.client /\ TakeOn(i, Head(s), Tail(s), out)
  BY DEF NextClient
<1>2. /\ decoders \in [Decoders -> Seq(Blocks)] /\ First(i)
      /\ Keeps(decoders, written, result, input) /\ InHand(decoders, written, result)
      /\ written \in Blocks /\ s \in Seq(Blocks) /\ Len(s) >= 1
      /\ Current(i) \in Waiting(decoders) /\ Current(i) \in Blocks
      /\ Head(s).client = Current(i).client
      /\ s = decoders[i] => Head(s) = Current(i)
      /\ s # decoders[i] => Current(i).client >= written.client
  BY <1>1, WritingFacts
<1>3. Current(i).client <= written.client /\ Current(i).client \in Nat /\ written.client \in Nat
  BY <1>2, BlockFacts DEF InHand, Descending
<1>4. Current(i).client < written.client /\ s = decoders[i] /\ Head(s) = Current(i)
  BY <1>1, <1>2, <1>3
<1>5. Keeps(decoders, NoBlock, out, input)
  BY <1>2, PutDown, BlockFacts
<1>6. \A c \in Clients : c <= Current(i).client => out[c] = <<>>
  <2>1. result \in [Clients -> Seq(AnyBlocks)] /\ written.client \in Clients
        /\ <<written>> \in Seq(AnyBlocks)
    BY <1>2, BlockFacts DEF Keeps, Typed
  <2>2. \A e \in Clients : e # written.client => out[e] = result[e]
    BY <2>1, AddFacts
  <2>3. \A c \in Clients : c <= Current(i).client => c < written.client /\ c # written.client
    BY <1>3, <1>4, ClientsAssumption
  <2> QED BY <1>2, <2>2, <2>3 DEF InHand, Descending
<1> HIDE DEF s, out
<1>7. Keeps(d, Current(i), out, input) /\ InHand(d, Current(i), out)
  BY <1>2, <1>4, <1>5, <1>6, TakeUp
<1>8. Tail(s) \in Seq(Blocks) /\ ~IsSkip(Head(s))
  <2>1. s # <<>>
    BY <1>2
  <2> QED BY <1>2, <1>4, <2>1, BlockFacts
<1> QED BY <1>1, <1>2, <1>4, <1>7, <1>8, TakeOnKeeps

\* No other decoder has anything between the block in hand and the next one.
LEMMA FillGapStep ==
  ASSUME IInv, NEW i \in Decoders, FillGap(i)
  PROVE  IInv'
<1> DEFINE s == Skimmed(decoders[i])
           gap == Head(s).clock - End(written)
           skip == MkBlock(written.client, End(written), gap, "skip")
           out == Add(result, written.client, <<written>>)
           d == [decoders EXCEPT ![i] = s]
<1>1. /\ Writing(i) /\ Head(s).client = written.client /\ gap > 0
      /\ TakeOn(i, skip, s, out)
  BY DEF FillGap
<1>2. /\ decoders \in [Decoders -> Seq(Blocks)] /\ First(i)
      /\ Keeps(decoders, written, result, input) /\ InHand(decoders, written, result)
      /\ written \in Blocks /\ s \in Seq(Blocks) /\ Len(s) >= 1 /\ Head(s) = s[1]
      /\ Current(i) \in Waiting(decoders) /\ Current(i) \in Blocks /\ Head(s) \in Blocks
      /\ s = decoders[i] => d = decoders /\ Head(s) = Current(i)
      /\ s = decoders[i] \/ Head(s).clock <= End(written)
  BY <1>1, WritingFacts
<1>3. /\ written.client \in Clients /\ written \in AnyBlocks /\ End(written) \in Nat
      /\ Head(s).clock \in Nat
  BY <1>2, BlockFacts
<1>4. d = decoders /\ Head(s) = Current(i)
  BY <1>1, <1>2, <1>3
<1>5. /\ skip \in Skips /\ skip \in AnyBlocks /\ skip.client = written.client
      /\ skip.clock = End(written) /\ End(skip) = Head(s).clock
  <2>1. gap \in Nat \ {0}
    BY <1>1, <1>3
  <2> HIDE DEF gap
  <2>2. skip \in Skips /\ skip.client = written.client /\ skip.clock = End(written) /\ skip.len = gap
    BY <1>3, <2>1 DEF Skips, MkBlock
  <2> HIDE DEF skip
  <2>3. End(skip) = Head(s).clock
    BY <1>3, <2>2 DEF gap, End
  <2> QED BY <2>2, <2>3, BlockFacts
<1> HIDE DEF s, gap, skip, out
<1>6. /\ Typed(decoders, skip, out) /\ Unbroken(skip, out) /\ Descending(decoders, skip, out)
      /\ Taken(skip, out) = Taken(written, result) \cup ({skip} \ Skips)
  <2>1. Keeps(decoders, written, result, input) /\ InHand(decoders, written, result)
    BY <1>2
  <2>2. skip \in AnyBlocks /\ skip.client = written.client /\ skip.clock = End(written)
    BY <1>5
  <2> QED BY <2>1, <2>2, NextInHand DEF out
<1>7. Taken(skip, out) = Taken(written, result)
  BY <1>5, <1>6
<1>8. Keeps(decoders, skip, out, input)
  BY <1>2, <1>6, <1>7 DEF Keeps, Sound, Complete
<1>9. Caught(decoders, skip, out)
  <2> SUFFICES ASSUME NEW b \in Waiting(decoders), NEW k \in Nat, Covers(b, written.client, k),
                      k < End(skip)
               PROVE  Known(Taken(written, result), written.client, k)
    BY <1>5, <1>7 DEF Caught
  <2>1. k < End(written)
    <3>1. b.client = Current(i).client => Current(i).clock <= b.clock
      BY <1>2, FirstIsFirst DEF Keeps
    <3>2. b.client = written.client /\ Current(i).client = written.client /\ b.clock <= k
      BY <1>1, <1>4 DEF Covers
    <3>3. b.clock \in Nat /\ Current(i).clock \in Nat
      BY <1>2, BlockFacts DEF Waiting
    <3> QED BY <1>4, <1>5, <3>1, <3>2, <3>3
  <2> QED BY <1>2, <2>1 DEF InHand, Caught
<1>10. InHand(d, skip, out) /\ Keeps(d, skip, out, input)
  BY <1>4, <1>5, <1>6, <1>8, <1>9 DEF InHand
<1>11. IsSkip(skip) => /\ Len(s) > 0
                       /\ s[1].client = skip.client /\ s[1].clock = End(skip)
  <2>1. Len(s) \in Nat
    BY <1>2
  <2> QED BY <1>1, <1>2, <1>5, <2>1
<1> QED BY <1>1, <1>2, <1>10, <1>11, TakeOnKeeps

\* What is new of the next block takes the place of the one in hand.
LEMMA SliceKeeps ==
  ASSUME NEW d, NEW w, NEW out, NEW units, Keeps(d, w, out, units), InHand(d, w, out),
         NEW i \in Decoders, Len(d[i]) >= 1, NEW slice \in Blocks,
         slice.client = w.client, slice.clock = End(w), slice.kind = d[i][1].kind,
         End(slice) = End(d[i][1]), d[i][1].client = w.client, d[i][1].clock <= End(w)
  PROVE  LET after == [d EXCEPT ![i] = Tail(d[i])]
             out2 == Add(out, w.client, <<w>>)
         IN Keeps(after, slice, out2, units) /\ InHand(after, slice, out2)
<1> DEFINE next == d[i][1]
           after == [d EXCEPT ![i] = Tail(d[i])]
           out2 == Add(out, w.client, <<w>>)
<1>1. Typed(d, w, out) /\ d[i] \in Seq(Blocks) /\ Len(d[i]) \in Nat /\ w \in AnyBlocks
  BY DEF Keeps, Typed, InHand
<1>2. next \in Waiting(d) /\ next \in Blocks
  <2>1. 1 \in 1..Len(d[i])
    BY <1>1
  <2> QED BY <1>1, <2>1, WaitingFacts
<1>3. /\ slice \in AnyBlocks /\ slice \notin Skips /\ ~IsSkip(slice)
      /\ next.clock \in Nat /\ End(w) \in Nat /\ End(next) \in Nat
  BY <1>1, <1>2, BlockFacts
<1>4. /\ Typed(d, slice, out2) /\ Unbroken(slice, out2) /\ Descending(d, slice, out2)
      /\ Taken(slice, out2) = Taken(w, out) \cup ({slice} \ Skips)
  BY <1>3, NextInHand
<1> HIDE DEF out2
<1>5. Typed(after, slice, out2) /\ LeavesOut(d, after, i, 1)
  <2>1. Tail(d[i]) = SubSeq(d[i], 1 + 1, Len(d[i]))
    <3>0. d[i] # <<>>
      BY <1>1
    <3>1. Tail(d[i]) = SubSeq(d[i], 2, Len(d[i]))
      BY <1>1, <3>0, TailIsSubSeq
    <3>2. 1 + 1 = 2
      OBVIOUS
    <3> QED BY <3>1, <3>2
  <2>2. 1 \in 0..Len(d[i])
    BY <1>1
  <2> QED BY <1>4, <2>1, <2>2, DropFirst
<1> HIDE DEF after
<1>6. \A b : b \in Waiting(d) <=> b \in Waiting(after) \/ b = next
  <2>1. \A b : b \in Waiting(d) <=> b \in Waiting(after) \/ \E j \in 1..1 : b = d[i][j]
    BY <1>5 DEF LeavesOut
  <2>2. \A b : (\E j \in 1..1 : b = d[i][j]) <=> b = next
    OBVIOUS
  <2> HIDE DEF next
  <2> QED BY <2>1, <2>2
<1>7. /\ slice.kind = next.kind /\ End(slice) = End(next) /\ next.client = w.client
      /\ next.clock <= End(w)
  OBVIOUS
<1> HIDE DEF next
<1>8. Taken(slice, out2) = Taken(w, out) \cup {slice}
  BY <1>3, <1>4
\* what next has, was taken or is in the slice
<1>9. ASSUME NEW k \in Nat, Covers(next, w.client, k)
      PROVE  Known(Taken(slice, out2), w.client, k)
  <2>1. CASE k < End(w)
    <3>1. Known(Taken(w, out), w.client, k)
      BY <1>2, <1>9, <2>1 DEF InHand, Caught
    <3> QED BY <1>8, <3>1 DEF Known
  <2>2. CASE ~ (k < End(w))
    <3>1. Covers(slice, w.client, k)
      BY <1>3, <1>7, <1>9, <2>2 DEF Covers
    <3> QED BY <1>8, <3>1 DEF Known
  <2> QED BY <2>1, <2>2
<1>10. Backed(slice, units)
  <2> SUFFICES ASSUME NEW k \in Nat, slice.clock <= k, k < End(slice)
               PROVE  [client |-> slice.client, clock |-> k, kind |-> slice.kind] \in units
    BY DEF Backed
  <2>1. Backed(next, units)
    BY <1>2 DEF Keeps, Sound
  <2>2. next.clock <= k /\ k < End(next)
    BY <1>3, <1>7
  <2> QED BY <1>7, <2>1, <2>2 DEF Backed
<1>11. Sound(after, slice, out2, units)
  <2>1. Sound(d, w, out, units)
    BY DEF Keeps
  <2> QED BY <1>6, <1>8, <1>10, <2>1 DEF Sound
<1>12. Complete(after, slice, out2, units)
  <2> SUFFICES ASSUME NEW u \in units
               PROVE  /\ u.clock \in Nat
                      /\ Known(Waiting(after) \cup Taken(slice, out2), u.client, u.clock)
    BY DEF Complete
  <2>1. u.clock \in Nat /\ Known(Waiting(d) \cup Taken(w, out), u.client, u.clock)
    BY DEF Keeps, Complete
  <2>2. PICK b \in Waiting(d) \cup Taken(w, out) : Covers(b, u.client, u.clock)
    BY <2>1 DEF Known
  <2>3. CASE b = next
    <3>1. u.client = w.client
      BY <1>7, <2>2, <2>3 DEF Covers
    <3>2. Known(Taken(slice, out2), u.client, u.clock)
      BY <1>9, <2>1, <2>2, <2>3, <3>1
    <3> QED BY <2>1, <3>2 DEF Known
  <2>4. CASE b # next
    <3>1. b \in Waiting(after) \cup Taken(slice, out2)
      BY <1>6, <1>8, <2>4
    <3> QED BY <2>1, <2>2, <3>1 DEF Known
  <2> QED BY <2>3, <2>4
<1>13. Descending(after, slice, out2)
  BY <1>4, <1>6 DEF Descending
<1>14. Caught(after, slice, out2)
  <2> SUFFICES ASSUME NEW b \in Waiting(after), NEW k \in Nat, Covers(b, w.client, k),
                      k < End(slice)
               PROVE  Known(Taken(slice, out2), w.client, k)
    BY DEF Caught
  <2>1. CASE k < End(w)
    <3>1. Known(Taken(w, out), w.client, k)
      BY <1>6, <2>1 DEF InHand, Caught
    <3> QED BY <1>8, <3>1 DEF Known
  <2>2. CASE ~ (k < End(w))
    <3>1. Covers(slice, w.client, k)
      BY <1>3, <2>2 DEF Covers
    <3> QED BY <1>8, <3>1 DEF Known
  <2> QED BY <2>1, <2>2
<1> QED BY <1>3, <1>4, <1>5, <1>11, <1>12, <1>13, <1>14 DEF Keeps, InHand, after, out2

\* The next block is appended to the one in hand, and stays with its decoder.
LEMMA SquashKeeps ==
  ASSUME NEW d, NEW w \in Blocks, NEW out, NEW units, Keeps(d, w, out, units), InHand(d, w, out),
         NEW next \in Waiting(d), NEW longer \in Blocks, next.client = w.client,
         next.kind = w.kind, next.clock <= End(w), End(w) <= End(next),
         longer.client = w.client, longer.clock = w.clock, longer.kind = w.kind,
         End(longer) = End(next)
  PROVE  Keeps(d, longer, out, units) /\ InHand(d, longer, out)
<1>1. Typed(d, w, out) /\ out \in [Clients -> Seq(AnyBlocks)]
  BY DEF Keeps, Typed
<1>2. /\ next \in Blocks /\ w \in AnyBlocks /\ longer \in AnyBlocks
      /\ ~IsSkip(w) /\ ~IsSkip(longer)
      /\ w.clock \in Nat /\ End(w) \in Nat /\ next.clock \in Nat /\ End(next) \in Nat
      /\ w.clock < End(w)
  BY BlockFacts DEF Waiting
<1>3. \A c, k : k \in Nat /\ Covers(w, c, k) => Covers(longer, c, k)
  BY <1>2 DEF Covers
<1>4. w \in Taken(w, out) /\ longer \in Taken(longer, out)
  BY <1>2 DEF Taken
<1>5. /\ \A b \in Taken(longer, out) : b = longer \/ b \in Taken(w, out)
      /\ \A b \in Taken(w, out) : b = w \/ b \in Taken(longer, out)
  BY DEF Taken
<1>6. ASSUME NEW k \in Nat, NEW c, Known(Taken(w, out), c, k)
      PROVE  Known(Taken(longer, out), c, k)
  BY <1>3, <1>4, <1>5, <1>6 DEF Known
<1>7. Typed(d, longer, out)
  BY <1>1, <1>2 DEF Typed
<1>8. Unbroken(longer, out)
  <2> SUFFICES ASSUME NEW c \in Clients
               PROVE  Contiguous(out[c] \o IF longer.client = c THEN <<longer>> ELSE <<>>)
    BY DEF Unbroken
  <2>1. Contiguous(out[c] \o IF w.client = c THEN <<w>> ELSE <<>>)
    BY DEF Keeps, Unbroken
  <2>2. CASE c # w.client
    BY <2>1, <2>2
  <2>3. CASE c = w.client
    <3> DEFINE s == out[c]
               old == s \o <<w>>
               new == s \o <<longer>>
    <3>1. s \in Seq(AnyBlocks) /\ Contiguous(old)
      BY <1>1, <2>1, <2>3
    <3> HIDE DEF s
    <3>2. PICK L \in Nat : L = Len(s)
      BY <3>1
    <3>3. /\ DOMAIN old = 1..(L + 1) /\ old[L + 1] = w
          /\ \A k \in 1..L : old[k] = s[k]
      BY <1>2, <3>1, <3>2
    <3>4. /\ DOMAIN new = 1..(L + 1) /\ new[L + 1] = longer
          /\ \A k \in 1..L : new[k] = s[k]
      BY <1>2, <3>1, <3>2
    <3> HIDE DEF old, new
    <3>5. ASSUME NEW j \in DOMAIN new, NEW k \in DOMAIN new, k = j + 1
          PROVE  new[k].clock = End(new[j])
      <4>1. j \in DOMAIN old /\ k \in DOMAIN old /\ j \in 1..L
        BY <3>3, <3>4, <3>5
      <4>2. old[k].clock = End(old[j])
        BY <3>1, <3>5, <4>1 DEF Contiguous
      <4>3. new[j] = old[j]
        BY <3>3, <3>4, <4>1
      <4>4. new[k].clock = old[k].clock
        <5>1. CASE k = L + 1
          BY <3>3, <3>4, <5>1
        <5>2. CASE k # L + 1
          <6>1. k \in 1..L
            BY <3>4, <5>2
          <6> QED BY <3>3, <3>4, <6>1
        <5> QED BY <5>1, <5>2
      <4> QED BY <4>2, <4>3, <4>4
    <3>6. Contiguous(new)
      BY <3>5 DEF Contiguous
    <3> QED BY <2>3, <3>6 DEF new, s
  <2> QED BY <2>2, <2>3
<1>9. Backed(longer, units)
  <2> SUFFICES ASSUME NEW k \in Nat, w.clock <= k, k < End(next)
               PROVE  [client |-> w.client, clock |-> k, kind |-> w.kind] \in units
    BY DEF Backed
  <2>1. Backed(w, units) /\ Backed(next, units)
    BY <1>4 DEF Keeps, Sound
  <2>2. CASE k < End(w)
    BY <2>1, <2>2 DEF Backed
  <2>3. CASE ~ (k < End(w))
    <3>1. next.clock <= k
      BY <1>2, <2>3
    <3> QED BY <2>1, <3>1 DEF Backed
  <2> QED BY <2>2, <2>3
<1>10. Sound(d, longer, out, units)
  <2>1. Sound(d, w, out, units)
    BY DEF Keeps
  <2> QED BY <1>5, <1>9, <2>1 DEF Sound
<1>11. Complete(d, longer, out, units)
  <2> SUFFICES ASSUME NEW u \in units
               PROVE  /\ u.clock \in Nat
                      /\ Known(Waiting(d) \cup Taken(longer, out), u.client, u.clock)
    BY DEF Complete
  <2>1. u.clock \in Nat /\ Known(Waiting(d) \cup Taken(w, out), u.client, u.clock)
    BY DEF Keeps, Complete
  <2>2. PICK b \in Waiting(d) \cup Taken(w, out) : Covers(b, u.client, u.clock)
    BY <2>1 DEF Known
  <2>3. CASE b = w
    <3>1. Covers(longer, u.client, u.clock)
      BY <1>3, <2>1, <2>2, <2>3
    <3> QED BY <1>4, <2>1, <3>1 DEF Known
  <2>4. CASE b # w
    <3>1. b \in Waiting(d) \cup Taken(longer, out)
      BY <1>5, <2>4
    <3> QED BY <2>1, <2>2, <3>1 DEF Known
  <2> QED BY <2>3, <2>4
<1>12. Caught(d, longer, out)
  <2> SUFFICES ASSUME NEW b \in Waiting(d), NEW k \in Nat, Covers(b, w.client, k),
                      k < End(longer)
               PROVE  Known(Taken(longer, out), w.client, k)
    BY DEF Caught
  <2>1. CASE k < End(w)
    <3>1. Known(Taken(w, out), w.client, k)
      BY <2>1 DEF InHand, Caught
    <3> QED BY <1>6, <3>1
  <2>2. CASE ~ (k < End(w))
    <3>1. longer.clock <= k
      BY <1>2, <2>2
    <3>2. Covers(longer, w.client, k)
      BY <3>1 DEF Covers
    <3> QED BY <1>4, <3>2 DEF Known
  <2> QED BY <2>1, <2>2
<1>13. Descending(d, longer, out)
  BY DEF InHand, Descending
<1> QED BY <1>2, <1>7, <1>8, <1>10, <1>11, <1>12, <1>13 DEF Keeps, InHand

\* What is new of an overlapping block, as a block of its own or at the end of the one in hand.
LEMMA OverlapFacts ==
  ASSUME IInv, NEW i \in Decoders, Overlap(i)
  PROVE  LET next == Head(Skimmed(decoders[i]))
             diff == End(written) - next.clock
             slice == MkBlock(next.client, End(written), next.len - diff, next.kind)
             longer == [written EXCEPT !.len = @ + slice.len]
         IN /\ next.clock <= End(written) /\ End(written) < End(next)
            /\ slice \in Blocks /\ slice.client = written.client /\ slice.clock = End(written)
            /\ slice.kind = next.kind /\ End(slice) = End(next)
            /\ longer \in Blocks /\ longer.client = written.client
            /\ longer.clock = written.clock /\ longer.kind = written.kind
            /\ End(longer) = End(next)
            /\ End(written) \in Nat /\ End(next) \in Nat
<1> DEFINE next == Head(Skimmed(decoders[i]))
           diff == End(written) - next.clock
           slice == MkBlock(next.client, End(written), next.len - diff, next.kind)
           longer == [written EXCEPT !.len = @ + slice.len]
<1>1. Writing(i) /\ next.client = written.client /\ diff >= 0
  BY DEF Overlap
<1>2. /\ written \in Blocks /\ next \in Blocks
      /\ ~ (End(next) <= End(written) /\ next.client >= written.client)
  BY <1>1, WritingFacts
<1> HIDE DEF next
<1>3. /\ written.client \in Clients /\ written.clock \in Nat /\ written.len \in Nat
      /\ written.len > 0 /\ End(written) = written.clock + written.len
      /\ next.client \in Nat /\ next.clock \in Nat /\ next.len \in Nat
      /\ End(next) = next.clock + next.len /\ next.kind \in {"item", "gc"}
  BY <1>2, BlockFacts
<1>4. next.clock <= End(written) /\ End(written) < End(next)
  BY <1>1, <1>2, <1>3
<1>5. next.len - diff \in Nat \ {0} /\ End(written) \in Nat /\ End(next) \in Nat
      /\ End(written) + (next.len - diff) = End(next)
  BY <1>3, <1>4
<1> HIDE DEF diff
<1>6. /\ slice \in Blocks /\ slice.client = written.client /\ slice.clock = End(written)
      /\ slice.kind = next.kind /\ slice.len = next.len - diff
  BY <1>1, <1>3, <1>5 DEF MkBlock, Blocks
<1>7. End(slice) = End(next)
  BY <1>5, <1>6 DEF End
<1> HIDE DEF slice
<1>8. /\ longer.client = written.client /\ longer.clock = written.clock
      /\ longer.len = written.len + slice.len /\ longer.kind = written.kind
      /\ longer \in Blocks
  <2>1. written.len + slice.len \in Nat \ {0}
    BY <1>3, <1>5, <1>6
  <2> QED BY <1>2, <2>1 DEF Blocks
<1>9. End(longer) = End(next)
  BY <1>3, <1>5, <1>6, <1>8 DEF End
<1> QED BY <1>4, <1>5, <1>6, <1>7, <1>8, <1>9 DEF next, diff, slice

\* The new part of an overlapping block is cut off or appended, depending on the kinds.
LEMMA OverlapStep ==
  ASSUME IInv, NEW i \in Decoders, Overlap(i)
  PROVE  IInv'
<1> DEFINE s == Skimmed(decoders[i])
           next == Head(s)
           diff == End(written) - next.clock
           slice == MkBlock(next.client, End(written), next.len - diff, next.kind)
           squash == written.kind = "gc" /\ next.kind = "gc"
           longer == [written EXCEPT !.len = @ + slice.len]
           out == Add(result, written.client, <<written>>)
           d == [decoders EXCEPT ![i] = s]
<1>1. Writing(i) /\ next.client = written.client
  BY DEF Overlap
<1>2. IF squash THEN TakeOn(i, longer, s, result)
      ELSE TakeOn(i, slice, Tail(s), out)
  BY DEF Overlap
<1>3. /\ decoders \in [Decoders -> Seq(Blocks)]
      /\ Keeps(d, written, result, input) /\ InHand(d, written, result)
      /\ written \in Blocks
      /\ d[i] = s /\ s \in Seq(Blocks) /\ Len(s) >= 1 /\ next = s[1]
      /\ next \in Waiting(d)
  BY <1>1, WritingFacts
<1>4. /\ next.clock <= End(written) /\ End(written) < End(next)
      /\ slice \in Blocks /\ slice.client = written.client /\ slice.clock = End(written)
      /\ slice.kind = next.kind /\ End(slice) = End(next)
      /\ longer \in Blocks /\ longer.client = written.client
      /\ longer.clock = written.clock /\ longer.kind = written.kind
      /\ End(longer) = End(next)
      /\ End(written) \in Nat /\ End(next) \in Nat
  BY OverlapFacts
<1>5. ~IsSkip(slice) /\ ~IsSkip(longer)
  BY <1>4, BlockFacts
<1> HIDE DEF s, next, slice, longer
<1>6. CASE ~squash
  <2>1. Keeps([d EXCEPT ![i] = Tail(d[i])], slice, out, input)
        /\ InHand([d EXCEPT ![i] = Tail(d[i])], slice, out)
    <3> HIDE DEF d
    <3> QED BY <1>1, <1>3, <1>4, SliceKeeps
  <2>2. [d EXCEPT ![i] = Tail(d[i])] = [decoders EXCEPT ![i] = Tail(s)]
    BY <1>3
  <2>3. Tail(s) \in Seq(Blocks)
    <3>1. s # <<>>
      BY <1>3
    <3> QED BY <1>3, <3>1
  <2>4. TakeOn(i, slice, Tail(s), out)
    BY <1>2, <1>6
  <2> HIDE DEF out, d
  <2> QED BY <1>3, <1>5, <2>1, <2>2, <2>3, <2>4, TakeOnKeeps
<1>7. CASE squash
  <2>1. TakeOn(i, longer, s, result)
    BY <1>2, <1>7
  <2>2. End(written) <= End(next) /\ next.kind = written.kind
    BY <1>4, <1>7
  <2>3. Keeps(d, longer, result, input) /\ InHand(d, longer, result)
    BY <1>1, <1>3, <1>4, <2>2, SquashKeeps
  <2> QED BY <1>3, <1>5, <2>1, <2>3, TakeOnKeeps
<1> QED BY <1>6, <1>7

\* The decoders are only skimmed, and sorted again.
LEMMA ReorderStep ==
  ASSUME IInv, NEW i \in Decoders, Reorder(i)
  PROVE  IInv'
<1>1. /\ written # NoBlock /\ decoders[i] # <<>>
      /\ decoders' = [decoders EXCEPT ![i] = Skimmed(decoders[i])]
      /\ written' = written /\ result' = result /\ input' = input
  BY DEF Reorder, First
<1>2. Keeps(decoders', written, result, input) /\ InHand(decoders', written, result)
  BY <1>1, SkimKeeps
<1>3. written \in Blocks \cup {NoBlock}
  BY DEF IInv
<1> QED BY <1>1, <1>2, <1>3 DEF IInv

\* The last block is written when no decoder has anything left.
LEMMA FinishStep ==
  ASSUME IInv, Finish
  PROVE  IInv'
<1>1. /\ Keeps(decoders, written, result, input) /\ written \in Blocks
      /\ written \in AnyBlocks
  BY BlockFacts DEF IInv, Finish
<1>2. Keeps(decoders, NoBlock, Add(result, written.client, <<written>>), input)
  BY <1>1, PutDown
<1>3. Waiting(decoders) = {}
  BY DEF Finish, Waiting
<1> QED BY <1>2, <1>3 DEF Finish, IInv

----------------------------------------------------------------------------
\* A unit of blocks is at a clock that one of them covers, and of its kind.
LEMMA UnitsFacts ==
  ASSUME NEW blocks, NEW u
  PROVE  u \in UnitsOf(blocks) <=>
           \E b \in blocks : \E k \in b.clock..End(b) - 1 :
             u = [client |-> b.client, clock |-> k, kind |-> b.kind]
BY DEF UnitsOf

\* At the beginning all units are with the decoders.
LEMMA InitIInv ==
  ASSUME Init
  PROVE  IInv
<1>1. /\ written = NoBlock /\ \A c \in Clients : result[c] = <<>>
      /\ result \in [Clients -> Seq(AnyBlocks)]
      /\ input = UnitsOf(UNION {Range(decoders[i]) : i \in Decoders})
  BY DEF Init
<1>2. /\ decoders \in [Decoders -> Seq(Blocks)]
      /\ \A i \in Decoders : InOrder(decoders[i])
  <2>1. decoders \in Updates
    BY DEF Init
  <2> QED BY <2>1, UpdatesAssumption
<1>3. Typed(decoders, written, result)
  BY <1>1, <1>2 DEF Typed
<1>4. Unbroken(written, result)
  <2> SUFFICES ASSUME NEW c \in Clients
               PROVE  Contiguous(result[c] \o IF written.client = c THEN <<written>> ELSE <<>>)
    BY DEF Unbroken
  <2>1. written.client # c
    BY <1>1, ClientsAssumption, BlockFacts
  <2>2. Contiguous(<<>>)
    BY DEF Contiguous
  <2> QED BY <1>1, <2>1, <2>2
<1>5. Put(result) = {}
  BY <1>1 DEF Put
<1>6. Taken(written, result) = {NoBlock}
  BY <1>1, <1>5, BlockFacts DEF Taken
<1>7. ASSUME NEW b
      PROVE  b \in UNION {Range(decoders[i]) : i \in Decoders} <=> b \in Waiting(decoders)
  <2>1. \A i \in Decoders : b \in Range(decoders[i]) <=>
                              \E j \in 1..Len(decoders[i]) : b = decoders[i][j]
    <3>1. \A i \in Decoders : decoders[i] \in Seq(Blocks)
      BY <1>2
    <3>2. \A i \in Decoders : DOMAIN decoders[i] = 1..Len(decoders[i])
      BY <3>1
    <3> QED BY <3>2 DEF Range
  <2>2. b \in UNION {Range(decoders[i]) : i \in Decoders} <=>
          \E i \in Decoders : b \in Range(decoders[i])
    OBVIOUS
  <2>3. (\E i \in Decoders : \E j \in 1..Len(decoders[i]) : b = decoders[i][j]) => b \in Blocks
    BY <1>2
  <2>4. b \in Waiting(decoders) <=>
          \E i \in Decoders : \E j \in 1..Len(decoders[i]) : b = decoders[i][j]
    BY <2>3 DEF Waiting
  <2> QED BY <2>1, <2>2, <2>4
<1>8. \A u : u \in input <=> \E b \in Waiting(decoders) : \E k \in b.clock..End(b) - 1 :
                               u = [client |-> b.client, clock |-> k, kind |-> b.kind]
  <2> DEFINE all == UNION {Range(decoders[i]) : i \in Decoders}
  <2>1. input = UnitsOf(all)
    BY <1>1
  <2>2. \A b : b \in all <=> b \in Waiting(decoders)
    BY <1>7
  <2> HIDE DEF all
  <2> QED BY <2>1, <2>2, UnitsFacts
<1>9. \A b \in Waiting(decoders) : b.clock \in Nat /\ End(b) \in Nat
  BY BlockFacts DEF Waiting
<1>10. Sound(decoders, written, result, input)
  <2>1. Backed(NoBlock, input)
    BY BlockFacts DEF Backed
  <2>2. ASSUME NEW b \in Waiting(decoders) PROVE Backed(b, input)
    <3> SUFFICES ASSUME NEW k \in Nat, b.clock <= k, k < End(b)
                 PROVE  [client |-> b.client, clock |-> k, kind |-> b.kind] \in input
      BY DEF Backed
    <3>1. k \in b.clock..End(b) - 1
      BY <1>9
    <3> QED BY <1>8, <3>1
  <2> QED BY <1>6, <2>1, <2>2 DEF Sound
<1>11. Complete(decoders, written, result, input)
  <2> SUFFICES ASSUME NEW u \in input
               PROVE  /\ u.clock \in Nat
                      /\ Known(Waiting(decoders) \cup Taken(written, result), u.client, u.clock)
    BY DEF Complete
  <2>1. PICK b \in Waiting(decoders) : \E k \in b.clock..End(b) - 1 :
             u = [client |-> b.client, clock |-> k, kind |-> b.kind]
    BY <1>8
  <2>2. PICK k \in b.clock..End(b) - 1 :
             u = [client |-> b.client, clock |-> k, kind |-> b.kind]
    BY <2>1
  <2>3. k \in Nat /\ b.clock <= k /\ k < End(b)
    BY <1>9
  <2>4. u.client = b.client /\ u.clock = k
    BY <2>2
  <2> QED BY <2>3, <2>4 DEF Known, Covers
<1> QED BY <1>1, <1>3, <1>4, <1>10, <1>11 DEF IInv, Keeps

\* merge_updates keeps account of every unit.
LEMMA Invariance == Spec => []IInv
<1>1. Init => IInv
  BY InitIInv
<1>2. IInv /\ [Next]_vars => IInv'
  <2> SUFFICES ASSUME IInv, [Next]_vars
               PROVE  IInv'
    OBVIOUS
  <2>1. CASE Finish
    BY <2>1, FinishStep
  <2>2. ASSUME NEW i \in Decoders, TakeFirst(i)
        PROVE  IInv'
    BY <2>2, TakeFirstStep
  <2>3. ASSUME NEW i \in Decoders, Reorder(i)
        PROVE  IInv'
    BY <2>3, ReorderStep
  <2>4. ASSUME NEW i \in Decoders, NextClient(i)
        PROVE  IInv'
    BY <2>4, NextClientStep
  <2>5. ASSUME NEW i \in Decoders, FillGap(i)
        PROVE  IInv'
    BY <2>5, FillGapStep
  <2>6. ASSUME NEW i \in Decoders, Overlap(i)
        PROVE  IInv'
    BY <2>6, OverlapStep
  <2>7. CASE UNCHANGED vars
    BY <2>7 DEF vars, IInv
  <2> QED BY <2>1, <2>2, <2>3, <2>4, <2>5, <2>6, <2>7 DEF Next
<1> QED BY <1>1, <1>2, PTL DEF Spec

\* A merged update can be written at every moment: well-typed, and each client's blocks
\* touch, so that a reader who has only the first clock finds all others.
THEOREM MergeIsWritable == Spec => []Writable
<1>1. IInv => Writable
  <2>1. IInv => TypeOK
    BY DEF IInv, Keeps, Typed, TypeOK, AnyBlocks
  <2>2. IInv => Gapless
    BY DEF IInv, Keeps, Unbroken, Gapless
  <2> QED BY <2>1, <2>2 DEF Writable
<1> QED BY <1>1, Invariance, PTL

\* At the end nothing waits, and what is taken is in the result.
LEMMA DoneFacts ==
  ASSUME IInv, Done
  PROVE  /\ result \in [Clients -> Seq(AnyBlocks)]
         /\ \A c \in Clients : Contiguous(result[c])
         /\ \A c \in Clients : \A j \in 1..Len(result[c]) :
              ~IsSkip(result[c][j]) => Backed(result[c][j], input)
         /\ \A u \in input : /\ u.clock \in Nat
                             /\ \E c \in Clients : \E j \in 1..Len(result[c]) :
                                  /\ ~IsSkip(result[c][j])
                                  /\ Covers(result[c][j], u.client, u.clock)
<1>1. written = NoBlock /\ Keeps(decoders, NoBlock, result, input)
  BY DEF IInv, Done
<1>2. result \in [Clients -> Seq(AnyBlocks)]
  BY <1>1 DEF Keeps, Typed
<1>3. ASSUME NEW c \in Clients PROVE Contiguous(result[c])
  <2>1. Contiguous(result[c] \o IF NoBlock.client = c THEN <<NoBlock>> ELSE <<>>)
    BY <1>1 DEF Keeps, Unbroken
  <2>2. NoBlock.client # c
    BY ClientsAssumption, BlockFacts
  <2>3. result[c] \in Seq(AnyBlocks)
    BY <1>2
  <2>4. result[c] \o <<>> = result[c]
    BY <2>3
  <2> QED BY <2>1, <2>2, <2>4
<1>4. Waiting(decoders) = {}
  BY DEF Done, Waiting
<1>5. \A c \in Clients : \A j \in 1..Len(result[c]) : result[c][j] \in AnyBlocks
  BY <1>2
<1>6. ASSUME NEW c \in Clients, NEW j \in 1..Len(result[c]), ~IsSkip(result[c][j])
      PROVE  Backed(result[c][j], input)
  <2>1. result[c][j] \in Taken(NoBlock, result)
    BY <1>5, <1>6 DEF Taken, Put
  <2> QED BY <1>1, <2>1 DEF Keeps, Sound
<1>7. ASSUME NEW u \in input
      PROVE  /\ u.clock \in Nat
             /\ \E c \in Clients : \E j \in 1..Len(result[c]) :
                  ~IsSkip(result[c][j]) /\ Covers(result[c][j], u.client, u.clock)
  <2>1. u.clock \in Nat /\ Known(Taken(NoBlock, result), u.client, u.clock)
    BY <1>1, <1>4 DEF Keeps, Complete
  <2>2. PICK b \in Taken(NoBlock, result) : Covers(b, u.client, u.clock)
    BY <2>1 DEF Known
  <2>3. b # NoBlock
    <3>1. ~ (0 <= u.clock /\ u.clock < 0)
      BY <2>1
    <3> QED BY <2>2, <3>1, BlockFacts DEF Covers
  <2>4. ~IsSkip(b) /\ \E c \in Clients : \E j \in 1..Len(result[c]) : b = result[c][j]
    BY <2>3 DEF Taken, Put
  <2> QED BY <2>1, <2>2, <2>4
<1> QED BY <1>2, <1>3, <1>6, <1>7

\* The units of blocks are at the clocks that those which are no Skips cover.
LEMMA UnitsOfSequence ==
  ASSUME NEW s \in Seq(AnyBlocks), NEW u
  PROVE  u \in Units(s) <=>
           \E j \in 1..Len(s) : \E k \in Nat :
             /\ ~IsSkip(s[j]) /\ s[j].clock <= k /\ k < End(s[j])
             /\ u = [client |-> s[j].client, clock |-> k, kind |-> s[j].kind]
<1>1. \A j \in 1..Len(s) : s[j].clock \in Nat /\ End(s[j]) \in Nat
  BY BlockFacts
<1>2. u \in UnitsOf(Range(s)) <=>
        \E j \in 1..Len(s) : \E k \in s[j].clock..End(s[j]) - 1 :
          u = [client |-> s[j].client, clock |-> k, kind |-> s[j].kind]
  <2>1. \A b : b \in Range(s) <=> \E j \in 1..Len(s) : b = s[j]
    BY DEF Range
  <2> QED BY <2>1, UnitsFacts
<1>3. \A j \in 1..Len(s) : \A k : k \in s[j].clock..End(s[j]) - 1 <=>
                                  k \in Nat /\ s[j].clock <= k /\ k < End(s[j])
  BY <1>1
<1>4. u \in UnitsOf(Range(s)) <=>
        \E j \in 1..Len(s) : \E k \in Nat :
          /\ s[j].clock <= k /\ k < End(s[j])
          /\ u = [client |-> s[j].client, clock |-> k, kind |-> s[j].kind]
  BY <1>2, <1>3
<1>5. u \in Units(s) <=> u \in UnitsOf(Range(s)) /\ u.kind # "skip"
  BY DEF Units
<1> QED BY <1>4, <1>5 DEF IsSkip

\* When merge_updates is done, its result has every unit of every update, as one of them
\* has it, and no other.
THEOREM NothingLostInMerge == Spec => []AllMerged
<1>1. ASSUME IInv PROVE AllMerged
  <2> SUFFICES ASSUME Done
               PROVE  LET merged == UNION {Units(result[c]) : c \in Clients}
                      IN merged \subseteq input /\ Places(merged) = Places(input)
    BY DEF AllMerged
  <2> DEFINE merged == UNION {Units(result[c]) : c \in Clients}
  <2>1. \A u : u \in merged <=> \E c \in Clients : u \in Units(result[c])
    OBVIOUS
  <2> HIDE DEF merged
  <2>2. result \in [Clients -> Seq(AnyBlocks)]
    BY <1>1, DoneFacts
  <2>3. ASSUME NEW u \in merged PROVE u \in input
    <3>1. PICK c \in Clients : u \in Units(result[c])
      BY <2>1
    <3>2. PICK j \in 1..Len(result[c]) : \E k \in Nat :
             /\ ~IsSkip(result[c][j]) /\ result[c][j].clock <= k /\ k < End(result[c][j])
             /\ u = [client |-> result[c][j].client, clock |-> k, kind |-> result[c][j].kind]
      BY <2>2, <3>1, UnitsOfSequence
    <3>3. Backed(result[c][j], input)
      BY <1>1, <3>2, DoneFacts
    <3> QED BY <3>2, <3>3 DEF Backed
  <2>4. ASSUME NEW u \in input
        PROVE  \E v \in merged : v.client = u.client /\ v.clock = u.clock
    <3>1. /\ u.clock \in Nat
          /\ \E c \in Clients : \E j \in 1..Len(result[c]) :
               ~IsSkip(result[c][j]) /\ Covers(result[c][j], u.client, u.clock)
      BY <1>1, DoneFacts
    <3>2. PICK c \in Clients : \E j \in 1..Len(result[c]) :
               ~IsSkip(result[c][j]) /\ Covers(result[c][j], u.client, u.clock)
      BY <3>1
    <3>3. PICK j \in 1..Len(result[c]) :
               ~IsSkip(result[c][j]) /\ Covers(result[c][j], u.client, u.clock)
      BY <3>2
    <3> DEFINE b == result[c][j]
               v == [client |-> b.client, clock |-> u.clock, kind |-> b.kind]
    <3>4. b.client = u.client /\ b.clock <= u.clock /\ u.clock < End(b)
      BY <3>3 DEF Covers
    <3>5. result[c] \in Seq(AnyBlocks)
      BY <2>2
    <3>6. v \in Units(result[c])
      BY <3>1, <3>3, <3>4, <3>5, UnitsOfSequence
    <3> QED BY <2>1, <3>4, <3>6
  <2>5. Places(merged) = Places(input)
    BY <2>3, <2>4 DEF Places
  <2> QED BY <2>3, <2>5 DEF merged
<1> QED BY <1>1, Invariance, PTL

----------------------------------------------------------------------------
\* Of blocks that touch each other, the later ones are at higher clocks.
LEMMA Ascending ==
  ASSUME NEW s \in Seq(AnyBlocks), Contiguous(s), NEW j \in 1..Len(s), NEW k \in 1..Len(s), j < k
  PROVE  End(s[j]) <= s[k].clock
<1>1. \A h \in 1..Len(s) : /\ s[h].clock \in Nat /\ End(s[h]) \in Nat
                           /\ s[h].clock < End(s[h])
  BY BlockFacts
<1>2. \A h \in 1..Len(s) : h + 1 \in 1..Len(s) => s[h + 1].clock = End(s[h])
  <2>1. DOMAIN s = 1..Len(s)
    OBVIOUS
  <2> QED BY <2>1 DEF Contiguous
<1>3. PICK L \in Nat : L = Len(s)
  OBVIOUS
<1> DEFINE T == {h \in 1..L : j < h /\ ~ (End(s[j]) <= s[h].clock)}
<1>4. ASSUME T # {} PROVE FALSE
  <2>1. T \in SUBSET Nat
    OBVIOUS
  <2>2. PICK h \in T : \A g \in T : h <= g
    <3> HIDE DEF T
    <3> QED BY <1>4, <2>1, LeastElement
  <2>3. h \in 1..L /\ j < h /\ ~ (End(s[j]) <= s[h].clock)
    BY <2>2
  <2>4. h - 1 \in 1..L /\ (h - 1) + 1 = h /\ ~ (h <= h - 1) /\ (h - 1 = j \/ j < h - 1)
    BY <1>3, <2>3
  <2>5. h - 1 \notin T
    BY <2>2, <2>4
  <2>6. s[h].clock = End(s[h - 1])
    BY <1>2, <1>3, <2>3, <2>4
  <2>7. CASE h - 1 = j
    BY <1>1, <1>3, <2>3, <2>6, <2>7
  <2>8. CASE j < h - 1
    <3>1. End(s[j]) <= s[h - 1].clock
      BY <2>4, <2>5, <2>8
    <3>2. s[h - 1].clock < End(s[h - 1]) /\ s[h - 1].clock \in Nat /\ End(s[h - 1]) \in Nat
          /\ End(s[j]) \in Nat
      BY <1>1, <1>3, <2>4
    <3> QED BY <2>3, <2>6, <3>1, <3>2
  <2> QED BY <2>4, <2>7, <2>8
<1> QED BY <1>3, <1>4

\* A reader who has only the first clock finds blocks where they were, whatever is cut off
\* from the first of them.
LEMMA LaidFacts ==
  ASSUME NEW s \in Seq(AnyBlocks), Contiguous(s), Len(s) >= 1, NEW o \in Nat, o < s[1].len
  PROVE  LET start == s[1].clock + o
             t == Laid(start, [s EXCEPT ![1].len = @ - o])
         IN /\ t \in Seq(AnyBlocks) /\ Len(t) = Len(s)
            /\ t[1].client = s[1].client /\ t[1].kind = s[1].kind
            /\ t[1].clock = start /\ End(t[1]) = End(s[1])
            /\ \A k \in 2..Len(s) : t[k] = s[k]
<1> DEFINE start == s[1].clock + o
           cut == [s EXCEPT ![1].len = @ - o]
           Eq(f) == f = [j \in DOMAIN cut |-> IF j = 1 THEN start ELSE f[j - 1] + cut[j - 1].len]
           at == CHOOSE f : Eq(f)
           t == Laid(start, cut)
<1>1. PICK L \in Nat : L = Len(s) /\ L >= 1
  OBVIOUS
<1>2. \A h \in 1..L : /\ s[h] \in AnyBlocks /\ s[h].clock \in Nat /\ s[h].len \in Nat
                      /\ End(s[h]) = s[h].clock + s[h].len
  BY <1>1, BlockFacts
<1>3. \A h \in 1..L : h + 1 \in 1..L => s[h + 1].clock = s[h].clock + s[h].len
  <2>1. DOMAIN s = 1..L
    BY <1>1
  <2>2. \A h \in 1..L : h + 1 \in 1..L => s[h + 1].clock = End(s[h])
    BY <2>1 DEF Contiguous
  <2> QED BY <1>2, <2>2
<1>4. /\ DOMAIN cut = 1..L /\ cut[1] = [s[1] EXCEPT !.len = s[1].len - o]
      /\ \A k \in 2..L : cut[k] = s[k]
  BY <1>1
<1>5. t = [j \in DOMAIN cut |-> [cut[j] EXCEPT !.clock = at[j]]]
  BY DEF Laid
<1>6. s[1].len - o \in Nat \ {0} /\ start \in Nat /\ start + (s[1].len - o) = s[1].clock + s[1].len
  <2>1. 1 \in 1..L
    BY <1>1
  <2>2. s[1].clock \in Nat /\ s[1].len \in Nat /\ o < s[1].len /\ o \in Nat
    BY <1>2, <2>1
  <2>3. PICK c \in Nat, l \in Nat : c = s[1].clock /\ l = s[1].len
    BY <2>2
  <2>4. l - o \in Nat \ {0} /\ c + o \in Nat /\ (c + o) + (l - o) = c + l
    <3>1. o < l /\ o \in Nat
      BY <2>2, <2>3
    <3> QED BY <3>1
  <2>5. start = c + o
    BY <2>3
  <2> HIDE DEF start, cut, t
  <2> QED BY <2>3, <2>4, <2>5
<1>7. cut[1].len = s[1].len - o
  BY <1>1, <1>2, <1>4 DEF AnyBlocks, Blocks, Skips
<1> HIDE DEF cut, start, t
<1> DEFINE g == [j \in 1..L |-> IF j = 1 THEN start ELSE s[j].clock]
<1>8. \A j \in 2..L : g[j] = g[j - 1] + cut[j - 1].len
  <2> SUFFICES ASSUME NEW j \in 2..L
               PROVE  g[j] = g[j - 1] + cut[j - 1].len
    OBVIOUS
  <2>1. j - 1 \in 1..L /\ (j - 1) + 1 = j /\ j \in 1..L /\ j # 1
    BY <1>1
  <2>2. s[j].clock = s[j - 1].clock + s[j - 1].len
    BY <1>3, <2>1
  <2>3. CASE j - 1 = 1
    BY <1>6, <1>7, <2>1, <2>2, <2>3
  <2>4. CASE j - 1 # 1
    <3>1. j - 1 \in 2..L
      BY <1>1, <2>1, <2>4
    <3>2. g[j - 1] = s[j - 1].clock /\ cut[j - 1] = s[j - 1]
      BY <1>4, <2>1, <2>4, <3>1
    <3> QED BY <2>1, <2>2, <3>2
  <2> QED BY <2>3, <2>4
<1>9. Eq(g)
  <2>1. \A j \in 1..L : g[j] = IF j = 1 THEN start ELSE g[j - 1] + cut[j - 1].len
    <3>1. \A j \in 1..L : j = 1 \/ j \in 2..L
      BY <1>1
    <3>2. g[1] = start
      BY <1>1
    <3> HIDE DEF g
    <3> QED BY <1>8, <3>1, <3>2
  <2> HIDE DEF g
  <2>2. g = [j \in 1..L |-> g[j]]
    BY DEF g
  <2> QED BY <1>4, <2>1, <2>2
<1>10. Eq(at)
  <2> HIDE DEF Eq
  <2> QED BY <1>9
<1> HIDE DEF at
<1>11. \A j \in 1..L : at[j] = IF j = 1 THEN start ELSE at[j - 1] + cut[j - 1].len
  BY <1>4, <1>10
<1> HIDE DEF Eq
<1> DEFINE T == {j \in 1..L : at[j] # g[j]}
<1>12. ASSUME T # {} PROVE FALSE
  <2>1. T \in SUBSET Nat
    OBVIOUS
  <2>2. PICK j \in T : \A h \in T : j <= h
    <3> HIDE DEF T
    <3> QED BY <1>12, <2>1, LeastElement
  <2>3. j \in 1..L /\ at[j] # g[j]
    BY <2>2
  <2>4. CASE j = 1
    BY <1>11, <2>3, <2>4
  <2>5. CASE j # 1
    <3>1. j - 1 \in 1..L /\ j \in 2..L /\ ~ (j <= j - 1)
      BY <1>1, <2>3, <2>5
    <3>2. at[j - 1] = g[j - 1]
      BY <2>2, <3>1
    <3>3. g[j] = g[j - 1] + cut[j - 1].len
      BY <1>8, <3>1
    <3>4. at[j] = at[j - 1] + cut[j - 1].len
      BY <1>11, <2>3, <2>5
    <3> QED BY <2>3, <3>2, <3>3, <3>4
  <2> QED BY <2>4, <2>5
<1>13. \A j \in 1..L : t[j] = [cut[j] EXCEPT !.clock = g[j]]
  BY <1>4, <1>5, <1>12
<1>14. \A k \in 2..L : t[k] = s[k]
  <2> SUFFICES ASSUME NEW k \in 2..L
               PROVE  t[k] = s[k]
    OBVIOUS
  <2>1. k \in 1..L /\ k # 1
    BY <1>1
  <2>2. t[k] = [s[k] EXCEPT !.clock = s[k].clock]
    BY <1>4, <1>13, <2>1
  <2> QED BY <1>2, <2>1, <2>2 DEF AnyBlocks, Blocks, Skips
<1>15. /\ t[1].client = s[1].client /\ t[1].kind = s[1].kind
       /\ t[1].clock = start /\ t[1].len = s[1].len - o /\ t[1] \in AnyBlocks
  <2>1. 1 \in 1..L /\ g[1] = start
    BY <1>1
  <2>2. t[1] = [[s[1] EXCEPT !.len = s[1].len - o] EXCEPT !.clock = start]
    BY <1>4, <1>13, <2>1
  <2>3. s[1] \in AnyBlocks
    BY <1>2, <2>1
  <2> HIDE DEF g
  <2> QED BY <1>6, <2>2, <2>3 DEF AnyBlocks, Blocks, Skips
<1>16. End(t[1]) = End(s[1])
  <2>1. 1 \in 1..L
    BY <1>1
  <2> QED BY <1>2, <1>6, <1>15, <2>1 DEF End
<1>17. t \in Seq(AnyBlocks) /\ Len(t) = L
  <2>1. \A j \in 1..L : j = 1 \/ j \in 2..L
    BY <1>1
  <2>2. \A j \in 1..L : t[j] \in AnyBlocks
    BY <1>2, <1>14, <1>15, <2>1
  <2>3. DOMAIN t = 1..L /\ t = [j \in 1..L |-> t[j]]
    BY <1>4, <1>5
  <2>4. t \in [1..L -> AnyBlocks]
    BY <2>2, <2>3
  <2> QED BY <1>1, <2>4
<1> QED BY <1>1, <1>14, <1>15, <1>16, <1>17 DEF t, start, cut

\* Update::encode_diff on blocks that touch: every unit from the remote clock on.
LEMMA DiffFacts ==
  ASSUME NEW s \in Seq(AnyBlocks), Contiguous(s), NEW remote \in Nat
  PROVE  Units(EncodeDiff(s, remote)) = {u \in Units(s) : u.clock >= remote}
<1> DEFINE new == {h \in DOMAIN s : ~IsSkip(s[h]) /\ End(s[h]) > remote}
           first == CHOOSE h \in new : \A g \in new : h <= g
<1>1. PICK L \in Nat : L = Len(s) /\ DOMAIN s = 1..L
  OBVIOUS
<1>2. \A h \in 1..L : /\ s[h] \in AnyBlocks /\ s[h].clock \in Nat /\ End(s[h]) \in Nat
                      /\ s[h].len \in Nat /\ s[h].clock < End(s[h])
                      /\ End(s[h]) = s[h].clock + s[h].len
  BY <1>1, BlockFacts
<1>3. \A h \in 1..L : h \in new <=> ~IsSkip(s[h]) /\ End(s[h]) > remote
  BY <1>1
<1>4. \A h, k \in 1..L : h < k => End(s[h]) <= s[k].clock
  BY <1>1, Ascending
<1>5. CASE new = {}
  <2>1. EncodeDiff(s, remote) = <<>>
    BY <1>5 DEF EncodeDiff
  <2>2. ASSUME NEW u PROVE u \notin Units(<<>>)
    <3> DEFINE none == <<>>
    <3>1. none \in Seq(AnyBlocks) /\ \A h \in 1..Len(none) : FALSE
      OBVIOUS
    <3> HIDE DEF none
    <3>2. u \notin Units(none)
      BY <3>1, UnitsOfSequence
    <3> QED BY <3>2 DEF none
  <2>3. ASSUME NEW u \in Units(s) PROVE ~ (u.clock >= remote)
    <3>1. PICK h \in 1..L : \E k \in Nat :
             /\ ~IsSkip(s[h]) /\ s[h].clock <= k /\ k < End(s[h])
             /\ u = [client |-> s[h].client, clock |-> k, kind |-> s[h].kind]
      BY <1>1, UnitsOfSequence
    <3>2. ~ (End(s[h]) > remote)
      BY <1>3, <1>5, <3>1
    <3>3. u.clock \in Nat /\ u.clock < End(s[h]) /\ End(s[h]) \in Nat
      BY <1>2, <3>1
    <3> QED BY <3>2, <3>3
  <2> QED BY <2>1, <2>2, <2>3
<1>6. CASE new # {}
  <2>1. PICK j \in 1..L : j = first /\ j \in new /\ \A g \in new : j <= g
    <3>1. new \in SUBSET Nat
      BY <1>1
    <3>2. \E h \in new : \A g \in new : h <= g
      <4> HIDE DEF new
      <4> QED BY <1>6, <3>1, LeastElement
    <3>3. first \in new /\ \A g \in new : first <= g
      BY <3>2
    <3> QED BY <1>1, <3>3
  <2> DEFINE rest == SubSeq(s, j, Len(s))
             o == IF remote > s[j].clock THEN remote - s[j].clock ELSE 0
             t == Laid(s[j].clock + o, [rest EXCEPT ![1].len = @ - o])
  <2>2. EncodeDiff(s, remote) = t
    BY <1>6, <2>1 DEF EncodeDiff
  <2>3. PICK n \in 0..L : j = n + 1 /\ n \in Nat /\ n < L
    <3>1. j - 1 \in 0..L /\ j = (j - 1) + 1 /\ j - 1 \in Nat /\ j - 1 < L
      BY <1>1
    <3> QED BY <3>1
  <2>4. /\ rest \in Seq(AnyBlocks) /\ Len(rest) = L - n
        /\ \A k \in 1..Len(rest) : n + k \in 1..L /\ rest[k] = s[n + k]
        /\ \A h \in 1..L : h \in 1..n \/ (h - n \in 1..Len(rest) /\ s[h] = rest[h - n])
    <3>1. n \in 0..Len(s) /\ rest = SubSeq(s, n + 1, Len(s))
      BY <1>1, <2>3
    <3> HIDE DEF new, first, o, t
    <3>2. LET e == SubSeq(s, n + 1, Len(s))
          IN /\ e \in Seq(AnyBlocks) /\ Len(e) = Len(s) - n
             /\ \A k \in 1..Len(e) : n + k \in 1..Len(s) /\ e[k] = s[n + k]
             /\ \A h \in 1..Len(s) : h \in 1..n \/ (h - n \in 1..Len(e) /\ s[h] = e[h - n])
      BY <3>1, Suffix
    <3> HIDE DEF rest
    <3> QED BY <1>1, <3>1, <3>2
  <2> HIDE DEF first, new, rest
  <2>5. Contiguous(rest)
    <3> SUFFICES ASSUME NEW h \in 1..Len(rest), NEW k \in 1..Len(rest), k = h + 1
                 PROVE  rest[k].clock = End(rest[h])
      <4>1. DOMAIN rest = 1..Len(rest)
        BY <2>4
      <4> QED BY <4>1 DEF Contiguous
    <3>1. n + h \in 1..L /\ n + k \in 1..L /\ n + k = (n + h) + 1
      BY <2>3, <2>4
    <3>2. rest[h] = s[n + h] /\ rest[k] = s[n + k]
      BY <2>4
    <3> QED BY <1>1, <3>1, <3>2 DEF Contiguous
  <2>6. Len(rest) >= 1 /\ rest[1] = s[j] /\ 1 \in 1..Len(rest)
    <3>1. Len(rest) >= 1 /\ 1 \in 1..Len(rest)
      BY <1>1, <2>3, <2>4
    <3> QED BY <2>3, <2>4, <3>1
  <2>7. /\ s[j].clock \in Nat /\ s[j].len \in Nat /\ End(s[j]) = s[j].clock + s[j].len
        /\ End(s[j]) \in Nat /\ remote < End(s[j]) /\ ~IsSkip(s[j])
        /\ s[j].clock < End(s[j])
    BY <1>2, <1>3, <2>1
  <2>8. /\ o \in Nat /\ o < s[j].len /\ s[j].clock + o < End(s[j])
        /\ remote <= s[j].clock + o /\ s[j].clock <= s[j].clock + o
        /\ \A k \in Nat : remote <= k /\ s[j].clock <= k => s[j].clock + o <= k
    BY <2>7
  <2> HIDE DEF o
  <2>9. /\ t \in Seq(AnyBlocks) /\ Len(t) = Len(rest)
        /\ t[1].client = s[j].client /\ t[1].kind = s[j].kind
        /\ t[1].clock = s[j].clock + o /\ End(t[1]) = End(s[j])
        /\ \A k \in 2..Len(rest) : t[k] = rest[k]
    <3>1. t = Laid(rest[1].clock + o, [rest EXCEPT ![1].len = @ - o])
      BY <2>6
    <3>2. o \in Nat /\ o < rest[1].len
      BY <2>6, <2>8
    <3>3. LET r == Laid(rest[1].clock + o, [rest EXCEPT ![1].len = @ - o])
          IN /\ r \in Seq(AnyBlocks) /\ Len(r) = Len(rest)
             /\ r[1].client = rest[1].client /\ r[1].kind = rest[1].kind
             /\ r[1].clock = rest[1].clock + o /\ End(r[1]) = End(rest[1])
             /\ \A k \in 2..Len(rest) : r[k] = rest[k]
      BY <2>4, <2>5, <2>6, <3>2, LaidFacts
    <3> HIDE DEF t
    <3> QED BY <2>6, <3>1, <3>3
  <2> HIDE DEF t
  <2>10. ~IsSkip(t[1])
    BY <2>7, <2>9 DEF IsSkip
  <2>11. ASSUME NEW u \in Units(t) PROVE u \in Units(s) /\ u.clock >= remote
    <3>1. PICK h \in 1..Len(rest) : \E k \in Nat :
             /\ ~IsSkip(t[h]) /\ t[h].clock <= k /\ k < End(t[h])
             /\ u = [client |-> t[h].client, clock |-> k, kind |-> t[h].kind]
      BY <2>9, UnitsOfSequence
    <3>2. PICK k \in Nat :
             /\ ~IsSkip(t[h]) /\ t[h].clock <= k /\ k < End(t[h])
             /\ u = [client |-> t[h].client, clock |-> k, kind |-> t[h].kind]
      BY <3>1
    <3>3. CASE h = 1
      <4>1. s[j].clock <= k /\ k < End(s[j]) /\ remote <= k
        <5>1. s[j].clock + o <= k /\ k < End(s[j])
          BY <2>9, <3>2, <3>3
        <5> QED BY <2>7, <2>8, <5>1
      <4>2. u = [client |-> s[j].client, clock |-> k, kind |-> s[j].kind]
        BY <2>9, <3>2, <3>3
      <4>3. u \in Units(s)
        BY <1>1, <2>7, <4>1, <4>2, UnitsOfSequence
      <4> QED BY <4>1, <4>2, <4>3
    <3>4. CASE h # 1
      <4>1. h \in 2..Len(rest) /\ n + h \in 1..L /\ j < n + h
        BY <1>1, <2>3, <2>4, <3>4
      <4>2. t[h] = s[n + h]
        BY <2>4, <2>9, <4>1
      <4>3. End(s[j]) <= s[n + h].clock
        BY <1>4, <4>1
      <4>4. u \in Units(s)
        BY <1>1, <3>2, <4>1, <4>2, UnitsOfSequence
      <4>5. s[n + h].clock <= k /\ s[n + h].clock \in Nat /\ u.clock = k
        BY <1>2, <3>2, <4>1, <4>2
      <4>6. k >= remote
        BY <2>7, <4>3, <4>5
      <4> QED BY <4>4, <4>5, <4>6
    <3> QED BY <3>3, <3>4
  <2>12. ASSUME NEW u \in Units(s), u.clock >= remote PROVE u \in Units(t)
    <3>1. PICK h \in 1..L : \E k \in Nat :
             /\ ~IsSkip(s[h]) /\ s[h].clock <= k /\ k < End(s[h])
             /\ u = [client |-> s[h].client, clock |-> k, kind |-> s[h].kind]
      BY <1>1, UnitsOfSequence
    <3>2. PICK k \in Nat :
             /\ ~IsSkip(s[h]) /\ s[h].clock <= k /\ k < End(s[h])
             /\ u = [client |-> s[h].client, clock |-> k, kind |-> s[h].kind]
      BY <3>1
    <3>3. k >= remote
      BY <2>12, <3>2
    <3>4. h \in new
      <4>1. End(s[h]) > remote
        BY <1>2, <3>2, <3>3
      <4> QED BY <1>3, <3>2, <4>1
    <3>5. j <= h
      BY <2>1, <3>4
    <3>6. CASE h = j
      <4>1. t[1].clock <= k /\ k < End(t[1])
        BY <2>8, <2>9, <3>2, <3>3, <3>6
      <4>2. u = [client |-> t[1].client, clock |-> k, kind |-> t[1].kind]
        BY <2>9, <3>2, <3>6
      <4> QED BY <2>6, <2>9, <2>10, <4>1, <4>2, UnitsOfSequence
    <3>7. CASE h # j
      <4>1. h \notin 1..n /\ h - n # 1
        BY <2>3, <3>5, <3>7
      <4>2. h - n \in 1..Len(rest) /\ s[h] = rest[h - n]
        BY <2>4, <4>1
      <4>3. h - n \in 2..Len(rest)
        BY <4>1, <4>2
      <4>4. t[h - n] = s[h]
        BY <2>9, <4>2, <4>3
      <4> QED BY <2>9, <3>2, <4>2, <4>4, UnitsOfSequence
    <3> QED BY <3>6, <3>7
  <2> QED BY <2>2, <2>11, <2>12
<1> QED BY <1>5, <1>6

\* Update::state_vector on blocks that touch: each clock before it is one of a block.
LEMMA VectorFacts ==
  ASSUME NEW s \in Seq(AnyBlocks), Contiguous(s), NEW k \in Nat, k < StateVector(s)
  PROVE  \E j \in 1..Len(s) : ~IsSkip(s[j]) /\ s[j].clock <= k /\ k < End(s[j])
<1> DEFINE skips == {j \in DOMAIN s : IsSkip(s[j])}
           until == IF skips = {} THEN Len(s)
                    ELSE (CHOOSE j \in skips : \A h \in skips : j <= h) - 1
<1>1. PICK L \in Nat : L = Len(s) /\ DOMAIN s = 1..L
  OBVIOUS
<1>2. \A h \in 1..L : /\ s[h].clock \in Nat /\ End(s[h]) \in Nat
                      /\ (h + 1 \in 1..L => s[h + 1].clock = End(s[h]))
  BY <1>1, BlockFacts DEF Contiguous
<1>3. /\ s # <<>> /\ s[1].clock = 0 /\ until # 0 /\ k < End(s[until])
  <2>1. StateVector(s) = IF s = <<>> \/ s[1].clock # 0 \/ until = 0 THEN 0 ELSE End(s[until])
    BY DEF StateVector
  <2> HIDE DEF until
  <2> QED BY <2>1
<1>4. until \in 1..L /\ \A h \in 1..until : ~IsSkip(s[h])
  <2>1. CASE skips = {}
    <3>1. L >= 1
      BY <1>1, <1>3
    <3> QED BY <1>1, <2>1, <3>1
  <2>2. CASE skips # {}
    <3>1. skips \in SUBSET Nat
      BY <1>1
    <3>2. \E h \in skips : \A g \in skips : h <= g
      <4> HIDE DEF skips
      <4> QED BY <2>2, <3>1, LeastElement
    <3> DEFINE j == CHOOSE j \in skips : \A h \in skips : j <= h
    <3>3. j \in skips /\ \A g \in skips : j <= g
      BY <3>2
    <3>4. until = j - 1
      BY <2>2
    <3> HIDE DEF j, until
    <3>5. j \in 1..L /\ until \in 1..L
      BY <1>1, <1>3, <3>3, <3>4
    <3>6. ASSUME NEW h \in 1..until PROVE ~IsSkip(s[h])
      <4>1. h \in 1..L /\ ~ (j <= h)
        BY <1>1, <3>4, <3>5
      <4> QED BY <1>1, <3>3, <4>1
    <3> QED BY <3>5, <3>6
  <2> QED BY <2>1, <2>2
<1> HIDE DEF until
<1> DEFINE T == {h \in 1..until : k < End(s[h])}
<1>5. T \in SUBSET Nat /\ until \in T
  BY <1>3, <1>4
<1>6. PICK j \in T : \A h \in T : j <= h
  <2> HIDE DEF T
  <2> QED BY <1>5, LeastElement
<1>7. j \in 1..L /\ j \in 1..until /\ k < End(s[j]) /\ ~IsSkip(s[j])
  BY <1>4, <1>6
<1>8. s[j].clock <= k
  <2>1. CASE j = 1
    BY <1>3, <2>1
  <2>2. CASE j # 1
    <3>1. j - 1 \in 1..L /\ j - 1 \in 1..until /\ (j - 1) + 1 = j /\ ~ (j <= j - 1)
      BY <1>4, <1>7, <2>2
    <3>2. ~ (k < End(s[j - 1]))
      BY <1>6, <3>1
    <3>3. s[j].clock = End(s[j - 1]) /\ End(s[j - 1]) \in Nat
      BY <1>2, <1>7, <3>1
    <3> QED BY <3>2, <3>3
  <2> QED BY <2>1, <2>2
<1> QED BY <1>1, <1>7, <1>8

\* A state vector's clock is a number.
LEMMA VectorIsNumber ==
  ASSUME NEW s \in Seq(AnyBlocks)
  PROVE  StateVector(s) \in Nat
<1> DEFINE skips == {j \in DOMAIN s : IsSkip(s[j])}
           until == IF skips = {} THEN Len(s)
                    ELSE (CHOOSE j \in skips : \A h \in skips : j <= h) - 1
<1>1. SUFFICES ASSUME s # <<>>, until # 0
               PROVE  End(s[until]) \in Nat
  BY DEF StateVector
<1>2. until \in 1..Len(s)
  <2>1. CASE skips = {}
    <3>1. Len(s) >= 1 /\ Len(s) \in Nat
      BY <1>1
    <3> QED BY <2>1, <3>1
  <2>2. CASE skips # {}
    <3>1. skips \in SUBSET Nat
      OBVIOUS
    <3>2. \E h \in skips : \A g \in skips : h <= g
      <4> HIDE DEF skips
      <4> QED BY <2>2, <3>1, LeastElement
    <3> DEFINE j == CHOOSE j \in skips : \A h \in skips : j <= h
    <3>3. j \in skips
      BY <3>2
    <3>4. until = j - 1
      BY <2>2
    <3> HIDE DEF j, until
    <3> QED BY <1>1, <3>3, <3>4
  <2> QED BY <2>1, <2>2
<1> HIDE DEF until
<1> QED BY <1>2, BlockFacts

----------------------------------------------------------------------------
\* every block is written under its client
Filed(out) == \A c \in Clients : \A j \in 1..Len(out[c]) : out[c][j].client = c

\* Blocks of one client are added under that client.
LEMMA AddFiled ==
  ASSUME NEW out \in [Clients -> Seq(AnyBlocks)], Filed(out), NEW c \in Clients,
         NEW s \in Seq(AnyBlocks), \A j \in 1..Len(s) : s[j].client = c
  PROVE  Filed(Add(out, c, s))
<1> DEFINE more == Add(out, c, s)
<1>1. more[c] = out[c] \o s /\ \A e \in Clients : e # c => more[e] = out[e]
  BY AddFacts
<1> HIDE DEF more
<1>2. ASSUME NEW j \in 1..Len(more[c]) PROVE more[c][j].client = c
  <2>1. PICK t \in Seq(AnyBlocks) : t = out[c] /\ \A h \in 1..Len(t) : t[h].client = c
    BY DEF Filed
  <2>2. /\ Len(more[c]) = Len(t) + Len(s) /\ Len(t) \in Nat /\ Len(s) \in Nat
        /\ \A h \in 1..Len(t) : more[c][h] = t[h]
        /\ \A h \in 1..Len(s) : more[c][Len(t) + h] = s[h]
    BY <1>1, <2>1, Joined
  <2>3. CASE j <= Len(t)
    BY <2>1, <2>2, <2>3
  <2>4. CASE ~ (j <= Len(t))
    <3>1. j - Len(t) \in 1..Len(s) /\ Len(t) + (j - Len(t)) = j
      BY <2>2, <2>4
    <3> QED BY <2>2, <3>1
  <2> QED BY <2>3, <2>4
<1>3. Filed(more)
  BY <1>1, <1>2 DEF Filed
<1> QED BY <1>3 DEF more

\* What is taken at once is of one client.
LEMMA TakeOnFiled ==
  ASSUME decoders \in [Decoders -> Seq(Blocks)], NEW w \in AnyBlocks, NEW i \in Decoders,
         NEW blocks \in Seq(Blocks), NEW out \in [Clients -> Seq(AnyBlocks)], Filed(out),
         TakeOn(i, w, blocks, out)
  PROVE  Filed(result')
<1>1. PICK n \in 0..Len(blocks), run \in Seq(AnyBlocks) : Takes(i, w, blocks, out, n, run)
  BY RunFacts
<1>2. /\ Len(run) = Len(blocks) + 1 /\ run[1] = w
      /\ \A j \in 1..n : run[j + 1].client = w.client
      /\ result' = Add(out, w.client, SubSeq(run, 1, n))
  BY <1>1 DEF Takes
<1>3. n \in Nat /\ n <= Len(run) /\ Len(run) \in Nat
  BY <1>2
<1> DEFINE front == SubSeq(run, 1, n)
<1>4. front \in Seq(AnyBlocks) /\ Len(front) = n /\ \A j \in 1..n : front[j] = run[j]
  BY <1>3
<1> HIDE DEF front
<1>5. ASSUME NEW j \in 1..n PROVE run[j].client = w.client
  <2>1. CASE j = 1
    BY <1>2, <2>1
  <2>2. CASE j # 1
    <3>1. j - 1 \in 1..n /\ (j - 1) + 1 = j
      BY <1>3, <2>2
    <3> QED BY <1>2, <3>1
  <2> QED BY <2>1, <2>2
<1>6. w.client \in Clients
  BY BlockFacts
<1>7. Filed(Add(out, w.client, front))
  BY <1>4, <1>5, <1>6, AddFiled
<1> QED BY <1>2, <1>7 DEF front

\* No block is ever written under another client.
LEMMA FiledStep ==
  ASSUME IInv, Filed(result), [Next]_vars
  PROVE  Filed(result')
<1> DEFINE out == Add(result, written.client, <<written>>)
<1>1. /\ decoders \in [Decoders -> Seq(Blocks)] /\ result \in [Clients -> Seq(AnyBlocks)]
      /\ written \in Blocks \cup {NoBlock}
  BY DEF IInv, Keeps, Typed
<1>2. ASSUME written \in Blocks
      PROVE  out \in [Clients -> Seq(AnyBlocks)] /\ Filed(out)
  <2>1. /\ written.client \in Clients /\ <<written>> \in Seq(AnyBlocks)
        /\ \A j \in 1..Len(<<written>>) : <<written>>[j].client = written.client
    BY <1>2, BlockFacts
  <2> QED BY <1>1, <2>1, AddFacts, AddFiled
<1> HIDE DEF out
<1>3. CASE Finish
  BY <1>1, <1>2, <1>3 DEF Finish, out
<1>4. ASSUME NEW i \in Decoders, TakeFirst(i) PROVE Filed(result')
  <2>1. decoders[i] \in Seq(Blocks) /\ decoders[i] # <<>>
    BY <1>1, <1>4 DEF TakeFirst, First
  <2>2. Current(i) \in AnyBlocks /\ Tail(decoders[i]) \in Seq(Blocks)
    BY <2>1, BlockFacts DEF Current
  <2>3. TakeOn(i, Current(i), Tail(decoders[i]), result)
    BY <1>4 DEF TakeFirst
  <2> QED BY <1>1, <2>2, <2>3, TakeOnFiled
<1>5. ASSUME NEW i \in Decoders, Reorder(i) PROVE Filed(result')
  BY <1>5 DEF Reorder
<1>6. ASSUME NEW i \in Decoders, Writing(i)
      PROVE  /\ written \in Blocks /\ Skimmed(decoders[i]) \in Seq(Blocks)
             /\ Head(Skimmed(decoders[i])) \in Blocks
             /\ Tail(Skimmed(decoders[i])) \in Seq(Blocks)
  <2> DEFINE s == Skimmed(decoders[i])
  <2>1. written \in Blocks /\ s \in Seq(Blocks) /\ Len(s) >= 1 /\ Head(s) \in Blocks
    BY <1>6, WritingFacts
  <2> HIDE DEF s
  <2>2. s # <<>>
    BY <2>1
  <2>3. Tail(s) \in Seq(Blocks)
    BY <2>1, <2>2
  <2> QED BY <2>1, <2>3 DEF s
<1>7. ASSUME NEW i \in Decoders, NextClient(i) PROVE Filed(result')
  <2> DEFINE s == Skimmed(decoders[i])
  <2>1. Writing(i) /\ TakeOn(i, Head(s), Tail(s), out)
    BY <1>7 DEF NextClient, out
  <2>2. written \in Blocks /\ Head(s) \in AnyBlocks /\ Tail(s) \in Seq(Blocks)
    BY <1>6, <2>1, BlockFacts
  <2> HIDE DEF s
  <2> QED BY <1>1, <1>2, <2>1, <2>2, TakeOnFiled
<1>8. ASSUME NEW i \in Decoders, FillGap(i) PROVE Filed(result')
  <2> DEFINE s == Skimmed(decoders[i])
             gap == Head(s).clock - End(written)
             skip == MkBlock(written.client, End(written), gap, "skip")
  <2>1. Writing(i) /\ gap > 0 /\ TakeOn(i, skip, s, out)
    BY <1>8 DEF FillGap, out
  <2>2. written \in Blocks /\ s \in Seq(Blocks) /\ Head(s) \in Blocks
    BY <1>6, <2>1
  <2> HIDE DEF s
  <2>3. written.client \in Clients /\ End(written) \in Nat /\ Head(s).clock \in Nat
    BY <2>2, BlockFacts
  <2>4. gap \in Nat \ {0}
    BY <2>1, <2>3
  <2> HIDE DEF gap
  <2>5. skip \in AnyBlocks
    BY <2>3, <2>4 DEF MkBlock, AnyBlocks, Skips
  <2> HIDE DEF skip
  <2> QED BY <1>1, <1>2, <2>1, <2>2, <2>5, TakeOnFiled
<1>9. ASSUME NEW i \in Decoders, Overlap(i) PROVE Filed(result')
  <2> DEFINE s == Skimmed(decoders[i])
             next == Head(s)
             diff == End(written) - next.clock
             slice == MkBlock(next.client, End(written), next.len - diff, next.kind)
             longer == [written EXCEPT !.len = @ + slice.len]
  <2>1. /\ Writing(i)
        /\ TakeOn(i, longer, s, result) \/ TakeOn(i, slice, Tail(s), out)
    BY <1>9 DEF Overlap, out
  <2>2. written \in Blocks /\ s \in Seq(Blocks) /\ Tail(s) \in Seq(Blocks)
    BY <1>6, <2>1
  <2>3. slice \in AnyBlocks /\ longer \in AnyBlocks
    BY <1>9, OverlapFacts, BlockFacts
  <2> HIDE DEF s, slice, longer
  <2>4. CASE TakeOn(i, longer, s, result)
    BY <1>1, <2>2, <2>3, <2>4, TakeOnFiled
  <2>5. CASE TakeOn(i, slice, Tail(s), out)
    BY <1>1, <1>2, <2>2, <2>3, <2>5, TakeOnFiled
  <2> QED BY <2>1, <2>4, <2>5
<1>10. CASE UNCHANGED vars
  BY <1>10 DEF vars
<1> QED BY <1>3, <1>4, <1>5, <1>7, <1>8, <1>9, <1>10 DEF Next

\* What is read off a merged update agrees with it: Update::encode_diff has every unit from
\* the remote clock on and no other, as its reader finds them, and Update::state_vector
\* claims only units that are there.
THEOREM EncodersAgree == Spec => []EncodersTrue
<1>1. Init => Filed(result)
  <2> SUFFICES ASSUME Init PROVE Filed(result)
    OBVIOUS
  <2>1. \A c \in Clients : result[c] = <<>>
    BY DEF Init
  <2> QED BY <2>1 DEF Filed
<1>2. IInv /\ Filed(result) /\ [Next]_vars => Filed(result)'
  BY FiledStep
<1>3. ASSUME IInv, Filed(result), Done
      PROVE  /\ \A c \in Clients : result[c] \in Seq(AnyBlocks) /\ Contiguous(result[c])
             /\ \A c \in Clients : \A j \in 1..Len(result[c]) :
                  /\ result[c][j].client = c
                  /\ ~IsSkip(result[c][j]) => Backed(result[c][j], input)
  BY <1>3, DoneFacts DEF Filed
<1>4. IInv /\ Filed(result) => DiffComplete
  <2> SUFFICES ASSUME IInv, Filed(result), Done, NEW c \in Clients,
                      NEW remote \in 0..(IF result[c] = <<>> THEN 0
                                         ELSE End(result[c][Len(result[c])]))
               PROVE  Units(EncodeDiff(result[c], remote)) =
                        {u \in Units(result[c]) : u.clock >= remote}
    BY DEF DiffComplete
  <2>1. remote \in Nat
    OBVIOUS
  <2>2. result[c] \in Seq(AnyBlocks) /\ Contiguous(result[c])
    BY <1>3
  <2> QED BY <2>1, <2>2, DiffFacts
<1>5. IInv /\ Filed(result) => StateVectorTrue
  <2> SUFFICES ASSUME IInv, Filed(result), Done, NEW c \in Clients,
                      NEW k \in 0..(StateVector(result[c]) - 1)
               PROVE  <<c, k>> \in Places(input)
    BY DEF StateVectorTrue
  <2>1. result[c] \in Seq(AnyBlocks) /\ Contiguous(result[c])
    BY <1>3
  <2>2. StateVector(result[c]) \in Int
    BY <2>1, VectorIsNumber
  <2>3. k \in Nat /\ k < StateVector(result[c])
    BY <2>2
  <2>4. PICK j \in 1..Len(result[c]) :
          /\ ~IsSkip(result[c][j]) /\ result[c][j].clock <= k /\ k < End(result[c][j])
    BY <2>1, <2>3, VectorFacts
  <2> DEFINE b == result[c][j]
             u == [client |-> c, clock |-> k, kind |-> b.kind]
  <2>5. b.client = c /\ Backed(b, input)
    BY <1>3, <2>4
  <2>6. u \in input
    BY <2>3, <2>4, <2>5 DEF Backed
  <2>7. u.client = c /\ u.clock = k
    OBVIOUS
  <2> HIDE DEF u
  <2> QED BY <2>6, <2>7 DEF Places
<1>6. IInv /\ Filed(result) => EncodersTrue
  BY <1>4, <1>5 DEF EncodersTrue
<1> QED BY <1>1, <1>2, <1>6, Invariance, PTL DEF Spec
=============================================================================
