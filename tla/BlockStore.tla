----------------------------- MODULE BlockStore -----------------------------
(***************************************************************************)
(* The blocks of one client in the store of one replica: ClientBlockList   *)
(* and BlockStore, what BlockSet::exclude leaves of an incoming update,    *)
(* the loop of Update::integrate that pushes it, the splits and deletes of *)
(* a transaction, and the collecting and squashing of its commit.          *)
(*                                                                         *)
(* ApplyUpdate models the same store by its units and leaves out how they  *)
(* are grouped into blocks; here that grouping is the subject.  Units are  *)
(* characters: one in Typed is in the text of the one before, any other in *)
(* a text of its own or not.  Clocks are u32, here modulo Wrap.            *)
(***************************************************************************)
EXTENDS Integers, FiniteSets, SequencesExt

CONSTANTS
  MaxClock,     \* bound: the clocks of the client are 0..MaxClock - 1
  Typed,        \* units typed right after the one before, which is their origin
  Wrap,         \* how many values a u32 has
  GcOverruns    \* whether an update may hold a GC block that begins where the
                \* replica has a hole and ends where it has units

Clocks == 0..(MaxClock - 1)
Kinds == {"Item", "GC", "Skip"}
Block == [kind : Kinds, clock : Clocks, len : 1..MaxClock, deleted : BOOLEAN]

ASSUME MaxClockAssumption == MaxClock \in Nat \ {0}
ASSUME TypedAssumption == Typed \subseteq Clocks \ {0}
ASSUME WrapAssumption == Wrap \in Nat /\ Wrap > 2 * MaxClock
ASSUME GcOverrunsAssumption == GcOverruns \in BOOLEAN

NoClock == -1

VARIABLES
  list,         \* the ClientBlockList
  skips,        \* BlockStore.skips of the client, as the set of its clocks
  queue,        \* what is left of the update being integrated
  localClock,   \* the client's entry of `state` in Update::integrate
  apart,        \* typed units between which and their origin something was inserted
  inserted,     \* insert_set of the running transaction
  removed,      \* delete_set of the running transaction
  mergeBlocks,  \* merge_blocks of the running transaction
  known, dead   \* units ever integrated, units ever deleted

txn == <<inserted, removed, mergeBlocks>>
ghost == <<known, dead>>
vars == <<list, skips, queue, localClock, apart, txn, ghost>>

MkBlock(kind, clock, len) ==
  [kind |-> kind, clock |-> clock, len |-> len, deleted |-> kind = "GC"]
NextClock(b) == (b.clock + b.len) % Wrap
LastClock(b) == b.clock + b.len - 1
RangeOf(b) == b.clock..LastClock(b)
UnitsOf(blocks, kinds) ==
  UNION {RangeOf(blocks[i]) : i \in {j \in DOMAIN blocks : blocks[j].kind \in kinds}}

GetClock == IF list = <<>> THEN 0 ELSE NextClock(Last(list))

\* known_state: all below the end of the list that is not in a Skip
Known == (0..(GetClock - 1)) \ skips

\* mutated GetStateVector: the end of the list, holes or not
EndOfList == GetClock

GetStateVector == IF skips = {} THEN GetClock ELSE Min(skips)

Init ==
  /\ list = <<>> /\ skips = {} /\ queue = <<>> /\ localClock = NoClock
  /\ apart = {} /\ inserted = {} /\ removed = {} /\ mergeBlocks = {}
  /\ known = {} /\ dead = {}

----------------------------------------------------------------------------
(***************************************************************************)
(* Searching and splitting.                                                *)
(***************************************************************************)
\* mutated FindIndex: a clock past the end is given to the last block
FindsPastEnd(blocks, clock) ==
  LET n == Len(blocks)
      search[l \in 1..(n + 1), r \in 0..n, m \in 0..n] ==
        IF l > r THEN 0
        ELSE IF blocks[m].clock > clock THEN search[l, m - 1, (l + m - 1) \div 2]
        ELSE IF clock <= LastClock(blocks[m]) THEN m
        ELSE search[m + 1, r, (m + 1 + r) \div 2]
  IN IF blocks[n].clock = clock \/ clock > LastClock(blocks[n]) THEN n
     ELSE search[1, n, 1 + (clock \div LastClock(blocks[n])) * (n - 1)]

\* the index of the block that owns the clock, 0 for None: a binary search between
\* l and r, whose first probe m is guessed
FindIndex(blocks, clock) ==
  LET n == Len(blocks)
      search[l \in 1..(n + 1), r \in 0..n, m \in 0..n] ==
        IF l > r THEN 0
        ELSE IF blocks[m].clock > clock THEN search[l, m - 1, (l + m - 1) \div 2]
        ELSE IF clock <= LastClock(blocks[m]) THEN m
        ELSE search[m + 1, r, (m + 1 + r) \div 2]
  IN IF blocks[n].clock = clock THEN n
     ELSE IF clock > LastClock(blocks[n]) THEN 0
     ELSE search[1, n, 1 + (clock \div LastClock(blocks[n])) * (n - 1)]

\* Block::splice shortens an Item; of a GC or a Skip it only returns the right part
LeftPart(b, len) == IF b.kind = "Item" THEN [b EXCEPT !.len = len] ELSE b

\* split_at, split_block, materialize: a block begins at the clock afterwards
SplitAt(blocks, clock) ==
  LET i == FindIndex(blocks, clock)
      b == blocks[i]
      left == LeftPart(b, clock - b.clock)
      right == [b EXCEPT !.clock = clock, !.len = @ - (clock - b.clock)]
  IN IF b.clock = clock THEN blocks
     ELSE InsertAt(ReplaceAt(blocks, i, left), i + 1, right)

\* where split_at returns that this block is
SplitIndex(blocks, clock) ==
  LET i == FindIndex(blocks, clock) IN IF blocks[i].clock = clock THEN i ELSE i + 1

----------------------------------------------------------------------------
(***************************************************************************)
(* An update arrives: the runs of known units in it become Skips.          *)
(***************************************************************************)
\* the runs of consecutive numbers in S, in ascending order
Runs(S) ==
  LET starts == SetToSortSeq({k \in S : k - 1 \notin S}, <)
  IN [i \in DOMAIN starts |->
        [start |-> starts[i], end |-> 1 + Min({k \in S : k >= starts[i] /\ k + 1 \notin S})]]

\* one known range is cut out of the blocks of an update of first..last - 1
ExcludeRange(q, range, first, last) ==
  LET cutLeft == range.start > first
      cutRight == range.end < last
      q1 == IF cutLeft THEN SplitAt(q, range.start) ELSE q
      from == IF cutLeft THEN SplitIndex(q, range.start) ELSE 1
      q2 == IF cutRight THEN SplitAt(q1, range.end) ELSE q1
      to == IF cutRight THEN SplitIndex(q1, range.end) ELSE Len(q1) + 1
  IN IF range.start >= last \/ range.end <= first THEN q
     ELSE IF from >= to THEN q2
     ELSE SubSeq(q2, 1, from - 1)
            \o <<MkBlock("Skip", range.start, range.end - range.start)>>
            \o SubSeq(q2, to, Len(q2))

Exclude(q) ==
  FoldLeft(LAMBDA blocks, range :
             ExcludeRange(blocks, range, Head(q).clock, NextClock(Last(q))),
           q, Runs(Known))

\* a sequence of blocks that begin at the clocks in DOMAIN kind and end before `end`
BlocksOf(kind, end) ==
  LET starts == SetToSortSeq(DOMAIN kind \cup {end}, <)
  IN [i \in 1..(Len(starts) - 1) |->
        MkBlock(kind[starts[i]], starts[i], starts[i + 1] - starts[i])]

\* whatever a peer may have made of the units: an Item of several units is a typed run
Tilings(from, end) ==
  {BlocksOf(kind, end) :
     kind \in UNION {[{from} \cup cuts -> Kinds] : cuts \in SUBSET ((from + 1)..(end - 1))}}
Updates ==
  {u \in UNION {UNION {Tilings(from, end) : end \in (from + 1)..MaxClock} : from \in Clocks} :
    \A i \in DOMAIN u :
      /\ u[i].kind = "Item" => RangeOf(u[i]) \ {u[i].clock} \subseteq Typed
      /\ u[i].kind = "Skip" /\ i > 1 => u[i - 1].kind # "Skip"}

Overruns(u) ==
  \E i \in DOMAIN u : u[i].kind = "GC" /\
    \E j, k \in RangeOf(u[i]) : j < k /\ j \notin Known /\ k \in Known

Receive ==
  /\ queue = <<>>
  /\ \E u \in Updates :
       /\ ~GcOverruns => ~Overruns(u)
       /\ queue' = Exclude(u)
  /\ localClock' = NoClock
  /\ UNCHANGED <<list, skips, apart, txn, ghost>>

----------------------------------------------------------------------------
(***************************************************************************)
(* The loop of Update::integrate over what is left.                        *)
(***************************************************************************)
PassSkip ==
  /\ queue # <<>> /\ Head(queue).kind = "Skip"
  /\ queue' = Tail(queue)
  /\ UNCHANGED <<list, skips, localClock, apart, txn, ghost>>

\* something the block depends on is missing: it and the rest become pending
Park ==
  /\ queue # <<>> /\ Head(queue).kind = "Item"
  /\ queue' = <<>>
  /\ UNCHANGED <<list, skips, localClock, apart, txn, ghost>>

\* mutated Push: the rest of the Skip on the right is forgotten
PushDropsRest(blocks, b) ==
  IF blocks = <<>> \/ NextClock(Last(blocks)) = b.clock THEN Append(blocks, b)
  ELSE LET i == FindIndex(blocks, b.clock)
           before == b.clock - blocks[i].clock
       IN SubSeq(blocks, 1, i - 1)
            \o (IF before > 0 THEN <<MkBlock("Skip", blocks[i].clock, before)>> ELSE <<>>)
            \o <<b>> \o SubSeq(blocks, i + 1, Len(blocks))

\* BlockStore::push: at the end, or in the place of the Skip that owns its clock
Push(blocks, b) ==
  IF blocks = <<>> \/ NextClock(Last(blocks)) = b.clock THEN Append(blocks, b)
  ELSE LET i == FindIndex(blocks, b.clock)
           before == b.clock - blocks[i].clock
           after == (NextClock(blocks[i]) - NextClock(b)) % Wrap
       IN SubSeq(blocks, 1, i - 1)
            \o (IF before > 0 THEN <<MkBlock("Skip", blocks[i].clock, before)>> ELSE <<>>)
            \o <<b>>
            \o (IF after > 0 THEN <<MkBlock("Skip", NextClock(b), after)>> ELSE <<>>)
            \o SubSeq(blocks, i + 1, Len(blocks))

SkipsAfter(b, clock) == (skips \cup clock..(b.clock - 1)) \ RangeOf(b)

IsItem(clock) == clock \in UnitsOf(list, {"Item"})

\* what becomes of an integrated block: an Item stays, or is deleted at once because
\* its parent is or its content was, or is turned into a GC for want of a parent, which
\* for a typed unit is that of its origin
Fates(b) ==
  LET deleted == [b EXCEPT !.deleted = TRUE]
      orphan == [deleted EXCEPT !.kind = "GC"]
  IN IF b.kind # "Item" THEN {b}
     ELSE IF b.clock \notin Typed THEN {b, deleted, orphan}
     ELSE IF IsItem(b.clock - 1) THEN {b, deleted} ELSE {orphan}

Integrate ==
  /\ queue # <<>> /\ Head(queue).kind # "Skip"
  /\ LET b == Head(queue)
         clock == IF localClock = NoClock THEN GetClock ELSE localClock
         gap == IF clock < b.clock
                THEN Push(list, MkBlock("Skip", clock, b.clock - clock)) ELSE list
     IN /\ b.kind = "Item" /\ b.clock \in Typed => b.clock - 1 \in Known
        /\ \E fate \in Fates(b) :
             /\ list' = Push(gap, fate)
             /\ inserted' = inserted \cup RangeOf(b)
             /\ removed' = IF fate.deleted THEN removed \cup RangeOf(b) ELSE removed
             /\ known' = known \cup RangeOf(b)
             /\ dead' = IF fate.deleted THEN dead \cup RangeOf(b) ELSE dead
        /\ skips' = SkipsAfter(b, clock)
        /\ localClock' = Max({clock, NextClock(b)})
        \* others may have inserted between the block and its origin before
        /\ apart' \in {apart, apart \cup ({b.clock} \cap Typed)}
  /\ queue' = Tail(queue)
  /\ UNCHANGED mergeBlocks

----------------------------------------------------------------------------
(***************************************************************************)
(* Changes to what is there.                                               *)
(***************************************************************************)
Starts(blocks) == {blocks[i].clock : i \in DOMAIN blocks}
LiveAt(blocks, clock) ==
  \E i \in DOMAIN blocks :
    blocks[i].kind = "Item" /\ ~blocks[i].deleted /\ clock \in RangeOf(blocks[i])

\* another item has origin clock - 1: its neighbours are materialized, which splits
\* the block between them, and it is linked there, or farther on if it conflicts
Insertion ==
  /\ \E clock \in Typed :
       /\ IsItem(clock - 1) /\ IsItem(clock)
       /\ list' = SplitAt(list, clock)
       /\ apart' \in {apart, apart \cup {clock}}
  /\ UNCHANGED <<skips, queue, localClock, txn, ghost>>

\* apply_delete of one range: the Items at both ends are split, and what splits off is
\* noted in merge_blocks; a local delete splits, too, and notes nothing
Delete ==
  /\ queue = <<>>
  /\ \E start, end \in 0..MaxClock :
       LET splitStart == start > 0 /\ LiveAt(list, start)
           list1 == IF splitStart THEN SplitAt(list, start) ELSE list
           splitEnd == LiveAt(list1, end - 1) /\ LiveAt(list1, end)
           list2 == IF splitEnd THEN SplitAt(list1, end) ELSE list1
           hit == {k \in start..(end - 1) : LiveAt(list, k)}
       IN /\ hit # {}
          /\ list' = [i \in DOMAIN list2 |->
                        IF list2[i].kind = "Item" /\ list2[i].clock \in start..(end - 1)
                        THEN [list2[i] EXCEPT !.deleted = TRUE] ELSE list2[i]]
          /\ mergeBlocks' \in {mergeBlocks, mergeBlocks \cup (Starts(list2) \ Starts(list))}
          /\ removed' = removed \cup hit
          /\ dead' = dead \cup hit
          /\ UNCHANGED <<skips, queue, localClock, apart, inserted, known>>

----------------------------------------------------------------------------
(***************************************************************************)
(* The commit: collect, then squash in three passes.  A pass is the set of *)
(* the indices of the blocks it merges into their left neighbours.         *)
(***************************************************************************)
\* mutated Squashable: does not ask whether the two are neighbours in the text, too
SquashableByClock(a, b) ==
  /\ a.kind = b.kind /\ a.deleted = b.deleted
  /\ a.kind = "Item" => a.clock + a.len = b.clock /\ b.clock \in Typed

\* mutated Squashable: does not ask whether both are deleted or neither is
SquashableMixed(a, b) ==
  /\ a.kind = b.kind
  /\ a.kind = "Item" => a.clock + a.len = b.clock /\ b.clock \in Typed \ apart

\* try_squash.  `Typed \ apart`: b's origin is the last unit of a, and b is right of it
Squashable(a, b) ==
  /\ a.kind = b.kind /\ a.deleted = b.deleted
  /\ a.kind = "Item" => a.clock + a.len = b.clock /\ b.clock \in Typed \ apart

\* every block from one of `from` on to the one before `to` merges into its left neighbour
Chain(blocks, from, to) ==
  \A i \in from..to : Squashable(blocks[i - 1], blocks[i])

Squash(blocks, merged) ==
  LET keep == SetToSortSeq(DOMAIN blocks \ merged, <)
      end(n) == IF n = Len(keep) THEN Len(blocks) ELSE keep[n + 1] - 1
  IN [n \in DOMAIN keep |->
        [blocks[keep[n]] EXCEPT !.len = LastClock(blocks[end(n)]) + 1 - blocks[keep[n]].clock]]

\* GCCollector: the units of a text that was deleted as a whole are marked together
Markings ==
  LET deleted == {i \in DOMAIN list : list[i].kind = "Item" /\ list[i].deleted}
      oneText(i) == i > 1 /\ list[i].clock \in Typed /\ list[i - 1].kind = "Item"
  IN {marked \in SUBSET deleted :
        \A i \in DOMAIN list : oneText(i) => (i \in marked <=> i - 1 \in marked)}

Collect(marked) ==
  [i \in DOMAIN list |-> IF i \in marked THEN [list[i] EXCEPT !.kind = "GC"] ELSE list[i]]

\* delete_set.try_squash_with: the deleted ranges and the block right of each
Compacted(blocks) ==
  {i \in DOMAIN blocks \ {1} :
    /\ blocks[i].kind # "Skip" /\ Squashable(blocks[i - 1], blocks[i])
    /\ \E n \in DOMAIN Runs(removed) : LET range == Runs(removed)[n] IN
         /\ blocks[i].clock >= range.start
         /\ i <= FindIndex(blocks, range.end - 1) + 1}

\* squash_left from the end down to the first inserted block, and on while it merges
InsertedMerged(blocks) ==
  LET first == Max({2, FindIndex(blocks, Min(inserted))})
  IN {i \in DOMAIN blocks \ {1} :
        Squashable(blocks[i - 1], blocks[i]) /\ Chain(blocks, i + 1, first)}

\* squash_left of the block after the noted one, or of that one when it is the last
NotedMerged(blocks, clock) ==
  LET pos == FindIndex(blocks, clock)
      to == IF pos < Len(blocks) THEN pos + 1 ELSE pos
  IN {i \in 2..to : Chain(blocks, i, to)}

Commit ==
  /\ queue = <<>>
  /\ \E marked \in Markings :
       LET collected == Collect(marked)
           compacted == Squash(collected, Compacted(collected))
           merged == IF inserted = {} THEN compacted
                     ELSE Squash(compacted, InsertedMerged(compacted))
       IN list' = FoldSet(LAMBDA clock, blocks : Squash(blocks, NotedMerged(blocks, clock)),
                          merged, mergeBlocks)
  /\ inserted' = {} /\ removed' = {} /\ mergeBlocks' = {}
  /\ UNCHANGED <<skips, queue, localClock, apart, ghost>>

Next ==
  \/ Receive \/ PassSkip \/ Park \/ Integrate
  \/ Insertion \/ Delete \/ Commit

Spec == Init /\ [][Next]_vars

----------------------------------------------------------------------------
(***************************************************************************)
(* Properties.                                                             *)
(***************************************************************************)
TypeOK ==
  /\ list \in Seq(Block) /\ queue \in Seq(Block)
  /\ \A i \in DOMAIN list :
       /\ list[i].kind = "GC" => list[i].deleted
       /\ list[i].kind = "Skip" => ~list[i].deleted
  /\ skips \subseteq Clocks /\ apart \subseteq Typed
  /\ localClock \in {NoClock} \cup 0..MaxClock
  /\ inserted \subseteq Clocks /\ removed \subseteq Clocks
  /\ mergeBlocks \subseteq Clocks
  /\ known \subseteq Clocks /\ dead \subseteq Clocks

\* push, split, squash and collect keep the list what every reader of it takes it for:
\* blocks of one client from clock 0 on, each beginning where the one before it ends.
Tiled ==
  \A i \in DOMAIN list :
    list[i].clock = IF i = 1 THEN 0 ELSE LastClock(list[i - 1]) + 1

\* BlockStore.skips and the Skip blocks of the list are kept by different code, and
\* is_missing reads the one, push the other: they tell the same holes.
SkipsMatch == skips = UnitsOf(list, {"Skip"})

\* Every unit that was ever integrated is in the store, deleted if and only if it was
\* deleted: whatever overlap an update has with what is known, however it is cut,
\* split, collected and squashed, no unit is dropped, revived or deleted with others.
NothingForgotten ==
  /\ known = UnitsOf(list, {"Item", "GC"})
  /\ dead = UNION {RangeOf(list[i]) : i \in {j \in DOMAIN list : list[j].deleted}}

\* find_index finds the block that owns a clock wherever its first guess starts, and
\* None just for clocks past the end.
FindsOwner ==
  list # <<>> =>
    \A clock \in Clocks :
      LET i == FindIndex(list, clock)
      IN IF clock >= GetClock THEN i = 0
         ELSE i \in DOMAIN list /\ clock \in RangeOf(list[i])

\* What exclude leaves of an update fits the store until it is pushed: a block ends up
\* past the end of the list or within one of its Skips, which push does not check.
FitsHole ==
  \A n \in DOMAIN queue : queue[n].kind # "Skip" =>
    \/ queue[n].clock >= GetClock
    \/ \E i \in DOMAIN list : list[i].kind = "Skip" /\ RangeOf(queue[n]) \subseteq RangeOf(list[i])

\* An Item block is one run of text: whenever something was inserted inside it, it has
\* been split there, and no pass of the commit squashes the two parts again.
OneRunPerItem ==
  \A i \in DOMAIN list : list[i].kind = "Item" =>
    RangeOf(list[i]) \ {list[i].clock} \subseteq Typed \ apart

\* What push, splits and the commit leave, the Skips in both places included, and what
\* exclude gives to push, fit together.
WellFormed == TypeOK /\ Tiled /\ SkipsMatch /\ FitsHole

\* The state vector claims no more than what is there: all units below its clock are in
\* the store, so a peer that sends from that clock on leaves no hole.
StateVectorIsPrefix ==
  /\ 0..(GetStateVector - 1) \subseteq known
  /\ GetStateVector \notin known

\* "Updates are allowed to contain duplicate blocks (already presen in current document
\* store) - these will be ignored" (apply_update): no unit is in two blocks.
DuplicatesIgnored ==
  \A i, j \in DOMAIN list : i # j => RangeOf(list[i]) \cap RangeOf(list[j]) = {}
=============================================================================
