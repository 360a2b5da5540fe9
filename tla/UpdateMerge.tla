---------------------------- MODULE UpdateMerge -----------------------------
(***************************************************************************)
(* Update::merge_updates, which the functions of `alt` and the pending     *)
(* update are built on, and what is made of its result: encode_diff and    *)
(* state_vector.                                                           *)
(*                                                                         *)
(* The blocks of the updates are read by one decoder each, higher clients  *)
(* first.  A block in hand is held back until the next one shows whether   *)
(* they overlap, touch, or leave a hole that a Skip must fill.  On the     *)
(* wire only the first block of a client has a clock, so a result that is  *)
(* not gapless is read as something else.                                  *)
(***************************************************************************)
EXTENDS Integers, FiniteSets, SequencesExt

CONSTANTS
  Clients,   \* client ids
  Decoders,  \* one for each update
  Updates    \* what the updates may be, by the decoder that reads each

VARIABLES
  decoders, \* what each decoder has not handed out, its current block first
  written,  \* curr_write, or NoBlock
  result,   \* the blocks of each client that are written
  input     \* ghost: the units of all updates

vars == <<decoders, written, result, input>>

MkBlock(client, clock, len, kind) == [client |-> client, clock |-> clock, len |-> len, kind |-> kind]
NoBlock == MkBlock(-1, 0, 0, "none")

End(b) == b.clock + b.len
Blocks == [client : Clients, clock : Nat, len : Nat \ {0}, kind : {"item", "gc"}]
Skips == [client : Clients, clock : Nat, len : Nat \ {0}, kind : {"skip"}]

\* the order in which IntoBlocks hands out the blocks of an update: from the highest client
\* down, those of a client by their clocks; holes between them were Skips, which it leaves out
InOrder(blocks) ==
  \A j, k \in DOMAIN blocks : j < k =>
    \/ blocks[k].client < blocks[j].client
    \/ blocks[k].client = blocks[j].client /\ End(blocks[j]) <= blocks[k].clock

ASSUME ClientsAssumption == Clients \subseteq Nat
ASSUME UpdatesAssumption ==
  \A updates \in Updates :
    updates \in [Decoders -> Seq(Blocks)] /\ \A i \in Decoders : InOrder(updates[i])

UnitsOf(blocks) ==
  UNION {{[client |-> b.client, clock |-> k, kind |-> b.kind] : k \in b.clock..End(b) - 1} : b \in blocks}
Places(units) == {<<u.client, u.clock>> : u \in units}

Init ==
  /\ decoders \in Updates
  /\ written = NoBlock
  /\ result = [c \in Clients |-> <<>>]
  /\ input = UnitsOf(UNION {Range(decoders[i]) : i \in Decoders})

----------------------------------------------------------------------------
Current(i) == Head(decoders[i])

\* retain and sort_by: the decoder of the highest client, then of the lowest clock.  An item
\* and a GC block at one clock are each sorted before the other, in whatever order results
First(i) ==
  /\ decoders[i] # <<>>
  /\ \A j \in Decoders : decoders[j] # <<>> =>
       \/ Current(j).client < Current(i).client
       \/ Current(j).client = Current(i).client /\ Current(j).clock >= Current(i).clock

\* mutated Skimmed: stops at a block that ends where the one in hand ends
SkimmedShort(blocks) ==
  LET stale(b) == End(b) < End(written) /\ b.client >= written.client
      n == CHOOSE n \in 0..Len(blocks) :
             /\ \A j \in 1..n : stale(blocks[j])
             /\ n < Len(blocks) => ~stale(blocks[n + 1])
  IN SubSeq(blocks, n + 1, Len(blocks))

\* what is left when all that has been written already is passed over
Skimmed(blocks) ==
  LET stale(b) == End(b) <= End(written) /\ b.client >= written.client
      n == CHOOSE n \in 0..Len(blocks) :
             /\ \A j \in 1..n : stale(blocks[j])
             /\ n < Len(blocks) => ~stale(blocks[n + 1])
  IN SubSeq(blocks, n + 1, Len(blocks))

\* BlockSet::add_block, for blocks of one client
Add(out, client, blocks) == [out EXCEPT ![client] = @ \o blocks]

\* the end of the loop's body: with w in hand, the blocks that follow it without a gap in
\* the same decoder are taken at once
TakeOn(i, w, blocks, out) ==
  LET run == <<w>> \o blocks
      follows(j) == run[j + 1].client = w.client /\ run[j + 1].clock = End(run[j])
      n == CHOOSE n \in 0..Len(blocks) :
             /\ \A j \in 1..n : follows(j)
             /\ n < Len(blocks) => ~follows(n + 1)
  IN /\ written' = run[n + 1]
     /\ result' = Add(out, w.client, SubSeq(run, 1, n))
     /\ decoders' = [decoders EXCEPT ![i] = SubSeq(run, n + 2, Len(run))]
     /\ UNCHANGED input

TakeFirst(i) ==
  /\ First(i) /\ written = NoBlock
  /\ TakeOn(i, Current(i), Tail(decoders[i]), result)

\* mutated Reorders: goes on with a decoder that may have run ahead of the others
NeverReorders(i) ==
  LET blocks == Skimmed(decoders[i])
  IN blocks # <<>> => Head(blocks).client # Current(i).client

\* the decoder turns out to be at its end, at another client, or, after it was skimmed,
\* beyond the block in hand: another one may have what comes next
Reorders(i) ==
  LET blocks == Skimmed(decoders[i])
  IN blocks # <<>> /\ Head(blocks).client = Current(i).client =>
       blocks # decoders[i] /\ Head(blocks).clock > End(written)

Reorder(i) ==
  /\ First(i) /\ written # NoBlock /\ Reorders(i)
  /\ decoders' = [decoders EXCEPT ![i] = Skimmed(@)]
  /\ UNCHANGED <<written, result, input>>

Writing(i) == First(i) /\ written # NoBlock /\ ~Reorders(i)

NextClient(i) ==
  LET blocks == Skimmed(decoders[i]) IN
  /\ Writing(i)
  /\ Head(blocks).client # written.client
  /\ TakeOn(i, Head(blocks), Tail(blocks), Add(result, written.client, <<written>>))

\* mutated FillGap: the next block is written right away
LeaveGap(i) ==
  LET blocks == Skimmed(decoders[i]) IN
  /\ Writing(i)
  /\ Head(blocks).client = written.client /\ Head(blocks).clock > End(written)
  /\ TakeOn(i, Head(blocks), Tail(blocks), Add(result, written.client, <<written>>))

\* the block in hand is no Skip: one that fills a gap is followed at once
FillGap(i) ==
  LET blocks == Skimmed(decoders[i])
      gap == Head(blocks).clock - End(written)
  IN /\ Writing(i)
     /\ Head(blocks).client = written.client /\ gap > 0
     /\ TakeOn(i, MkBlock(written.client, End(written), gap, "skip"), blocks,
               Add(result, written.client, <<written>>))

\* the next block touches or overlaps the one in hand: what is new of it is appended to that,
\* which only GC blocks allow, or takes its place.  When appended, the decoder stays where
\* it is and skims the block in the next round
Overlap(i) ==
  LET blocks == Skimmed(decoders[i])
      next == Head(blocks)
      diff == End(written) - next.clock
      slice == MkBlock(next.client, End(written), next.len - diff, next.kind)
      squash == written.kind = "gc" /\ next.kind = "gc"
  IN /\ Writing(i)
     /\ next.client = written.client /\ diff >= 0
     /\ IF squash
        THEN TakeOn(i, [written EXCEPT !.len = @ + slice.len], blocks, result)
        ELSE TakeOn(i, slice, Tail(blocks), Add(result, written.client, <<written>>))

Finish ==
  /\ \A i \in Decoders : decoders[i] = <<>>
  /\ written # NoBlock
  /\ result' = Add(result, written.client, <<written>>)
  /\ written' = NoBlock
  /\ UNCHANGED <<decoders, input>>

Next ==
  \/ \E i \in Decoders :
       TakeFirst(i) \/ Reorder(i) \/ NextClient(i) \/ FillGap(i) \/ Overlap(i)
  \/ Finish

Spec == Init /\ [][Next]_vars /\ WF_vars(Next)

----------------------------------------------------------------------------
(***************************************************************************)
(* What is made of the blocks of one client in an update.                  *)
(***************************************************************************)
IsSkip(b) == b.kind = "skip"

\* how a reader finds the blocks: each begins where the one before it ends
Laid(start, blocks) ==
  LET at[j \in DOMAIN blocks] == IF j = 1 THEN start ELSE at[j - 1] + blocks[j - 1].len
  IN [j \in DOMAIN blocks |-> [blocks[j] EXCEPT !.clock = at[j]]]

\* mutated EncodeDiff: begins with the first block that begins at the remote clock
DiffOfWhole(blocks, remote) ==
  LET new == {j \in DOMAIN blocks : ~IsSkip(blocks[j]) /\ blocks[j].clock >= remote}
      j == CHOOSE j \in new : \A h \in new : j <= h
  IN IF new = {} THEN <<>> ELSE Laid(blocks[j].clock, SubSeq(blocks, j, Len(blocks)))

\* Update::encode_diff: from the first block with something past the remote clock on
EncodeDiff(blocks, remote) ==
  LET new == {j \in DOMAIN blocks : ~IsSkip(blocks[j]) /\ End(blocks[j]) > remote}
      j == CHOOSE j \in new : \A h \in new : j <= h
      clock == blocks[j].clock
      offset == IF remote > clock THEN remote - clock ELSE 0
  IN IF new = {} THEN <<>>
     ELSE Laid(clock + offset, [SubSeq(blocks, j, Len(blocks)) EXCEPT ![1].len = @ - offset])

\* Update::state_vector
StateVector(blocks) ==
  LET skips == {j \in DOMAIN blocks : IsSkip(blocks[j])}
      until == IF skips = {} THEN Len(blocks) ELSE (CHOOSE j \in skips : \A h \in skips : j <= h) - 1
  IN IF blocks = <<>> \/ blocks[1].clock # 0 \/ until = 0 THEN 0 ELSE End(blocks[until])

----------------------------------------------------------------------------
Done == written = NoBlock /\ \A i \in Decoders : decoders[i] = <<>>
Units(blocks) == {u \in UnitsOf(Range(blocks)) : u.kind # "skip"}

TypeOK ==
  /\ decoders \in [Decoders -> Seq(Blocks)]
  /\ written \in Blocks \cup {NoBlock}
  /\ result \in [Clients -> Seq(Blocks \cup Skips)]

\* A result is written without clocks but for the first one of each client, so each block
\* must begin where the one before it ends, the Skips included.
Contiguous(blocks) == \A j, k \in DOMAIN blocks : k = j + 1 => blocks[k].clock = End(blocks[j])
Gapless ==
  \A c \in Clients :
    Contiguous(result[c] \o IF written.client = c THEN <<written>> ELSE <<>>)

\* Update::merge_updates always holds blocks that can be written as they are.
Writable == TypeOK /\ Gapless

\* However updates overlap and wherever each of them is cut, the merged update has the units
\* of all of them, each once (by Gapless) and as one of them has it.
AllMerged ==
  Done => LET merged == UNION {Units(result[c]) : c \in Clients}
          IN merged \subseteq input /\ Places(merged) = Places(input)

\* A difference to any state vector, as its reader finds it, has all units of the update
\* at or past the remote clock and none twice or before it.
DiffComplete ==
  Done => \A c \in Clients :
    LET blocks == result[c]
    IN \A remote \in 0..(IF blocks = <<>> THEN 0 ELSE End(blocks[Len(blocks)])) :
         Units(EncodeDiff(blocks, remote)) = {u \in Units(blocks) : u.clock >= remote}

\* The state vector of an update claims no unit that is not there.
StateVectorTrue ==
  Done => \A c \in Clients :
    \A k \in 0..(StateVector(result[c]) - 1) : <<c, k>> \in Places(input)

\* What is read off the bytes of a merged update agrees with its blocks.
EncodersTrue == DiffComplete /\ StateVectorTrue

\* The loop comes to its end: it goes round again without taking a block, and leaves the
\* one it has squashed where it is.
Terminates == <>Done
=============================================================================
