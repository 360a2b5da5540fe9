--------------------------- MODULE MCUpdateMerge ----------------------------
(***************************************************************************)
(* An update of up to three clocks of one client and one of another, one   *)
(* of at most two blocks of these, and one of a single block.              *)
(***************************************************************************)
EXTENDS UpdateMerge

Sizes == <<3, 1>>  \* bound: Sizes[c] clocks of client c

\* the blocks of one client in an update, Skips left out
BlocksOf(client) ==
  LET n == Sizes[client]
      from[k \in 0..n] ==
        IF k = n THEN {<<>>}
        ELSE from[k + 1] \cup
               UNION {{<<MkBlock(client, k, len, kind)>> \o rest : rest \in from[k + len]} :
                        <<len, kind>> \in (1..(n - k)) \X {"item", "gc"}}
  IN from[0]

AllUpdates ==
  LET upTo[c \in 0..Len(Sizes)] ==
        IF c = 0 THEN {<<>>}
        ELSE {mine \o rest : <<mine, rest>> \in BlocksOf(c) \X upTo[c - 1]}
  IN upTo[Len(Sizes)]

MCClients == DOMAIN Sizes
MCDecoders == 1..3

\* bound: an update of any blocks, one of at most two and one of at most one
MCUpdates ==
  LET upTo(n) == {blocks \in AllUpdates : Len(blocks) <= n}
  IN AllUpdates \X upTo(2) \X upTo(1)
=============================================================================
