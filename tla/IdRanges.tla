------------------------------ MODULE IdRanges ------------------------------
(***************************************************************************)
(* The clock ranges of one client in an IdSet or an IdMap: a sorted list   *)
(* of ranges with a value each, on which delete sets, insert sets and      *)
(* attributions are kept.  In an IdMap a value is a set of attributes and  *)
(* merging two of them is their union; in an IdSet there is one value, the *)
(* empty set.                                                              *)
(*                                                                         *)
(* A range is half open: from <= clock < to.  A client without ranges has  *)
(* no entry in the map, which is the empty list here.                      *)
(***************************************************************************)
EXTENDS Integers, FiniteSets, SequencesExt

CONSTANTS
  Maps,     \* the sets or maps that are worked on
  MaxClock, \* bound: ranges end at it
  Attrs     \* the attributes of an IdMap; none for an IdSet

ASSUME BoundAssumption == MaxClock \in Nat

Values == IF Attrs = {} THEN {{}} ELSE SUBSET Attrs \ {{}}
Clocks == 0..(MaxClock - 1)
Spans == {s \in [from : 0..MaxClock, to : 0..MaxClock] : s.from <= s.to}

VARIABLES
  ranges,  \* the ranges of each map
  meaning  \* ghost: at which clocks it has a value, and which

vars == <<ranges, meaning>>

Least(a, b) == IF a < b THEN a ELSE b
Greatest(a, b) == IF a > b THEN a ELSE b
Entry(from, to, value) == [from |-> from, to |-> to, value |-> value]

Init ==
  /\ ranges = [m \in Maps |-> <<>>]
  /\ meaning = [m \in Maps |-> {}]

----------------------------------------------------------------------------
(***************************************************************************)
(* The algorithms.                                                         *)
(***************************************************************************)
\* mutated Push: two entries that touch stay apart
PushApart(list, e) ==
  IF e.from >= e.to THEN list
  ELSE IF list # <<>> /\ Last(list).to > e.from /\ Last(list).value = e.value
  THEN [list EXCEPT ![Len(list)].to = Greatest(@, e.to)]
  ELSE Append(list, e)

\* push_coalesced
Push(list, e) ==
  IF e.from >= e.to THEN list
  ELSE IF list # <<>> /\ Last(list).to >= e.from /\ Last(list).value = e.value
  THEN [list EXCEPT ![Len(list)].to = Greatest(@, e.to)]
  ELSE Append(list, e)

\* partition_point: how many entries at the beginning of a sorted list satisfy a test
CountPrefix(list, Test(_)) ==
  CHOOSE n \in 0..Len(list) :
    /\ \A i \in 1..n : Test(list[i])
    /\ n < Len(list) => ~Test(list[n + 1])

\* entries i and i + 1 become one if they touch and have equal values
JoinAt(list, i) ==
  IF /\ i > 0 /\ i < Len(list)
     /\ list[i].to >= list[i + 1].from /\ list[i].value = list[i + 1].value
  THEN RemoveAt([list EXCEPT ![i].to = Greatest(@, list[i + 1].to)], i + 1)
  ELSE list

\* the entries that a new one e overlaps or touches, cut at its ends, with what it adds
Overlaid(list, e) ==
  LET Step(m, old) ==
        LET gap == Entry(m.cursor, Least(old.from, e.to), e.value)
            before == Entry(old.from, e.from, old.value)
            both == Entry(Greatest(old.from, e.from), Least(old.to, e.to), old.value \cup e.value)
            after == Entry(e.to, old.to, old.value)
            first == IF m.cursor >= e.from THEN <<gap, before, both, after>>
                                           ELSE <<before, both, after>>
        IN [cursor |-> old.to, out |-> FoldLeft(Push, m.out, first)]
      all == FoldLeft(Step, [cursor |-> Least(list[1].from, e.from), out |-> <<>>], list)
  IN Push(all.out, Entry(all.cursor, e.to, e.value))

InsertWith(list, e) ==
  LET n == Len(list)
      begin == CountPrefix(list, LAMBDA x : x.from < e.from)
      lo == IF begin > 0 /\ list[begin].to >= e.from THEN begin - 1 ELSE begin
      hi == lo + CountPrefix(SubSeq(list, lo + 1, n), LAMBDA x : x.from <= e.to)
      middle == IF lo = hi THEN <<e>> ELSE Overlaid(SubSeq(list, lo + 1, hi), e)
      atTail == n > 0 /\ e.from >= list[n].from
  IN CASE e.from >= e.to -> list
       [] e.from < e.to /\ atTail /\ e.from > list[n].to -> Append(list, e)
       [] e.from < e.to /\ atTail /\ e.from <= list[n].to /\ list[n].value = e.value ->
            [list EXCEPT ![n].to = Greatest(@, e.to)]
       [] e.from < e.to /\ atTail /\ e.from = list[n].to /\ list[n].value # e.value -> Append(list, e)
       [] OTHER ->
            JoinAt(JoinAt(SubSeq(list, 1, lo) \o middle \o SubSeq(list, hi + 1, n),
                          lo + Len(middle)), lo)

RemoveRange(list, s) ==
  LET i == 1 + CountPrefix(list, LAMBDA x : x.to <= s.from)
      cut == list[i].from < s.from
      left == IF cut THEN <<[list[i] EXCEPT !.to = s.from]>> ELSE <<>>
      right == IF cut /\ list[i].to > s.to THEN <<[list[i] EXCEPT !.from = s.to]>> ELSE <<>>
      after == SubSeq(list, IF cut THEN i + 1 ELSE i, Len(list))
      covered == CountPrefix(after, LAMBDA x : x.to <= s.to)
      rest == SubSeq(after, covered + 1, Len(after))
  IN IF s.from >= s.to \/ i > Len(list) THEN list
     ELSE SubSeq(list, 1, i - 1) \o left \o right
          \o (IF rest # <<>> /\ rest[1].from < s.to THEN [rest EXCEPT ![1].from = s.to] ELSE rest)

\* merge: the heads of both lists, cut where they were consumed up to
MergeStep(m) ==
  LET a == Head(m.a)
      b == Head(m.b)
      from == Greatest(a.from, b.from)
      to == Least(a.to, b.to)
      Rest(list) == IF Head(list).to <= to THEN Tail(list) ELSE [list EXCEPT ![1].from = to]
  IN CASE m.a = <<>> \/ m.b = <<>> -> [a |-> <<>>, b |-> <<>>, out |-> FoldLeft(Push, m.out, m.a \o m.b)]
       [] m.a # <<>> /\ m.b # <<>> /\ a.to <= b.from -> [m EXCEPT !.a = Tail(@), !.out = Push(@, a)]
       [] m.a # <<>> /\ m.b # <<>> /\ b.to <= a.from -> [m EXCEPT !.b = Tail(@), !.out = Push(@, b)]
       [] OTHER ->
            [a |-> Rest(m.a), b |-> Rest(m.b),
             out |-> Push(Push(m.out, Entry(Least(a.from, b.from), from,
                                            IF a.from < b.from THEN a.value ELSE b.value)),
                          Entry(from, to, a.value \cup b.value))]

Merge(a, b) ==
  IF b = <<>> THEN a ELSE IF a = <<>> THEN b
  ELSE FoldLeft(LAMBDA m, k : MergeStep(m), [a |-> a, b |-> b, out |-> <<>>],
                [k \in 1..(Len(a) + Len(b)) |-> k]).out

\* mutated Stop: goes on behind the range at which the entry ends
StopBehind(other, at, e) ==
  at + CountPrefix(SubSeq(other, at, Len(other)), LAMBDA x : x.from < e.to)

\* exclude and intersect walk both lists: for the entry e of one, they begin at index `at`
\* of the other and end at the first that reaches the end of e or beyond
Begin(other, at, e) == at + CountPrefix(SubSeq(other, at, Len(other)), LAMBDA x : x.to <= e.from)
Stop(other, at, e) == at + CountPrefix(SubSeq(other, at, Len(other)), LAMBDA x : x.to < e.to)
Met(other, at, e) ==
  SelectSeq(SubSeq(other, at, Least(Stop(other, at, e), Len(other))), LAMBDA x : x.from < e.to)

Exclude(list, other) ==
  LET Piece(from, to, value) == IF from < to THEN <<Entry(from, to, value)>> ELSE <<>>
      Step(m, e) ==
        LET at == Begin(other, m.at, e)
            Cut(c, x) == [start |-> Greatest(c.start, x.to),
                          out |-> c.out \o Piece(c.start, x.from, e.value)]
            cut == FoldLeft(Cut, [start |-> e.from, out |-> m.out], Met(other, at, e))
        IN [at |-> Stop(other, at, e), out |-> cut.out \o Piece(cut.start, e.to, e.value)]
  IN IF other = <<>> THEN list
     ELSE FoldLeft(Step, [at |-> 1, out |-> <<>>], list).out

Intersect(list, other) ==
  LET Step(m, e) ==
        LET at == Begin(other, m.at, e)
            both(x) == Entry(Greatest(e.from, x.from), Least(e.to, x.to), e.value \cup x.value)
        IN [at |-> Stop(other, at, e),
            out |-> FoldLeft(LAMBDA out, x : Push(out, both(x)), m.out, Met(other, at, e))]
  IN IF other = <<>> THEN <<>>
     ELSE FoldLeft(Step, [at |-> 1, out |-> <<>>], list).out

----------------------------------------------------------------------------
(***************************************************************************)
(* Reading.                                                                *)
(***************************************************************************)
\* contains_clock
ContainsClock(list, clock) ==
  LET i == CountPrefix(list, LAMBDA x : x.from <= clock) IN i > 0 /\ list[i].to > clock

\* mutated FindStart: stops at a range that ends where the clock is
FindStartBefore(list, clock) == 1 + CountPrefix(list, LAMBDA x : x.to < clock)

\* find_start: the first entry that has the clock or lies behind it
FindStart(list, clock) == 1 + CountPrefix(list, LAMBDA x : x.to <= clock)

\* attributions: a range cut into pieces with the attributes of each
Attributions(list, s) ==
  LET first == FindStart(list, s.from)
      hit == SubSeq(list, first, first - 1 + CountPrefix(SubSeq(list, first, Len(list)),
               LAMBDA x : Greatest(x.from, s.from) < Least(x.to, s.to)))
      Step(m, x) ==
        LET from == Greatest(x.from, s.from)
            to == Least(x.to, s.to)
            gap == IF m.end < from THEN <<Entry(m.end, from, {})>> ELSE <<>>
        IN [end |-> to, out |-> m.out \o gap \o <<Entry(from, to, x.value)>>]
      all == FoldLeft(Step, [end |-> s.from, out |-> <<>>], hit)
  IN IF all.out = <<>> THEN <<Entry(s.from, s.to, {})>>
     ELSE all.out \o (IF all.end < s.to THEN <<Entry(all.end, s.to, {})>> ELSE <<>>)

\* as_id_set: the ranges without their values
AsIdSet(list) == FoldLeft(LAMBDA out, x : InsertWith(out, Entry(x.from, x.to, {})), <<>>, list)

\* subset_of, of two sets
SubsetOf(list, other) ==
  LET Covered(s) ==
        LET Step(current, x) ==
              IF x.to <= current \/ x.from > current THEN current ELSE x.to
        IN FoldLeft(Step, s.from, other) >= s.to
  IN \A i \in DOMAIN list : Covered(list[i])

----------------------------------------------------------------------------
(***************************************************************************)
(* The operations of IdMapInner on the ranges of a client.                 *)
(***************************************************************************)
At(c, pairs) == UNION {p[2] : p \in {q \in pairs : q[1] = c}}
ClocksOf(pairs) == {p[1] : p \in pairs}
Within(s) == s.from..(s.to - 1)

\* a set of clocks, each with the union of its values in two meanings
Union(a, b) == {<<c, At(c, a) \cup At(c, b)>> : c \in ClocksOf(a) \cup ClocksOf(b)}

Insert(m, s, value) ==
  /\ ranges' = [ranges EXCEPT ![m] = InsertWith(@, Entry(s.from, s.to, value))]
  /\ meaning' = [meaning EXCEPT ![m] = Union(@, {<<c, value>> : c \in Within(s)})]

Delete(m, s) ==
  /\ ranges' = [ranges EXCEPT ![m] = RemoveRange(@, s)]
  /\ meaning' = [meaning EXCEPT ![m] = {p \in @ : p[1] \notin Within(s)}]

MergeWith(m, o) ==
  /\ ranges' = [ranges EXCEPT ![m] = Merge(@, ranges[o])]
  /\ meaning' = [meaning EXCEPT ![m] = Union(@, meaning[o])]

DiffWith(m, o) ==
  /\ ranges' = [ranges EXCEPT ![m] = Exclude(@, ranges[o])]
  /\ meaning' = [meaning EXCEPT ![m] = {p \in @ : p[1] \notin ClocksOf(meaning[o])}]

IntersectWith(m, o) ==
  /\ ranges' = [ranges EXCEPT ![m] = Intersect(@, ranges[o])]
  /\ meaning' = [meaning EXCEPT ![m] =
       {p \in Union(@, meaning[o]) : p[1] \in ClocksOf(@) \cap ClocksOf(meaning[o])}]

\* IdMap::filter by a predicate on values
Filter(m, values) ==
  /\ ranges' = [ranges EXCEPT ![m] = SelectSeq(@, LAMBDA x : x.value \in values)]
  /\ meaning' = [meaning EXCEPT ![m] = {p \in @ : p[2] \in values}]

Next ==
  \E m \in Maps :
    \/ \E s \in Spans : \E value \in Values : Insert(m, s, value)
    \/ \E s \in Spans : Delete(m, s)
    \/ \E o \in Maps : MergeWith(m, o) \/ DiffWith(m, o) \/ IntersectWith(m, o)
    \/ \E values \in SUBSET Values : Filter(m, values)

Spec == Init /\ [][Next]_vars

----------------------------------------------------------------------------
PairsOf(list) == UNION {{<<c, e.value>> : c \in Within(e)} : e \in Range(list)}

\* "Ranges are maintained sorted by start position; overlapping or adjacent ranges with equal
\* values are coalesced" (IdRanges): the form the searches rely on, and equality and hashing
\* of two sets, which compare the lists.
Canonical ==
  \A m \in Maps :
    /\ ranges[m] \in Seq([from : Clocks, to : 1..MaxClock, value : Values])
    /\ \A i \in DOMAIN ranges[m] : ranges[m][i].from < ranges[m][i].to
    /\ \A i \in 1..(Len(ranges[m]) - 1) :
         LET x == ranges[m][i]
             y == ranges[m][i + 1]
         IN x.to < y.from \/ (x.to = y.from /\ x.value # y.value)

\* Every operation on the lists does to the clocks and their values what its name says.
SameAsSets == \A m \in Maps : PairsOf(ranges[m]) = meaning[m]

\* Attributions cut a range into pieces that tile it, each with the attributes its clocks
\* have, and the other readers tell which clocks are in the map.
ReadsTell ==
  \A m \in Maps :
    /\ \A c \in Clocks : ContainsClock(ranges[m], c) <=> c \in ClocksOf(meaning[m])
    /\ LET set == AsIdSet(ranges[m])
       IN /\ ClocksOf(PairsOf(set)) = ClocksOf(meaning[m])
          /\ \A i \in 1..(Len(set) - 1) : set[i].to < set[i + 1].from
          /\ \A o \in Maps : SubsetOf(set, AsIdSet(ranges[o])) <=>
                              ClocksOf(meaning[m]) \subseteq ClocksOf(meaning[o])
    /\ \A s \in {t \in Spans : t.from < t.to} :
         LET pieces == Attributions(ranges[m], s)
         IN /\ pieces[1].from = s.from /\ Last(pieces).to = s.to
            /\ \A i \in 1..(Len(pieces) - 1) : pieces[i].to = pieces[i + 1].from
            /\ \A i \in DOMAIN pieces : \A c \in Within(pieces[i]) :
                 pieces[i].value = At(c, meaning[m])
=============================================================================
