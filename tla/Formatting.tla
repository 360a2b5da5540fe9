----------------------------- MODULE Formatting -----------------------------
(***************************************************************************)
(* The rich text of one document: a list of content and of format marks,   *)
(* each of which says what value an attribute has from there on, and how   *)
(* the calls of Text insert, delete and sweep marks so that everything     *)
(* looks as the caller asked; and the clean-up of marks at the commit of a *)
(* transaction that applied a peer's update.                               *)
(*                                                                         *)
(* Content has length one.  A position is the number of items left of it.  *)
(***************************************************************************)
EXTENDS Integers, FiniteSets, SequencesExt

CONSTANTS
  Keys, Values, \* attributes, and the values they may have besides null
  Deltas,       \* the deltas that are applied: sequences of operations
  MaxItems,     \* bound: items in the list between transactions
  MaxOpen,      \* bound: MaxOpen[n] items after the n-th call of a transaction
  MaxTypes,     \* bound: embedded shared types among them
  MaxRemote     \* bound: items that a peer's update inserts or deletes

Null == "null"

ASSUME ValuesAssumption == Null \notin Values
ASSUME BoundAssumption == MaxOpen \in Seq(Nat) /\ {MaxItems, MaxTypes, MaxRemote} \subseteq Nat

\* FoldLeft, evaluated item by item
FoldItems(op(_, _), base, seq) ==
  LET r[i \in 0..Len(seq)] == IF i = 0 THEN base ELSE op(r[i - 1], seq[i]) IN r[Len(seq)]

VARIABLES
  text,     \* the items in order
  calls,    \* calls of the transaction so far
  expected, \* ghost: what the text should look like after the last call
  observed  \* ghost: what an observer has arrived at with the deltas of its events

vars == <<text, calls, expected, observed>>

Attrs == UNION {[K -> Values \cup {Null}] : K \in SUBSET Keys}
NoAttrs == [k \in Keys |-> Null]

\* a string or an embedded value, or an embedded shared type
Item(kind, k, v) == [kind |-> kind, key |-> k, value |-> v, deleted |-> FALSE,
                     added |-> TRUE,  \* in this transaction
                     dead |-> FALSE]  \* deleted before it
Content(kind) == Item(kind, Null, Null)
Mark(k, v) == Item("mark", k, v)
Kinds == {"string", "type"}
IsMark(x) == x.kind = "mark"
IsContent(x) == ~IsMark(x) /\ ~x.deleted

DeleteAt(items, S) ==
  [i \in DOMAIN items |-> IF i \in S THEN [items[i] EXCEPT !.deleted = TRUE] ELSE items[i]]

\* update_current_attributes
Update(attrs, x) == IF IsMark(x) /\ ~x.deleted THEN [attrs EXCEPT ![x.key] = x.value] ELSE attrs
AttrsAt(items, p) == FoldItems(Update, NoAttrs, SubSeq(items, 1, p))

\* what `diff` reads
Looks(items) ==
  LET seen == FoldItems(LAMBDA r, x :
                [attrs |-> Update(r.attrs, x),
                 out |-> IF IsContent(x) THEN Append(r.out, [kind |-> x.kind, attrs |-> r.attrs])
                         ELSE r.out],
                [attrs |-> NoAttrs, out |-> <<>>], items)
  IN seen.out

Init == text = <<>> /\ calls = 0 /\ expected = <<>> /\ observed = <<>>

----------------------------------------------------------------------------
(***************************************************************************)
(* ItemPosition.                                                           *)
(***************************************************************************)
\* `tracked`: current_attrs is not None
Position(items, p, tracked) ==
  [items |-> items, p |-> p, attrs |-> AttrsAt(items, p), tracked |-> tracked,
   negated |-> <<>>, left |-> 0]

\* right behind the content in front of the index; marks there are not passed
FindPosition(items, index) ==
  LET before(p) == Cardinality({i \in 1..p : IsContent(items[i])})
      p == CHOOSE p \in 0..Len(items) :
             before(p) = index /\ \A q \in 0..(p - 1) : before(q) # index
  IN Position(items, p, AttrsAt(items, p) # NoAttrs)

Forward(pos) ==
  LET x == pos.items[pos.p + 1] IN
  [pos EXCEPT !.p = @ + 1, !.attrs = Update(@, x),
              !.tracked = @ \/ (IsMark(x) /\ ~x.deleted)]

\* goes right as long as Goes, dealing with each item as Meet says
Walk(start, Goes(_, _), Meet(_, _)) ==
  LET step(r, i) ==
        IF r.halted \/ ~Goes(r.pos, r.pos.items[i]) THEN [r EXCEPT !.halted = TRUE]
        ELSE [r EXCEPT !.pos = Forward(Meet(@, @.items[i]))]
      indices == [i \in 1..(Len(start.items) - start.p) |-> start.p + i]
  IN FoldItems(step, [pos |-> start, halted |-> FALSE], indices).pos

Pass(pos, x) == pos
Delete(pos) == [pos EXCEPT !.items = DeleteAt(@, {pos.p + 1})]

\* integrates an item here and goes behind it
Put(pos, x) == Forward([pos EXCEPT !.items = InsertAt(@, pos.p + 1, x)])

----------------------------------------------------------------------------
(***************************************************************************)
(* Formatting and inserting.                                               *)
(***************************************************************************)
Without(negated, k) == [j \in DOMAIN negated \ {k} |-> negated[j]]

MinimizeAttrChanges(pos, attrs) ==
  LET passes(r, x) ==
        x.deleted \/ (IsMark(x) /\ x.key \in DOMAIN attrs /\ attrs[x.key] = x.value)
  IN Walk(pos, passes, Pass)

\* remembers in `negated` what to go back to
InsertAttributes(pos, attrs) ==
  FoldSet(LAMBDA k, r :
            IF attrs[k] = r.attrs[k] THEN r
            ELSE Put([r EXCEPT !.negated = (k :> r.attrs[k]) @@ @], Mark(k, attrs[k])),
          [pos EXCEPT !.negated = <<>>], DOMAIN attrs)

InsertNegatedAttributes(pos) ==
  LET restores(r, x) ==
        IsMark(x) /\ ~x.deleted /\ x.key \in DOMAIN r.negated /\ r.negated[x.key] = x.value
      passes(r, x) == x.deleted \/ restores(r, x)
      meet(r, x) == IF restores(r, x) THEN [r EXCEPT !.negated = Without(@, x.key)] ELSE r
      there == Walk(pos, passes, meet)
  IN FoldSet(LAMBDA k, r : Put(r, Mark(k, there.negated[k])), there, DOMAIN there.negated)

\* mutated MeetMark: what the mark would have set is not remembered
MeetMarkForgets(pos, x, attrs) ==
  Delete([pos EXCEPT !.negated = IF attrs[x.key] = x.value THEN Without(@, x.key) ELSE @])

\* a mark in the range goes; behind the range it counts again
MeetMark(pos, x, attrs) ==
  LET v == attrs[x.key] IN
  Delete([pos EXCEPT !.negated = IF v = x.value THEN Without(@, x.key)
                                 ELSE (x.key :> x.value) @@ @])

InsertFormat(pos, len, attrs) ==
  LET goes(r, x) == r.left > 0 \/ (DOMAIN r.negated # {} /\ (x.deleted \/ IsMark(x)))
      meet(r, x) ==
        IF IsContent(x) THEN [r EXCEPT !.left = @ - 1]
        ELSE IF ~x.deleted /\ x.key \in DOMAIN attrs THEN MeetMark(r, x, attrs)
        ELSE r
      begun == InsertAttributes(MinimizeAttrChanges(pos, attrs), attrs)
  IN InsertNegatedAttributes(Walk([begun EXCEPT !.left = len], goes, meet))

\* unset_missing: attributes that are not asked for are not inherited
UnsetMissing(pos, attrs) ==
  LET missing == {k \in Keys : pos.tracked /\ pos.attrs[k] # Null} IN
  attrs @@ [k \in missing |-> Null]

\* insert_with_attributes, insert_embed_with_attributes
InsertWith(pos, x, attrs) ==
  LET all == UnsetMissing(pos, attrs) IN
  InsertNegatedAttributes(Put(InsertAttributes(MinimizeAttrChanges(pos, all), all), x))

\* insert, which passes what is deleted, and insert_embed
InsertPlain(pos, x) ==
  LET passes(r, y) == x.kind = "string" /\ y.deleted IN Put(Walk(pos, passes, Pass), x)

----------------------------------------------------------------------------
(***************************************************************************)
(* Removing.                                                               *)
(***************************************************************************)
\* up to the next string, deleted or not, the marks that are overwritten or change nothing.
\* The attributes of the position become those at the end of the gap
CleanFormatGap(pos, start, startAttrs) ==
  LET end == CHOOSE q \in pos.p..Len(pos.items) :
               /\ q < Len(pos.items) => pos.items[q + 1].kind = "string"
               /\ \A i \in (pos.p + 1)..q : pos.items[i].kind # "string"
      attrs == FoldItems(Update, pos.attrs, SubSeq(pos.items, pos.p + 1, end))
      idle(x) == attrs[x.key] # x.value \/ startAttrs[x.key] = x.value
      marks == {i \in (start + 1)..end : IsMark(pos.items[i]) /\ ~pos.items[i].deleted}
  IN [pos EXCEPT !.items = DeleteAt(@, {i \in marks : idle(pos.items[i])}), !.attrs = attrs]

RemoveLen(pos, len) ==
  LET goes(r, x) == r.left > 0
      meet(r, x) == IF IsContent(x) THEN Delete([r EXCEPT !.left = @ - 1]) ELSE r
      removed == Walk([pos EXCEPT !.left = len], goes, meet)
  IN IF pos.tracked /\ pos.p < Len(pos.items) THEN CleanFormatGap(removed, pos.p, pos.attrs)
     ELSE removed

\* apply_delta: one operation after the other, from where the last one ended
ApplyOp(pos, op) ==
  CASE op.kind = "insert" -> InsertWith(pos, Content("string"), op.attrs)
    [] op.kind = "delete" -> RemoveLen(pos, op.len)
    [] op.kind = "retain" -> InsertFormat(pos, op.len, op.attrs)

----------------------------------------------------------------------------
(***************************************************************************)
(* TextEvent::get_delta, which an observer of the text may call while the  *)
(* transaction commits.                                                    *)
(***************************************************************************)
Assembler == [action |-> "none", len |-> 0, what |-> "none",
              attrs |-> <<>>,    \* what retained content changes to
              current |-> <<>>,  \* the attributes here, null left out
              old |-> <<>>,      \* the marks there were before, null included
              delta |-> <<>>]

Get(attrs, k) == IF k \in DOMAIN attrs THEN attrs[k] ELSE Null

\* add_op
AddOp(asm) ==
  LET attrs == CASE asm.action = "insert" -> asm.current
                 [] asm.action = "retain" -> asm.attrs
                 [] OTHER -> <<>>
  IN IF asm.action = "none" THEN asm
     ELSE [asm EXCEPT !.action = "none", !.len = 0,
                      !.delta = Append(@, [kind |-> asm.action, what |-> asm.what,
                                           len |-> asm.len, attrs |-> attrs])]
Flush(asm, action) == IF asm.action = action THEN AddOp(asm) ELSE asm

Count(asm, action, x) ==
  [IF asm.action = action THEN asm ELSE AddOp(asm)
     EXCEPT !.action = action, !.what = x.kind, !.len = @ + 1]

\* an embedded type is an operation of its own
MeetContent(asm, x) ==
  CASE x.added /\ x.deleted -> asm
    [] x.added /\ ~x.deleted ->
         IF x.kind = "type" THEN AddOp(Count(AddOp(asm), "insert", x)) ELSE Count(asm, "insert", x)
    [] ~x.added /\ x.deleted -> IF x.dead THEN asm ELSE Count(asm, "delete", x)
    [] ~x.added /\ ~x.deleted -> Count(asm, "retain", x)

AddedMark(asm, x) ==
  IF x.key \in DOMAIN asm.current /\ asm.current[x.key] = x.value THEN asm
  ELSE [Flush(asm, "retain") EXCEPT
          !.attrs = IF Get(asm.old, x.key) = x.value THEN Without(@, x.key)
                    ELSE (x.key :> x.value) @@ @]

DeletedMark(asm, x) ==
  LET seen == [asm EXCEPT !.old = (x.key :> x.value) @@ @] IN
  IF Get(asm.current, x.key) = x.value THEN seen
  ELSE [Flush(seen, "retain") EXCEPT !.attrs = (x.key :> Get(asm.current, x.key)) @@ @]

\* mutated KeptMark: what is retained behind it goes on to change
KeptMarkPassed(asm, x) == [asm EXCEPT !.old = (x.key :> x.value) @@ @]

KeptMark(asm, x) ==
  LET seen == [asm EXCEPT !.old = (x.key :> x.value) @@ @] IN
  IF x.key \notin DOMAIN asm.attrs \/ asm.attrs[x.key] = x.value THEN seen
  ELSE [Flush(seen, "retain") EXCEPT !.attrs = IF x.value = Null THEN Without(@, x.key)
                                               ELSE (x.key :> x.value) @@ @]

MeetAnyMark(asm, x) ==
  LET met == CASE x.added /\ ~x.deleted -> AddedMark(asm, x)
               [] ~x.added /\ x.deleted /\ ~x.dead -> DeletedMark(asm, x)
               [] ~x.added /\ ~x.deleted -> KeptMark(asm, x)
               [] OTHER -> asm
  IN IF x.deleted THEN met
     ELSE [Flush(met, "insert") EXCEPT !.current = IF x.value = Null THEN Without(@, x.key)
                                                   ELSE (x.key :> x.value) @@ @]

\* without what it would retain at the end
EventDelta(items) ==
  LET asm == AddOp(FoldItems(LAMBDA m, x : IF IsMark(x) THEN MeetAnyMark(m, x) ELSE MeetContent(m, x),
                            Assembler, items))
      telling == {i \in DOMAIN asm.delta : asm.delta[i].kind # "retain" \/ asm.delta[i].attrs # <<>>}
  IN SubSeq(asm.delta, 1, Max(telling \cup {0}))

----------------------------------------------------------------------------
(***************************************************************************)
(* The clean-up at the commit of a transaction that is not local.          *)
(***************************************************************************)
\* the items around i without content among them
GapAround(items, i) ==
  {j \in DOMAIN items : \A k \in DOMAIN items :
     (k >= i /\ k <= j) \/ (k >= j /\ k <= i) => ~IsContent(items[k])}

LiveMarks(items, S) == {i \in S : IsMark(items[i]) /\ ~items[i].deleted}
OverwrittenIn(items, S) ==
  {i \in LiveMarks(items, S) : \E j \in LiveMarks(items, S) : j > i /\ items[j].key = items[i].key}

\* around a deleted item, whatever the attributes are there
CleanupContextless(items, i) == DeleteAt(items, OverwrittenIn(items, GapAround(items, i)))

\* from `start` up to the next content
CleanupGap(items, start, attrs) ==
  LET gap == {i \in DOMAIN items : i >= start /\ \A k \in start..i : ~IsContent(items[k])}
      idle == {i \in LiveMarks(items, gap) : attrs[items[i].key] = items[i].value}
  IN DeleteAt(items, OverwrittenIn(items, gap) \cup idle)

\* at each content, what begins at the content before it, or at the start of the list
CleanupTextFmt(items) ==
  LET contents == SelectSeq([i \in DOMAIN items |-> i], LAMBDA i : IsContent(items[i]))
      step(r, i) ==
        LET cleaned == CleanupGap(r.items, r.start, r.attrs) IN
        [items |-> cleaned, start |-> i, attrs |-> AttrsAt(cleaned, i)]
  IN FoldItems(step, [items |-> items, start |-> 1, attrs |-> NoAttrs], contents).items

\* all of the text if a mark was inserted or deleted, else around each deletion.  `early`:
\* the deletions met before the first deleted mark
CleanupFmt(items, inserted, deletions, early) ==
  LET marks == {i \in deletions : IsMark(items[i])} IN
  IF \E i \in inserted : IsMark(items[i]) THEN CleanupTextFmt(items)
  ELSE LET around == IF marks = {} THEN deletions ELSE early
           cleaned == FoldSet(LAMBDA i, r : CleanupContextless(r, i), items, around)
       IN IF marks = {} THEN cleaned ELSE CleanupTextFmt(cleaned)

----------------------------------------------------------------------------
(***************************************************************************)
(* The calls, each a transaction of its own.  What is deleted is collected *)
(* at the commit, unless skip_gc is set or an undo manager keeps it; what  *)
(* is collected takes no part in anything here.                            *)
(***************************************************************************)
Show(kind, attrs) == [kind |-> kind, attrs |-> attrs @@ NoAttrs]
Reformat(looks, index, len, attrs) ==
  [i \in DOMAIN looks |->
     IF i \in (index + 1)..(index + len) THEN [looks[i] EXCEPT !.attrs = attrs @@ @] ELSE looks[i]]
RemoveFrom(looks, index, len) ==
  SubSeq(looks, 1, index) \o SubSeq(looks, index + len + 1, Len(looks))

\* what a delta says: [at, looks] after one operation
ShowOp(r, op) ==
  CASE op.kind = "insert" ->
         [at |-> r.at + op.len,
          looks |-> SubSeq(r.looks, 1, r.at) \o [i \in 1..op.len |-> Show(op.what, op.attrs)]
                    \o SubSeq(r.looks, r.at + 1, Len(r.looks))]
    [] op.kind = "delete" -> [r EXCEPT !.looks = RemoveFrom(@, r.at, op.len)]
    [] op.kind = "retain" -> [at |-> r.at + op.len,
                              looks |-> Reformat(r.looks, r.at, op.len, op.attrs)]

Settled(items) ==
  [i \in DOMAIN items |-> [items[i] EXCEPT !.added = FALSE, !.dead = items[i].deleted]]

Fits(items) ==
  /\ Len(items) <= MaxItems
  /\ Cardinality({i \in DOMAIN items : items[i].kind = "type"}) <= MaxTypes

\* an observer applies the delta of the event to what it has seen
Observe(edited) ==
  observed' = FoldItems(ShowOp, [at |-> 0, looks |-> observed], EventDelta(edited)).looks

Collected(items) == SelectSeq(items, LAMBDA x : ~x.deleted)
Collect(items) == text' \in {Settled(x) : x \in {y \in {items, Collected(items)} : Fits(y)}}

\* a call in a transaction that goes on; within the bounds, the first of which saves looking
\* at the rest
Call(items, looks) ==
  /\ calls < Len(MaxOpen) /\ Len(text) <= MaxOpen[calls + 1]
  /\ Len(items) <= MaxOpen[calls + 1] /\ Fits(Collected(items))
  /\ calls' = calls + 1
  /\ text' = items /\ expected' = looks
  /\ UNCHANGED observed

Commit ==
  /\ calls > 0
  /\ calls' = 0
  /\ Observe(text)
  /\ Collect(text)
  /\ UNCHANGED expected

\* Text::format
Format(looks) ==
  \E index \in 0..Len(looks) : \E len \in 0..(Len(looks) - index), attrs \in Attrs :
    Call(InsertFormat(FindPosition(text, index), len, attrs).items,
           Reformat(looks, index, len, attrs))

\* Text::insert, Text::insert_embed: it looks as what is left of it
Insert(looks) ==
  \E index \in 0..Len(looks), kind \in Kinds :
    Call(InsertPlain(FindPosition(text, index), Content(kind)).items,
           InsertAt(looks, index + 1,
                    Show(kind, IF index = 0 THEN NoAttrs ELSE looks[index].attrs)))

\* Text::insert_with_attributes, Text::insert_embed_with_attributes
InsertWithAttributes(looks) ==
  \E index \in 0..Len(looks), kind \in Kinds, attrs \in Attrs :
    Call(InsertWith(FindPosition(text, index), Content(kind), attrs).items,
           InsertAt(looks, index + 1, Show(kind, attrs)))

\* Text::remove_range
RemoveRange(looks) ==
  \E index \in 0..Len(looks) : \E len \in 1..(Len(looks) - index) :
    Call(RemoveLen(FindPosition(text, index), len).items, RemoveFrom(looks, index, len))

Used(delta) == FoldItems(LAMBDA n, op : IF op.kind = "insert" THEN n ELSE n + op.len, 0, delta)

\* Text::apply_delta
ApplyDelta(looks) ==
  \E delta \in Deltas :
    /\ Used(delta) <= Len(looks)
    /\ Call(FoldItems(ApplyOp, Position(text, 0, TRUE), delta).items,
              FoldItems(ShowOp, [at |-> 0, looks |-> looks], delta).looks)

\* TransactionMut::apply_update: whatever a peer inserted or deleted
Arrivals ==
  {[items |-> text, inserted |-> {}]} \cup
  {[items |-> InsertAt(text, p + 1, x), inserted |-> {p + 1}] :
     p \in 0..Len(text),
     x \in {Content(kind) : kind \in Kinds} \cup {Mark(k, v) : k \in Keys, v \in Values \cup {Null}}}

RemoteEdit ==
  /\ calls = 0
  /\ UNCHANGED calls
  /\ \E a \in Arrivals :
       \E deletions \in SUBSET {i \in DOMAIN a.items \ a.inserted : ~a.items[i].deleted} :
         /\ Cardinality(deletions) + Cardinality(a.inserted) <= MaxRemote
         /\ LET edited == DeleteAt(a.items, deletions) IN
            /\ Observe(edited)
            /\ expected' = Looks(edited)
            /\ \E early \in SUBSET {i \in deletions : ~IsMark(edited[i])} :
                 Collect(CleanupFmt(edited, a.inserted, deletions, early))

Next ==
  \/ \E looks \in {Looks(text)} : \* evaluated once
       \/ Format(looks) \/ Insert(looks) \/ InsertWithAttributes(looks)
       \/ RemoveRange(looks) \/ ApplyDelta(looks)
  \/ Commit
  \/ RemoteEdit

Spec == Init /\ [][Next]_vars

----------------------------------------------------------------------------
(***************************************************************************)
(* Properties.                                                             *)
(***************************************************************************)
Strings(looks) == SelectSeq(looks, LAMBDA x : x.kind = "string")

\* Whatever marks there are, where an edit begins and ends among them, and whatever the
\* clean-up takes away: an edit formats exactly its range, inserted text has the attributes
\* asked for or those of its left neighbour, and everything else looks as before.
LooksAsAsked == Strings(Looks(text)) = Strings(expected)

\* Whoever observes the text and applies the delta of each event to what it has seen so far
\* always sees what is there, whatever marks a transaction added, deleted or found useless.
ObserversFollow == calls = 0 => observed = Looks(text)

\* The same for embedded shared types.
TypesLookAsAsked == Looks(text) = expected
=============================================================================
