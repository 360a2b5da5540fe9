---------------------------- MODULE UndoManager ----------------------------
(***************************************************************************)
(* An UndoManager over the root types of one document: what it records of  *)
(* each transaction, what undo and redo make of a recorded item, which     *)
(* deleted items it keeps from the garbage collector, and what another     *)
(* task commits while an undo waits for its transaction.                   *)
(*                                                                         *)
(* Items have length one and are numbered as they are created; `content`   *)
(* is the number of the item whose content an item holds, for a redone     *)
(* item that of its original.  A list keeps its items in document order, a *)
(* key of a map the chain of the values it had, the last of which counts.  *)
(***************************************************************************)
EXTENDS Integers, FiniteSets, SequencesExt

CONSTANTS
  Lists, Keys,  \* the sequence types, and the entries of map types
  Scope,        \* those of them that belong to a shared type in the scope
  MaxUnits,     \* bound: items created, those an undo recreates included
  MaxEdits,     \* bound: transactions of a tracked origin, those of undo and redo apart
  MaxForeign    \* bound: transactions of an untracked origin

Slots == Lists \cup Keys
Units == 1..MaxUnits
None == 0

ASSUME SlotsAssumption == Lists \cap Keys = {} /\ Scope \subseteq Slots
ASSUME BoundAssumption == MaxUnits \in Nat \ {0} /\ MaxEdits \in Nat /\ MaxForeign \in Nat

VARIABLES
  doc,                  \* the items: see EmptyDoc
  undoStack, redoStack, \* StackItems: insertions, deletions (and a ghost, the view before)
  undoing, redoing,     \* the flags of Inner
  captured,             \* last_change > 0
  held,                 \* the StackItem a running undo or redo popped, or NoItem
  edits, foreign,       \* tracked and untracked transactions so far
  quiet                 \* ghost: nothing but the manager's own tracked edits so far

stacks == <<undoStack, redoStack>>
flags == <<undoing, redoing, captured>>
counts == <<edits, foreign>>
vars == <<doc, stacks, flags, held, counts, quiet>>

EmptyDoc ==
  [chain |-> [s \in Slots |-> <<>>], \* the items of a slot, in order
   deleted |-> {}, keep |-> {},
   emptied |-> {},                   \* deleted items whose content was collected
   redone |-> <<>>, content |-> <<>>,
   theirs |-> {}]                    \* ghost: items of untracked transactions

NoView == <<>>
NoItem == [ins |-> {}, del |-> {}, before |-> NoView]

NewestOf(d) == Len(d.content)
SlotOf(d, u) == CHOOSE s \in Slots : Contains(d.chain[s], u)
PosOf(d, u) == CHOOSE i \in DOMAIN d.chain[SlotOf(d, u)] : d.chain[SlotOf(d, u)][i] = u
InScope(d, units) == {u \in units : SlotOf(d, u) \in Scope}

\* what a reader sees
View(d) ==
  [s \in Slots |->
    LET chain == d.chain[s]
        shown[n \in 0..Len(chain)] ==
          IF n = 0 THEN <<>>
          ELSE IF chain[n] \in d.deleted THEN shown[n - 1]
          ELSE Append(shown[n - 1], d.content[chain[n]])
    IN shown[Len(chain)]]

Init ==
  /\ doc = EmptyDoc
  /\ undoStack = <<>> /\ redoStack = <<>>
  /\ undoing = FALSE /\ redoing = FALSE /\ captured = FALSE
  /\ held = NoItem /\ edits = 0 /\ foreign = 0 /\ quiet = TRUE

----------------------------------------------------------------------------
(***************************************************************************)
(* A transaction is the document it works on with its insert_set and       *)
(* delete_set.                                                             *)
(***************************************************************************)
Begin == [d |-> doc, ins |-> {}, del |-> {}]

\* items that are deleted already are passed over
DeleteItems(t, units) ==
  [t EXCEPT !.d.deleted = @ \cup units, !.del = @ \cup (units \ t.d.deleted)]

\* a new item, right of the first p of its slot
Insert(t, slot, p, original, keep) ==
  LET u == NewestOf(t.d) + 1
      content == IF original = None THEN u ELSE t.d.content[original]
  IN [t EXCEPT !.d.chain[slot] = InsertAt(@, p + 1, u),
               !.d.redone = Append(@, None),
               !.d.content = Append(@, content),
               !.d.keep = IF keep THEN @ \cup {u} ELSE @,
               !.ins = @ \cup {u}]

\* integrate_item: in the chain of a key the last value counts, and all others are deleted
Integrate(t, slot, p, original, keep) ==
  LET u == NewestOf(t.d) + 1
      t1 == Insert(t, slot, p, original, keep)
      chain == t1.d.chain[slot]
      t2 == IF slot \notin Keys \/ Len(chain) = 1 THEN t1
            ELSE IF Last(chain) = u THEN DeleteItems(t1, {chain[Len(chain) - 1]})
            ELSE DeleteItems(t1, {u})
  IN IF original \in t.d.emptied THEN DeleteItems(t2, {u}) ELSE t2

\* an edit of this replica is made next to what is visible; one of a peer ends up
\* anywhere, because it may be concurrent to all that is there
LocalGaps(slot) ==
  LET chain == doc.chain[slot] IN
  IF slot \in Keys THEN {Len(chain)}
  ELSE {p \in 0..Len(chain) : p = 0 \/ chain[p] \notin doc.deleted}

Edits(local) ==
  LET gaps(slot) == IF local THEN LocalGaps(slot) ELSE 0..Len(doc.chain[slot])
      created == UNION {{Integrate(Begin, s, p, None, FALSE) : p \in gaps(s)} : s \in Slots}
  IN (IF NewestOf(doc) = MaxUnits THEN {} ELSE created)
     \cup {DeleteItems(Begin, {u}) : u \in (1..NewestOf(doc)) \ doc.deleted}

----------------------------------------------------------------------------
(***************************************************************************)
(* The commit: handle_after_transaction, then the garbage collector.       *)
(***************************************************************************)
\* changed_parent_types has one of the types in scope
Relevant(t) == InScope(t.d, t.ins \cup t.del) # {}

\* drained items no longer keep what they deleted
Release(d, items) ==
  [d EXCEPT !.keep = @ \ InScope(d, UNION {items[i].del : i \in DOMAIN items})]

\* mutated Collect: does not ask whether an item is kept
CollectsKept(d, deletions) == [d EXCEPT !.emptied = @ \cup deletions]

\* the deleted items that the transaction deleted and nobody keeps lose their content
Collect(d, deletions) == [d EXCEPT !.emptied = @ \cup (deletions \ d.keep)]

Record(t) ==
  [ins |-> t.ins, del |-> t.del, before |-> IF quiet' THEN View(doc) ELSE NoView]

Extend(stack, t) ==
  Append(Front(stack), [Last(stack) EXCEPT !.ins = @ \cup t.ins, !.del = @ \cup t.del])

\* the views that are remembered are worth something only as long as it is quiet
Noted(stack) ==
  IF quiet' THEN stack ELSE [i \in DOMAIN stack |-> [stack[i] EXCEPT !.before = NoView]]

\* a tracked transaction commits.  `recent`: by the clock, last_change is less than the
\* capture timeout ago
HandleAfterTransaction(t, undoRest, redoRest, recent) ==
  LET edit == ~undoing /\ ~redoing
      target == IF undoing THEN redoRest ELSE undoRest
      extend == edit /\ target # <<>> /\ captured /\ recent
      pushed == IF extend THEN Extend(target, t) ELSE Append(target, Record(t))
      released == IF edit THEN Release(t.d, redoRest) ELSE t.d
      kept == [released EXCEPT !.keep = @ \cup InScope(t.d, t.del)]
  IN /\ undoStack' = Noted(IF undoing THEN undoRest ELSE pushed)
     /\ redoStack' = Noted(IF undoing THEN pushed ELSE IF edit THEN <<>> ELSE redoRest)
     /\ captured' = (edit \/ (captured /\ ~undoing))
     /\ doc' = Collect(kept, t.del)

Skip(t, undoRest, redoRest) ==
  /\ undoStack' = Noted(undoRest) /\ redoStack' = Noted(redoRest)
  /\ doc' = Collect(t.d, t.del)
  /\ UNCHANGED captured

CommitTracked(t, undoRest, redoRest) ==
  IF Relevant(t)
  THEN \E recent \in BOOLEAN : HandleAfterTransaction(t, undoRest, redoRest, recent)
  ELSE Skip(t, undoRest, redoRest)

\* a transaction of a tracked origin, of the task that undoes or of another one
Edit ==
  /\ edits < MaxEdits
  /\ edits' = edits + 1
  /\ quiet' = (quiet /\ held = NoItem)
  /\ \E t \in Edits(TRUE) : CommitTracked(t, undoStack, redoStack)
  /\ UNCHANGED <<undoing, redoing, held, foreign>>

\* a transaction of another origin, as every update from a peer
ForeignEdit ==
  /\ foreign < MaxForeign
  /\ quiet' = FALSE
  /\ \E t \in Edits(FALSE) :
       Skip([t EXCEPT !.d.theirs = @ \cup t.ins], undoStack, redoStack)
  /\ foreign' = foreign + 1
  /\ UNCHANGED <<undoing, redoing, held, edits>>

\* TransactionMut::gc: all deleted items that nobody keeps
CollectAll ==
  /\ doc' = Collect(doc, doc.deleted)
  /\ doc' # doc
  /\ UNCHANGED <<stacks, flags, held, counts, quiet>>

----------------------------------------------------------------------------
(***************************************************************************)
(* Undo and redo.                                                          *)
(***************************************************************************)
\* the manager is borrowed mutably by one call at a time
Idle == held = NoItem

\* pop sets the flags, then takes the last item, then asks for a transaction
Undo ==
  /\ Idle /\ undoStack # <<>>
  /\ undoing' = TRUE /\ redoing' = FALSE
  /\ held' = Last(undoStack) /\ undoStack' = Front(undoStack)
  /\ UNCHANGED <<doc, redoStack, captured, counts, quiet>>

Redo ==
  /\ Idle /\ redoStack # <<>>
  /\ undoing' = FALSE /\ redoing' = TRUE
  /\ held' = Last(redoStack) /\ redoStack' = Front(redoStack)
  /\ UNCHANGED <<doc, undoStack, captured, counts, quiet>>

\* the last item of the chain of copies
FollowRedone(d, u) ==
  LET follow[v \in DOMAIN d.redone] == IF d.redone[v] = None THEN v ELSE follow[d.redone[v]]
  IN follow[u]

\* mutated ReplacedUpTo: whatever is right of the value is passed over
ReplacesAny(t, u, insertions) == Len(t.d.chain[SlotOf(t.d, u)])

\* ItemPtr::redo of a value of a key: up to where the chain right of it was replaced by
\* what the item inserted or a stack holds as deleted, and by nothing else
ReplacedUpTo(t, u, insertions) ==
  LET chain == t.d.chain[SlotOf(t.d, u)]
      ours(v) == \/ t.d.redone[v] # None \/ v \in insertions
                 \/ \E i \in DOMAIN undoStack : v \in undoStack[i].del
                 \/ \E i \in DOMAIN redoStack : v \in redoStack[i].del
      reach[i \in DOMAIN chain] ==
        IF i < Len(chain) /\ ours(chain[i + 1])
        THEN reach[PosOf(t.d, FollowRedone(t.d, chain[i + 1]))] ELSE i
  IN reach[PosOf(t.d, u)]

\* a copy of the item, left of it in a list, at the end of the chain of a key; not if
\* someone else's value is there.  `changed`: whether redo returns an item
RedoItem(r, u, insertions) ==
  LET t == r.t
      slot == SlotOf(t.d, u)
      p == IF slot \in Lists THEN PosOf(t.d, u) - 1 ELSE ReplacedUpTo(t, u, insertions)
      copied == Integrate(t, slot, p, u, TRUE)
  IN IF t.d.redone[u] # None THEN [r EXCEPT !.changed = TRUE]
     ELSE IF slot \in Keys /\ p < Len(t.d.chain[slot]) THEN r
     ELSE [t |-> [copied EXCEPT !.d.redone[u] = NewestOf(copied.d)], changed |-> TRUE]

\* the items are redone one after the other
Redone(item, order) ==
  LET redo[n \in 0..Len(order)] ==
        IF n = 0 THEN [t |-> Begin, changed |-> FALSE]
        ELSE RedoItem(redo[n - 1], order[n], item.ins)
  IN redo[Len(order)]

\* mutated Processed: the inserted items are deleted, not their last copies
ProcessedOriginals(item, order) ==
  LET toDelete == InScope(doc, item.ins) \ doc.deleted
      redone == Redone(item, order)
  IN [t |-> DeleteItems(redone.t, toDelete), changed |-> redone.changed \/ toDelete # {}]

\* try_process up to its commit: the deleted items are redone in the order of a hash
\* set, then the inserted ones are deleted
Processed(item, order) ==
  LET toDelete == InScope(doc, {FollowRedone(doc, u) : u \in item.ins}) \ doc.deleted
      redone == Redone(item, order)
  IN [t |-> DeleteItems(redone.t, toDelete), changed |-> redone.changed \/ toDelete # {}]

\* the transaction is granted.  If the item turns out to change nothing, the next one is
\* popped, and if there is none the call ends
TryProcess ==
  /\ held # NoItem
  /\ quiet' = quiet
  /\ LET toRedo == InScope(doc, held.del \ held.ins)
         stack == IF undoing THEN undoStack ELSE redoStack
     IN /\ NewestOf(doc) + Cardinality(toRedo) <= MaxUnits
        /\ \E order \in SetToSeqs(toRedo) :
             LET p == Processed(held, order)
                 done == p.changed \/ stack = <<>>
                 rest == IF done THEN stack ELSE Front(stack)
             IN /\ CommitTracked(p.t, IF undoing THEN rest ELSE undoStack,
                                      IF undoing THEN redoStack ELSE rest)
                /\ held' = IF done THEN NoItem ELSE Last(stack)
                /\ undoing' = (undoing /\ ~done) /\ redoing' = (redoing /\ ~done)
  /\ UNCHANGED counts

\* the future of an undo that waits is dropped
Cancel ==
  /\ held # NoItem
  /\ held' = NoItem /\ quiet' = FALSE
  /\ undoStack' = Noted(undoStack) /\ redoStack' = Noted(redoStack)
  /\ UNCHANGED <<doc, flags, counts>>

\* reset: the next change starts a new item
Reset ==
  /\ Idle /\ captured
  /\ captured' = FALSE
  /\ UNCHANGED <<doc, stacks, undoing, redoing, held, counts, quiet>>

\* clear_undo, clear_redo, clear_all
Clear(undo, redo) ==
  /\ Idle
  /\ (undo /\ undoStack # <<>>) \/ (redo /\ redoStack # <<>>)
  /\ doc' = LET d == IF undo THEN Release(doc, undoStack) ELSE doc
            IN IF redo THEN Release(d, redoStack) ELSE d
  /\ undoStack' = IF undo THEN <<>> ELSE undoStack
  /\ redoStack' = IF redo THEN <<>> ELSE redoStack
  /\ UNCHANGED <<flags, held, counts, quiet>>

Next ==
  \/ Edit \/ ForeignEdit \/ CollectAll
  \/ Undo \/ Redo \/ TryProcess \/ Cancel
  \/ Reset \/ \E undo, redo \in BOOLEAN : Clear(undo, redo)

Spec == Init /\ [][Next]_vars

----------------------------------------------------------------------------
(***************************************************************************)
(* Properties.                                                             *)
(***************************************************************************)
StackItems == [ins : SUBSET Units, del : SUBSET Units, before : {NoView} \cup [Slots -> Seq(Units)]]

TypeOK ==
  /\ doc.chain \in [Slots -> Seq(Units)]
  /\ doc.deleted \subseteq 1..NewestOf(doc) /\ doc.keep \subseteq 1..NewestOf(doc)
  /\ doc.emptied \subseteq doc.deleted
  /\ doc.redone \in Seq(0..MaxUnits) /\ doc.content \in Seq(Units)
  /\ Len(doc.redone) = Len(doc.content)
  /\ undoStack \in Seq(StackItems) /\ redoStack \in Seq(StackItems)
  /\ held \in StackItems
  /\ <<undoing, redoing, captured, quiet>> \in BOOLEAN \X BOOLEAN \X BOOLEAN \X BOOLEAN
  /\ edits \in 0..MaxEdits /\ foreign \in 0..MaxForeign

Restored(slots) ==
  held # NoItem /\ held' # held /\ quiet' => \A s \in slots : View(doc')[s] = held.before[s]

\* As long as nobody else edits, an undo brings back the sequence that was there before the
\* item began, and a redo the one before the undo, through any series of edits, undos and
\* redos.
ListsRestored == [][Restored(Lists)]_vars

\* "In order to revert an operation, call undo, then redo to bring it back" (UndoManager):
\* the same for every shared type, the values of keys included.
EditsReverted == [][Restored(Slots)]_vars

\* Undo and redo revert only what the manager recorded: an item of somebody else that is
\* there stays there.  For a value of a key that is the search to the right in redo.
SparesOthers ==
  [][held # NoItem /\ held' # held => doc'.theirs \cap doc'.deleted \subseteq doc.deleted]_vars

\* What an undo or a redo would bring back has kept its content, although the garbage
\* collector runs at the end of every transaction and on demand.
KeptForUndo ==
  \A item \in Range(undoStack) \cup Range(redoStack) \cup {held} :
    InScope(doc, item.del \ item.ins) \cap doc.emptied = {}

\* Documents and stacks are well formed and the stacks can be used.
StacksSound == TypeOK /\ KeptForUndo

\* "Redo'es last action previously undo'ed by current undo manager": what a redo would
\* delete was made by an undo, which makes nothing but copies.
RedoneWasUndone ==
  \A item \in Range(redoStack) : \A u \in item.ins : doc.content[u] # u
=============================================================================
