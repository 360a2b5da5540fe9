# A TLA+ model of Yrs

Yrs is the Rust implementation of the Yjs CRDT: documents of shared types (text,
array, map, XML) that any number of replicas change independently and that become
equal once the replicas have exchanged their updates. This directory models the core
of the crate `yrs/`, checks it with TLC and proves part of it with TLAPS.

## 1. The system

### Vocabulary

A replica has a *client* identifier. What it inserts gets consecutive *clocks*; a
(client, clock) pair is an ID, here a *unit*. A *block* is a run of units: an `Item`
with content, a `GC` block (deleted and collected) or a `Skip` (a hole: later units of
the client are there, these are not). An item names its *origin* and *right origin*
(its neighbours when it was created) and its *parent*. An *update* is a set of blocks
and a *delete set* of ID ranges.

### Components

| Component | State | Operations | Talks to |
|---|---|---|---|
| Update integration (`update.rs`, `transaction.rs`) | `pending`, `pending_ds`; during a call the picker's queues, stack, `unapplicable`, `missing` | `apply_update`, `integrate`, `missing_dependency`, `apply_delete` | block store, conflict resolution |
| Conflict resolution (`block.rs`) | the linked list of a sequence, the chain of entries of a map key, deleted marks | `integrate_item`, `resolve_conflict`, local insertion, `delete` | block store; called by integration and by the shared types |
| Block store (`block_store.rs`, `gc.rs`, `id_set.rs`) | per client a list of blocks without gaps; `skips` | `push`, `find_index`, `split_block`, `materialize`, `squash_left`, `try_squash_with`, `get_state_vector` | everything |
| Id ranges (`ids.rs`, `id_set.rs`, `id_map.rs`) | sorted, coalesced ranges per client | insert, remove, merge, exclude, intersect | delete sets, insert sets, skips |
| Sync encoding (`store.rs`, `update.rs`, `alt.rs`) | none of its own | `encode_diff`, `diff_state_vectors`, `merge_updates`, `encode_update` | block store, protocol |
| Sync protocol (`sync/protocol.rs`) | none of its own | SyncStep1, SyncStep2, Update, Auth, Awareness messages | integration, awareness |
| Awareness (`sync/awareness.rs`) | per client a clock and a state or null | set, remove, update, apply | protocol, application callbacks |
| Undo manager (`undo.rs`) | undo and redo stacks, capture interval, keep flags | undo, redo, callbacks after a transaction | transactions, GC |
| Transaction and events (`transaction.rs`, `observer.rs`) | insert set, delete set, merge blocks, changed types | commit in ten steps, observer callbacks | everything |
| Rich text (`types/text.rs`, `transaction.rs`) | format marks in the item list; during a call the `ItemPosition` with its attributes | `insert`, `insert_with_attributes`, `remove_range`, `format`, `apply_delta`, clean-up at commit | conflict resolution, transactions |
| Weak links, sticky indexes, sub-documents, JSON path, codecs, bindings | see `PROJECT.json` | | |

A replica's store is behind a reader-writer lock, and a mutable transaction holds it
exclusively from its creation to its commit. So inside a replica there is no
interleaving of updates. What is hard is what happens *between* replicas and between
calls: updates arrive in any order, more than once, overlapping, cut into other
blocks; they depend on units that are not there; concurrent insertions meet in a
different order everywhere; and a long sequence of legal calls leaves a store whose
grouping into blocks depends on all of it.

### What makes each part correct

* Integration: nothing enters before what it depends on; nothing given is lost;
  deletes wait for their units; a call returns; and once everything needed is there
  nothing keeps waiting.
* Conflict resolution: one order of the items everywhere, compatible with the origins
  of each; one value per map key; no unexplained deletion.
* Block store: the blocks tile the clocks, `skips` agrees with the Skip blocks, no
  unit is dropped, revived or doubled by cutting and squashing, a block is one
  run of text, and the state vector claims no more than what is there.
* Id ranges: the list is sorted and coalesced and denotes the set it should.
* Sync: an answer to a state vector brings everything the asker lacks, whatever was lost
  before; merged updates have all units of their parts, and a reader finds them where
  they belong; nobody gets stuck with a difference.
* Awareness: clocks tell which of two states of a client is later, whoever raised them;
  when all has arrived the peers agree; a client's own state is changed by nobody else;
  listeners are told of every change.
* Undo: what is undone is what the user did in the captured interval, and what it needs
  is not collected; nobody else's work goes.
* Rich text: an edit formats its range and nothing else, however many marks are there
  already, taking marks away changes nothing that is seen, and observers are told of all
  that changed.

## 2. Modules

| Module | What it is |
|---|---|
| `ApplyUpdate` | `apply_update` and all it runs, one action per step of the code |
| `CausalStore` | what it promises: units wait until what they depend on is there |
| `MCApplyUpdate` | histories and updates for TLC |
| `ApplyUpdateProofs` | the inductive invariant of `ApplyUpdate` and the theorems it gives |
| `ApplyUpdateRefinement` | `ApplyUpdate` implements `CausalStore` |
| `CausalStoreProofs` | the promise of `CausalStore` |
| `Yata` | replicas that insert, overwrite, delete and integrate concurrently |
| `YataProofs` | one order of all items explains every list; convergence |
| `BlockStore` | one client's block list under updates, splits, deletes and commits |
| `IdRanges`, `MCIdRanges` | the range lists of delete sets, insert sets and attributions |
| `UpdateMerge`, `MCUpdateMerge` | `merge_updates`, and differences and state vectors of its result |
| `UpdateMergeProofs` | no unit is lost or doubled by a merge, and no gap is left |
| `SyncExchange`, `MCSyncExchange` | peers that exchange state vectors, differences and events |
| `SyncExchangeProofs` | its inductive invariant, and what the file and the answers keep |
| `UndoManager` | an undo manager, the tasks that edit beside it and the collector |
| `UndoManagerProofs` | what undo needs is kept, and nobody else's items are deleted |
| `Formatting`, `MCFormatting` | format marks under edits, deltas and the clean-up |
| `Awareness` | peers that set, remove and exchange awareness states |
| `MCAwareness` | three peers for TLC |
| `AwarenessProofs` | what holds of `Awareness` for any peers |

### ApplyUpdate

A block is modelled by its units. That is exact for integration: the picker hands out
blocks of a client in clock order, and a block of several units depends on what its
first unit depends on, its other units on their predecessors. `have` is the set of
units in the store; a Skip is an absent clock below a present one. `deps[u]` lists
origin, right origin and parent (and weak link ends) of `u` in the order
`missing_dependency` asks for them. `pendingBlocks`, `pendingMissing`, `pendingDs` are
`Store.pending` and `Store.pending_ds`; `queue`, `clients`, `latest`, `stack`,
`unapplicable`, `missing` are the fields of `BlockPicker` (`queue[c]` is the client's
queue in `store`, or in `latest` when `latest = c`). `todo` is the call stack of the
recursion in step 5. One call runs at a time, in small steps, because its loop and its
recursion are where it can go wrong.

| Action | Code |
|---|---|
| `Call` | a caller applies an update, any update again included |
| `Begin` | `exclude` of the known units and the early retry test (step 1) |
| `PopStack`, `PopLatest`, `NextClient`, `Exhausted` | `BlockPicker::next` |
| `Integrate`, `Fail` | the loop of `Update::integrate`; `UpdateError::InvalidParent` |
| `Switch`, `GiveUp`, `Stash`, `Drained` | `BlockPicker::switch` |
| `ApplyDelete`, `MergePending`, `ApplyPendingDs`, `Retry`, `Return` | the end of the call, steps 2 to 5 |

`Updates` gives the updates of each history, so that one run has several histories with
updates of their own. `ordered` is a ghost: whether each client's updates have arrived in
the order of its clocks so far.

Not told apart: the Skips of an update (passed over), an item whose parent turns out to
be collected (it becomes a GC block, present all the same), and a delete of an item by
an overwriting map entry (in `Yata`). `merge_updates` of the pending update and what is
left of the new one is the union of their units.

### Yata

An item has length one: a longer block is a run of items, each with its predecessor as
origin. `order[r][s]` is the linked list of slot `s` (a sequence, or the entries of a
map key) at replica `r`, tombstones included. `scan` holds the locals of
`resolve_conflict` while an item is placed, one iteration per step. A local insertion
happens between neighbours and cannot conflict, so it is one action. An item may arrive
when its origins are there, in no other order: that is what `ApplyUpdate` guarantees
(`DepsIntegrated`) and all that is assumed. `WellPlaced` joins the type invariant with
what the origins promise: an item is right of its origin and left of its right origin.

### BlockStore

One client, all its blocks. `list` is the `ClientBlockList`, `skips` the client's part of
`BlockStore.skips`, `queue` what is left of an update after `exclude`. `Receive` takes
any tiling of any range of clocks into Items, GC blocks and Skips whatever is known.
`Typed` are the units whose origin is the unit before; only such a run can be one Item.
`apart` remembers the typed units between which and their origin another client
inserted. `Commit` is steps 5 to 8 of `TransactionMut::commit`: collecting, the
compaction of the delete set, `squash_left` of what was inserted, `squash_left` of
`merge_blocks`. A squash is a set of indices that merge into their left neighbours; the
in-place loops of the code are sums of such merges. A block found to miss something is
parked (`Park`) and comes again in a later update, which is how the pending update
looks from here. u32 arithmetic is modulo `Wrap`. Not modelled: keep flags, linked and
redone items (they only forbid squashes), `skip_gc`, `collect_all`. `WellFormed` joins the
type invariant with the tiling of the clocks, `skips` and what may fill a hole.

### IdRanges

`ranges[m]` is the list of one client in the set or map `m`, `meaning[m]` the pairs (clock,
attribute set) it stands for. Each action is one call, with the loops of the code as
operators: `Push` is `push_coalesced`, `InsertWith` is `insert_with` with its three parts
(`Overlaid` is the walk over the entries that overlap), `RemoveRange`, `Merge`, `Exclude`
and `Intersect` the methods of the same names; `Met`, `Begin` and `Stop` are the two
cursors of the last two. `Delete`, `MergeWith`, `DiffWith`, `IntersectWith` and `Filter` are
the operations of `IdSet` and `IdMap` that call them for one client; clients do not
influence each other. An `IdSet` is the case without attributes.

### UpdateMerge

Each decoder of `merge_updates` is what it has not handed out; `written` is `curr_write`,
`result` what the writer has. One action is one round of the loop:

| Action | Code |
|---|---|
| `TakeFirst` | nothing is in hand |
| `Reorder` | `dec.current` was skimmed and another decoder may be next: `continue` |
| `NextClient` | the next block is of another client |
| `FillGap` | it begins behind a hole: a Skip is written |
| `Overlap` | it touches or overlaps: squashed, or sliced and taken |
| `Finish` | the last block in hand is written |

An update is any sequence of blocks in the order `IntoBlocks` hands them out (`InOrder`);
`MCUpdateMerge` enumerates them. The decoders hand out no Skips (`IntoBlocks` with
`ignore_skip`), so the branches that extend or slice a Skip in hand cannot be reached. Which of two blocks that begin at the
same clock comes first is open, because the comparison answers `Less` both ways.
`EncodeDiff` and `StateVector` are functions of the result, read as a reader of the bytes
would: each block begins where the one before it ends (`Laid`).

### SyncExchange

A document is `has` (units in the store, some beyond holes), `pending`, `deleted` and
`parked` (`pending_ds`). Applying an update is one step here, and what it does is what
`ApplyUpdate` finds: of each client the units before the first one that must wait are
integrated, the rest is stashed and tried again. `Continues` are the units whose origin is
the unit before them: all others can be integrated beyond a hole. `StateVector`,
`BlocksFrom`, `EncodeState`, `BeforeState` and `EncodeUpdate` are translated from the code
and `Insert`, `Delete`, `Start`, `HandleStep1`, `HandleStep2`, `HandleUpdate` use them. Each
message may arrive late, again (`again`), or never; events may be lost on sending. The hub
appends every event to a file, may crash at any time and starts again from that file with
its connections closed. The file and the network are external: they belong to the
application.

### UndoManager

One document with root types in and out of the manager's scope. A transaction is one step,
because it holds the document exclusively, but a call of `undo` is two: `Undo` pops the
stack item and sets `undoing`, then waits for its transaction (`held`), and `TryProcess` has
it. Between them `Edit` and `ForeignEdit` of other tasks may commit, or the future is
dropped (`Cancel`). `HandleAfterTransaction` is the callback of the same name, `Release` and
the `keep` in it are the keep flags, `Collect` is what the collector does at the end of
every transaction and `CollectAll` `TransactionMut::gc`. `RedoItem` is `ItemPtr::redo`: for
a list item a copy left of it, for the value of a key a copy at the end of the chain unless
a value that is not the manager's own stands there (`ReplacedUpTo`). `Processed` is
`try_process`; the order of its hash set is any order. Whether the clock calls a change
recent is open (`recent`). The loop over the items to redo (`Redone`), the chain of copies of an
item (`FollowRedone`) and the search to the right of a value are recursive functions. Ghosts: `before`, the view a stack item should bring back,
`quiet`, that nobody else has edited, and `theirs`, the items of untracked transactions.

### Formatting

`text` is the item list: content of length one, embedded types and marks. A position
carries what `ItemPosition` does: the neighbours (as a count), `current_attrs` (`tracked`
says whether it is `Some`), and the negated attributes of the call. `Walk` is the loop all
calls share: go right while a condition holds, and deal with each item. `InsertFormat`,
`InsertWith`, `InsertPlain`, `RemoveLen`, `CleanFormatGap`, `MinimizeAttrChanges`,
`InsertAttributes`, `InsertNegatedAttributes` are `insert_format`, `insert`, `remove` and the
helpers of the same names, and one action is one call of the `Text` trait. A transaction is
open (`calls`) for several calls, until `Commit`. `added` and `dead` of an item say what
`insert_set` and `delete_set` do. `EventDelta` is `TextEvent::get_delta`, with `AddOp`,
`MeetContent`, `AddedMark`, `DeletedMark` and `KeptMark` for the branches of its loop; `observed` is
a ghost, what an observer has who applies the delta of each event. `ApplyDelta` applies the
operations of a delta from one position. `RemoteEdit`
is a transaction that applied an update: whatever was inserted and deleted, the event, then
`cleanup_fmt` with `cleanup_text_fmt` and `cleanup_fmt_gap_contextless`. `expected` is a ghost,
how the text should look after the last call. Collected items take part in nothing, so
they are dropped, all of a transaction or none (`skip_gc`, an undo manager).

Two things the code does that a reader may not expect, and the model does too:
`cleanup_text_fmt` sets `start` to each content it meets, and a gap that starts at a content
ends there at once, so that only the marks in front of the first content are ever cleaned;
and `remove` skips the clean-up of its gap when `current_attrs` is `None`.

### Awareness

`states[p][c]` is what the `DashMap` of peer `p` has of client `c`; clock 0 stands for no
entry. Each call of `Awareness` is one step, because it takes `&mut self`. The application
is external: from its `on_update` callback it sends the clients an event names, as the
`exchange` function of the tests does, and it may send `update()` at any time, as the
protocol does at the start of a connection and for a query. `sent` only grows: what is in
it may be applied late, again or never, by its sender too. `heard` and `noticed` are what
listeners of `on_update` and `on_change` know when they look up the clients their events
name. A peer that reconnects has a new random client id and is another peer. Left out:
`last_updated`, which only `meta` returns, the summary that `apply_update` returns
besides the event, and a state that is the JSON null, which its update would turn into a
removal.

## 3. Runs

| Run | Shows | Instance |
|---|---|---|
| `apply_updates` | `TypeOK`, `DepsIntegrated`, `PickerOwned`, `NothingLost`, `NoStrandedInOrder`, `StashedOnce`, `DeletesSettled`, `Terminates`, `Implements` | 3 clients; 4 units with every causal history of at most one dependency per unit and every update; 6 units with two histories that go back and forth, several dependencies per unit, deletes, one unit of invalid parent |
| `apply_stranded` | **violated**: `NoStranded` | 3 units, 2 updates in the wrong order |
| `yata` | `WellPlaced`, `OneOrder`, `NoCrossing`, `LastEntryWins`, `NoPhantomDelete` | 3 replicas, 4 items in one sequence or one map key, one removal |
| `block_store` | `WellFormed`, `NothingForgotten`, `FindsOwner`, `OneRunPerItem`, `StateVectorIsPrefix` | 4 clocks, two of them typed |
| `block_store_gc` | **violated**: `DuplicatesIgnored` | the same with GC blocks over holes |
| `awareness` | `TypeOK`, `OneStatePerClock`, `OthersAgree`, `OwnerWins`, `UpdateHeard`, `OwnStateIsOwn` | 3 peers, 2 of them with a state, 2 states, clocks up to 3 |
| `id_ranges` | `Canonical`, `SameAsSets`, `ReadsTell` | 2 maps, 4 clocks, 2 attributes |
| `merge` | `Writable`, `AllMerged`, `EncodersTrue`, `Terminates` | 3 updates of up to 4, 2 and 1 blocks, 2 clients of 3 and 1 clocks |
| `sync` | `FileMatches`, `NoStalemate`, `AssuredToHoles` | 3 peers in a row, 3 units, one delete, 2 messages on their way, 1 crash |
| `undo` | `StacksSound`, `ListsRestored`, `SparesOthers` | a list and a key, 5 items, 3 tracked edits and 1 other |
| `formatting` | `LooksAsAsked`, `ObserversFollow` | 5 items, at most one of them an embedded type; 1 attribute with 2 values; transactions of 3 calls; updates of one item |
| `formatting_delta` | **violated**: `LooksAsAsked` | deltas in which something follows a deletion |

Why the bounds are enough:

* Three clients are needed for the picker to find a client already on its stack, and
  for items of different origin to interleave in `resolve_conflict`; two blocks of one
  client are needed to strand a queue. `MaxClock` is the largest clock of the units.
  `apply_updates` explores every causal history of the smaller units, not a chosen one;
  the larger ones have a client that depends on another one twice.
* `MaxItems`, `MaxTotal` (4 items of 3 replicas) give every pair of cases of the loop of
  `resolve_conflict`: the violations of its mutants need three or four items. With five
  items (3.3 million states) no error was found either. `MaxSlots` 1 keeps the sequence and
  the key apart, which share nothing. Removals are of the key only (`DeleteFrom`): in a
  sequence a tombstone stays in place and the scan never looks at it.
* `MaxClock` of `BlockStore` is 4: a hole between two known units, and a block on each
  side of it, partly known. Two typed units in a row make runs of three. `Wrap` is 16,
  more than twice the clocks, so that only an underflow wraps.
* `Awareness` needs a client, a peer that removes it and a third one that hears of both in
  either order. `HostClock` 3 lets every peer raise the host's clock in turn, with a
  survived removal in between (which may reach clock 4, and does not raise it again
  locally). The guest's one state makes updates of two clients; the code treats them one
  by one. `Quiet` states, those that no message sent would change, are reached from every
  state by applying what was sent. The proofs have none of these bounds.
* Four clocks of `IdRanges` give two ranges with a hole between them and a third that
  overlaps both, with every arrangement of two attributes; the state space is closed, so
  any number of calls is covered. `UpdateMerge` needs a first update of enough blocks to leave
  two holes, and two others that fill or overlap them; all lengths and kinds are enumerated.
  The second client shows that the loop leaves a client in time.
* `SyncExchange`: the author's second unit may be received before its first, the third waits
  for the second, and the reader behind the hub gets all of it second hand. Two messages can
  overtake each other. One crash is enough, because a restart forgets all but the file.
* `UndoManager`: five items are two edits with a redo of each and a redo of a redo, or three
  edits with a foreign item between them. `Formatting`: five items are contents with the
  begin and the end of formats around and between them. An open transaction has at most
  six items after its first call, deleted ones included, four after a second and three after a
  third (`MaxOpen`); five after a second, and four after a third, passed as well.
  Two attributes with four items, and one value with six, have also been run for
  `LooksAsAsked` without another result: attributes meet only in the order in which one call
  inserts its marks. The deltas have up to three operations.

Deadlock is checked for `ApplyUpdate`, `Awareness`, `IdRanges`, `SyncExchange` and
`Formatting`, where a call is always possible. The systems of `Yata`, `BlockStore` and
`UndoManager` stop when their bounds are reached, and the loop of `UpdateMerge` ends.

Fairness: `ApplyUpdate` assumes `WF_vars(Step)`, that a started call goes on, and
`UpdateMerge` `WF_vars(Next)`, that the loop goes round: both run on one thread, hold the
lock they need and wait for nothing. No call is assumed to be made and no update to arrive.
Only the two `Terminates` use it. `SyncExchange` states no liveness, because nothing in the
code makes peers connect again or messages arrive. Instead `NoStalemate` says that as long as
peers differ there is an exchange that helps; as nothing is taken back and units are
finite, peers that go on connecting become equal.

Each property of a passing run has a mutant (`PROJECT.json`): a definition of the model
changed the way a plausible bug would change the code, with which the same run finds
the property violated. The mutated forms stand before the definitions they replace.

### Disagreements found

Each of the first three is a run that finds its property violated.

1. **Stranded pending update** (`apply_stranded`). Client 1 makes a0, client 2 makes b0
   with origin a0, client 1 makes a1 with origin b0. A replica first gets {a1, b0}, then
   a0. While looking for the dependency of a1 the picker switches to b0, then back for a0
   and finds client 1 on its stack, so it gives up on all of it. After a0 has been
   integrated the test for a retry (`transaction.rs:883-890`, `899-904`) does not
   always hold and b0 and a1 stay pending although nothing is missing; another update of
   a client named in `missing` is needed to wake them. The documentation promises that
   the order of updates does not matter. `NoStrandedInOrder`, which is
   proved, says that it does not happen while each client's blocks arrive in order and no
   call fails. A call that fails drops blocks it has taken in hand; given once more they come
   after later ones of their client, and the same can happen.
2. **GC blocks are not shortened** (`block_store_gc`). `Block::splice` returns the right
   part of a GC or Skip block and leaves the left part as long as it was. A GC block that
   begins in a hole and ends in known units therefore overlaps them after `exclude`, and
   `push` computes a negative rest of the Skip. `block_store` excludes exactly these
   updates (`GcOverruns = FALSE`); all else holds for all other updates.
3. **Text behind a deletion inherits its format** (`formatting_delta`). `clean_format_gap`
   moves the attributes of the position to the end of the gap and not the position
   (`text.rs:1058`). A delta that deletes the last bold character and then inserts plain text
   puts it in front of the mark that ends the bold, with attributes that say it is behind:
   the text is bold. `formatting` has deltas in which nothing follows a deletion.

These configurations are kept beside the runs and show more instances; TLC finds each
property violated:

* `awareness_survivor.cfg` (`SurvivorIsSeen`): a client that survives its removal raises its
  clock, with a comment that this broadcasts its existence, but names itself in no event.
  Everyone else sees it as gone until it sets a state again or is asked. `OwnerWins` says that
  then everyone takes it.
* `awareness_returns.cfg` (`ChangeNoticed`): a client whose entry has no state and gets one
  by an update is counted as updated, never as added or changed, and `on_change` is not
  triggered. A local return is counted as added.
* `sync_file.cfg` (`FileHasAll`): when a transaction integrates units beyond the first hole of
  a client only, its update event has none of them, because `before_state` is that hole and the
  state vector has not moved. They are in the event of the transaction that fills the hole. A
  file of events has each client's units up to the first hole (`FileMatches`), not all.
* `sync_hole.cfg` (`AssuredOfAll`): an answer to a state vector does not bring what its sender
  has beyond a hole, unless the sender is ahead up to that hole (`store.rs:252`), though
  `sync/protocol.rs` calls the receiver assured of all information. It is assured of all up to
  the holes (`AssuredToHoles`), and nobody gets stuck (`NoStalemate`).
* `undo_key.cfg` (`EditsReverted`): an undo may fail to bring back the value of a key, because
  an item dropped as changing nothing took the knowledge of what it had replaced with it.
* `undo_race.cfg` (`RedoneWasUndone`): a transaction of another task that commits while an
  undo waits finds `undoing` set and is recorded on the redo stack.
* `formatting_types.cfg` (`TypesLookAsAsked`): removing text next to an embedded shared type
  takes the format from the type, because `clean_format_gap` goes on to the next string.

## 4. Proofs

All theorems hold for any values of the constants that satisfy the named assumptions of the
module they are about (`ApplyUpdate`: clients are numbers, units have a client and a clock,
histories are causal, updates are made of units; `Awareness`: any clients and peers;
`SyncExchange`: finitely many peers, no unit with clock 0 continues another; `Yata`: clients
are numbers, a slot is a sequence or a key of a map and not both; `UpdateMerge`: clients are
numbers, an update has its clients in descending order and the blocks of each in ascending
order without overlap, which is how `decode_update` fills and `IntoBlocks` empties it;
`UndoManager`: a slot is a sequence or a key and not both, the scope is made of slots).

`ApplyUpdateProofs` proves `Invariance`: `Spec => []Inv`, where

    Inv == TypeOK /\ DepsIntegrated /\ StashedOnce /\ PickerOwned /\ NothingLost /\ DeletesInv

and with it `TypeCorrect`, `DependenciesFirst`, `StackOncePerClient`, `PickerEmptied`,
`NoBlockLost` and `DeletesAreSettled`. The proof has one lemma per action. Why the
invariant is what it is: `NothingLost` is not inductive alone. `Stash` overwrites the
client's entry of `unapplicable`, which loses nothing only because the entry is empty,
which is `StashedOnce`: a client is at most once on the stack and has no block left in
the picker once it has been given up on. That in turn needs the test of `switch` for the
stack and, when the picker moves to the next client, that a queue belongs to a client
still to be visited (`PickerOwned`); otherwise `Exhausted` and `MergePending`, which
clears the picker, would lose what is still queued. `DeletesSettled` speaks of the time
between calls; `DeletesInv` follows a delete through the call: it is in `deleted`, in
`pendingDs`, in `ds` or in an update still to be applied.

`ApplyUpdateRefinement` proves `Refinement`: `Spec => Implements`, with the refinement
mapping `waiting <- pending, queued, stacked and stashed units that are not in the
store`. Every action maps to a step of `CausalStore` or to a stutter; the proof uses
`Inv`. `CausalStoreProofs` proves that the abstract store keeps its `Promise`.

`NothingStranded` proves `NoStrandedInOrder`. While blocks come in order a pending block always
waits for one that was not given to this replica yet, of a client that `missing` names
(`PendingWaits`): the call that brings it passes the early test, so everything pending is tried
again. A pass of the picker must establish this anew (`PassSound`). As long as nothing was given
up on, the blocks on the stack are a chain, each depending on the client of the next from there on
(`Chained`); histories are causal, so a chain does not come back to where it was (`NoCircle`), and
when the picker gives up, it is because the block it looks for was never given, not because
that is further down the stack. Out of order the last step fails, and that is the first
disagreement of section 3. A failed call counts as out of order: it drops blocks.

`AwarenessProofs` proves all six properties of the run `awareness`. The inductive invariant
is

    Inv == TypeOK /\ LiveKnown /\ OwnerAhead /\ OneStatePerClock

`OneStatePerClock` alone is not inductive: a client that sets a state must not take a clock
under which an older state of its is still known or on its way. `OwnerAhead` says so: every
state, at a peer or in a message, that is not the client's present one has a smaller clock
than the client's own entry. It survives removals because only a state that is not null
counts, and because a survivor takes a clock above that of the removal. From it follows
`OwnStateIsOwn`: no state that arrives can be newer than the client's own. `OthersAgree`
and `OwnerWins` also need `Told`, that every entry a peer has of another client was sent,
and with it the assumption `ChangeListeners = Peers` of the two theorems: where nobody
listens to `on_change`, `remove_state` of a client that is not known is recorded and not
announced (`awareness.rs:172`), and such a peer then ignores that client's first state.

`SyncExchangeProofs` proves `FileIsEnough` (`Spec => []FileMatches`) and `AnswersAreEnough`
(`Spec => AssuredToHoles`). The inductive invariant is

    Inv == DocumentsSound /\ OwnPrefix /\ FileSound /\ MessagesSound /\ FileKeepsUp
           /\ crashes \in 0..MaxCrashes

All its parts speak of `Made`, the units that their author has: no other unit exists, in any
document, message or file. `OwnPrefix` says that an author has its own units without a hole,
so that the next clock, the number of them, is a new one. A restart is where this could fail:
the hub's document may lose units of others that were behind a hole, and what it lost of its
own would be made again. `FileKeepsUp` and `RunsComeBack` rule that out: the hub's own units are
all in front of the first hole, so they are in the file, and a run from clock 0 on never waits
when the file is applied. `Step1Sound` is why an answer to an old state vector suffices: what the
vector claims stays true, since a document only grows as long as its connections last. The
two facts about the operators that carry the rest are `DifferenceSuffices` (what
`write_blocks_from` gives and what the state vector claims make up all before the first hole)
and `EventSuffices` (the same of a transaction's `before_state`). `PeersCatchUp` proves
`NoStalemate` for any links that connect all peers (`Connected`, which the run's links do): of
the units that one peer has and another lacks take one with the least clock; somewhere on the
way between these two are neighbours of which one has it and the other does not, and the
latter integrates it when the answer arrives (`AnswersTeach`).

`YataProofs` proves all five properties of the run `yata`, and convergence
(`SameItemsSameList`: replicas with the same items of a slot have the same list). Everything
rests on `OneOrderExplains`, `Spec => []Inv` with

    Inv == StateSound /\ \E T : Explains(items, T) /\ InOrder(T)

`T` is a total order of all items ever created, of which every list is a part (`InOrder`), as
far as it has arrived. No replica knows `T`; that it exists is the argument. `Explains` lists
four facts that tell where an item belongs: it is between its origins (`Between`); what stands
between an item and its origin depends on that origin (`Nested`); the origin of a right origin
is not right of the origin (`RightOuter`), because the two were neighbours when the item was
made; and if of two items with one origin that with the larger client comes first, its right
origin comes before the other (`ByClient`). `OrderExtends` shows that a local insertion, which
takes neighbours of one list as origins, has a place in `T`: behind the items with its origin
and a smaller client and all that depends on them, before the first item after these that does
not depend on something right of its origin. The other half is that
`resolve_conflict` finds that place although it sees only a part of the items. `ScanSound` says
what its locals mean: `before` is all it has passed, `conflicting` what it has passed since
`left`, and whatever it has passed has the origin of the item or depends on something passed.
What it adopts goes before the item (`SmallerGoesBefore`, `DependentGoesBefore`), so `left` does;
when it ends, what stands behind `left` goes after it (`Stopped`). For the latter, a passed
sibling that goes before the item would have its right origin before it, too, and that would
be a passed sibling farther right. Deletions need only what `Place` does (`PlaceMarks`).

`UpdateMergeProofs` proves the three invariants of the run `merge` for any number of updates,
clients, blocks and clocks: `MergeIsWritable`, `NothingLostInMerge` and `EncodersAgree`. The
inductive invariant `IInv` counts units, not blocks: all that the decoders still have and all
that was taken from them is in some update (`Sound`), and is all there is (`Complete`). Skimming
throws blocks away and `Overlap` cuts the front off one, so `Complete` is not inductive alone.
`Caught` is: whatever of a block still with a decoder lies before the end of the block in hand
has been taken from another decoder. It holds when a client is begun, because the first
decoder has its least clock (`FirstIsFirst`), and when a Skip is put in, for the same reason:
after it was skimmed the first decoder goes on only if its next block is not beyond the block
in hand (`Reorders`), so the one that shows the hole was not skimmed and no other decoder
begins before it. `Descending` says why a client that was left never
comes up again. The rest is about the blocks of one client that touch (`Contiguous`): they
ascend (`Ascending`), a reader who has only the first clock finds each where it was even if
the first is cut (`LaidFacts`), and so `encode_diff` and `state_vector` are right (`DiffFacts`,
`VectorFacts`). Clocks are natural numbers: that they fit into 32 bits is taken for granted.

`UndoManagerProofs` proves `StacksStaySound` (`Spec => []StacksSound`) and `OthersSpared`
(`Spec => SparesOthers`) from `Invariance`, `Spec => []IInv`. The main part of `IInv` is `Parts`: the
document is sound (`DocSound`), every recorded item is (`ItemSound`), in the stacks and in `held`,
and what two of them deleted is disjoint (`StackSound`, `Apart`, `ApartFrom`). `KeptForUndo` alone
is not inductive. A keep flag is one bit, whoever set it: if two recorded transactions could
delete one item, draining the stack that has the one (`Release`) would let the collector empty
what the other brings back. That it cannot happen is why `ItemSound` says that what was
recorded as deleted *is* deleted: an item is never revived, only copied, so a transaction that
commits now deleted nothing that is recorded already (`NewDeletions`). For the same reason
`HandleParts` may release the redo stack and keep what the transaction deleted in one step. A
transaction, whatever it did, is described by `TxSound`: it adds items, deletes some, records both
and moves nothing out of its slot; edits (`EditSound`) and undo and redo (`ProcessedSound`) are of
this kind, and one lemma about the commit (`CommitParts`) serves all.

For `SparesOthers` the recursive functions must be known to be defined. `RedoneSound` says that
a copy is newer than its original and in the same slot, in the chain of a key behind it. So
`FollowRedone` ends, at an item without a copy (`FollowFacts`), and the search to the right
ends, too, at a place to the right (`Searched`, `ReplacedFacts`): at the value itself or at the
last copy of one that was redone, inserted by the item or recorded as deleted (`Replaced`). A
copy at the end of the chain of a key deletes the value before it, and redo deletes nothing else
but copies. That value is of another origin only if it was recorded, that is, if it
is deleted already (`RedoItemSound`). What undo deletes is the last copy of what a recorded
transaction inserted, and neither is of another origin. The induction over numbers that these
need is that of `LeastElement`, `Upwards` and `Downwards`, with sets for predicates.

Only model-checked: `Terminates` (liveness is beyond the prover), `ListsRestored` (it compares
views that lie any number of steps apart), and everything about `BlockStore`, `IdRanges` and
`Formatting`. Several of these are built on folds over sequences, about which the provers know
nothing without induction.

## 5. Plan

Done: `ApplyUpdate` with `CausalStore`, proofs and refinement; `Yata` with proofs; `BlockStore`;
`Awareness` with proofs; `IdRanges`; `UpdateMerge` with proofs; `SyncExchange` with proofs;
`UndoManager` with proofs; `Formatting`.

Left, in this order:

1. Proofs about `IdRanges` (`Canonical`, `SameAsSets`), whose folds would become recursive
   functions over the index, as `Laid` of `UpdateMerge` is; then `BlockStore` (`WellFormed`).
2. Transactions and events: callbacks inside the commit that ask for a transaction of their
   own, and the event deltas of arrays and maps.
3. An abstract specification of `Awareness`, a last-writer-wins register per client.
4. Two replicas that clean up formatting marks concurrently, which composes `Formatting`
   with `Yata`.

## 6. Not modelled

Byte formats and codecs (pure conversion, tested by round trips), JSON path (a read-only
query language), the C and WebAssembly bindings (no logic of their own), readers and events
of the shared types, weak links except as dependencies, sticky indexes, sub-documents, XML
specifics. The reasons are in `PROJECT.json`. More than half of the crate is of this kind:
bindings, readers, conversions and generic wrappers, with no state to check. Liveness of
the whole system (replicas converge) needs a network that delivers, of which the code
promises nothing; see `NoStalemate`.
