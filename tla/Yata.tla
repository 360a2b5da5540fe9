-------------------------------- MODULE Yata --------------------------------
(***************************************************************************)
(* Replicas of one document that insert, overwrite and delete concurrently *)
(* and integrate each other's items: TransactionMut::integrate_item with   *)
(* Item::resolve_conflict, the insertions of texts, arrays and maps, and   *)
(* TransactionMut::delete.                                                 *)
(*                                                                         *)
(* An item has length one (a longer block is a run of such items, each     *)
(* with its predecessor as origin).  The linked list of a sequence, or the *)
(* chain of entries of one map key, is a "slot": a TLA+ sequence in which  *)
(* tombstones stay.  Every parent is a root type.                          *)
(***************************************************************************)
EXTENDS Integers, FiniteSets, SequencesExt

CONSTANTS
  Replicas,    \* replicas, each with its client identifier; conflicts compare these
  MaxItems,    \* bound: items a replica creates
  MaxTotal,    \* bound: items all replicas create
  MaxDeletes,  \* bound: items users delete
  DeleteFrom,  \* bound: slots users delete from
  MaxSlots,    \* bound: slots that have items
  Lists,       \* slots that are sequences: texts and arrays
  Keys         \* slots that are map entries

ASSUME ReplicasAssumption == Replicas \subseteq Nat
ASSUME BoundsAssumption == {MaxItems, MaxTotal, MaxDeletes, MaxSlots} \subseteq Nat
ASSUME SlotsAssumption == Lists \cap Keys = {} /\ DeleteFrom \subseteq Lists \cup Keys

Slots == Lists \cup Keys
Ids == [client : Replicas, clock : 0..(MaxItems - 1)]
None == [client |-> -1, clock |-> -1]
Items == [slot : Slots, origin : Ids \cup {None}, right : Ids \cup {None}]

VARIABLES
  items,       \* every item created so far, with its origin and right origin
  order,       \* order[r][s]: the list of slot s at replica r
  deleted,     \* deleted[r]: the items marked as deleted at r
  scan,        \* the integration in progress, with the locals of resolve_conflict
  removed      \* the items some user deleted

vars == <<items, order, deleted, scan, removed>>

NoScan == [replica |-> -1, item |-> None, left |-> 0, next |-> 0,
           before |-> {}, conflicting |-> {}]
Scans == [replica : Replicas, item : Ids, left : Nat, next : Nat,
          before : SUBSET Ids, conflicting : SUBSET Ids]

Idle == scan = NoScan
Integrated(r) == UNION {Range(order[r][s]) : s \in Slots}
Present(r, i) == i = None \/ i \in Integrated(r)

Init ==
  /\ items = <<>>
  /\ order = [r \in Replicas |-> [s \in Slots |-> <<>>]]
  /\ deleted = [r \in Replicas |-> {}]
  /\ scan = NoScan
  /\ removed = {}

----------------------------------------------------------------------------
(***************************************************************************)
(* The end of integrate_item: x is linked in after position p of slot s.   *)
(* In a map the last entry is the value: it deletes the one before it, and *)
(* an entry that does not end up last is deleted itself (needs_deletion).  *)
(***************************************************************************)
\* mutated Overwritten: an entry that is not linked last stays
OverwrittenLastOnly(list, x, p) == IF p > 0 THEN {list[p]} ELSE {}
\* mutated Overwritten: deletes the new entry when it is linked last, too
OverwrittenAlways(list, x, p) == IF p <= Len(list) THEN {x} ELSE {list[p]}

Overwritten(list, x, p) ==
  IF p < Len(list) THEN {x} ELSE IF p > 0 THEN {list[p]} ELSE {}

Place(r, s, x, p) ==
  /\ order' = [order EXCEPT ![r][s] = InsertAt(@, p + 1, x)]
  /\ deleted' = IF s \in Keys
                THEN [deleted EXCEPT ![r] = @ \cup Overwritten(order[r][s], x, p)]
                ELSE deleted

(***************************************************************************)
(* A local insertion at position p: text, array and undo insert between    *)
(* two neighbours, which become the origins; a map inserts after its last  *)
(* entry.  Neighbours cannot conflict, so the item is placed at once.      *)
(***************************************************************************)
NextId(r) == [client |-> r, clock |-> Cardinality({i \in DOMAIN items : i.client = r})]

Create(r, s, p) ==
  LET list == order[r][s]
      item == [slot   |-> s,
               origin |-> IF p = 0 THEN None ELSE list[p],
               right  |-> IF p = Len(list) THEN None ELSE list[p + 1]]
  IN /\ NextId(r).clock < MaxItems
     /\ Cardinality(DOMAIN items) < MaxTotal
     /\ Cardinality({s} \cup {items[i].slot : i \in DOMAIN items}) <= MaxSlots
     /\ items' = [i \in DOMAIN items \cup {NextId(r)} |->
                    IF i = NextId(r) THEN item ELSE items[i]]
     /\ Place(r, s, NextId(r), p)
     /\ UNCHANGED <<scan, removed>>

InsertInList(r) ==
  /\ Idle
  /\ \E s \in Lists : \E p \in 0..Len(order[r][s]) : Create(r, s, p)

InsertInMap(r) ==
  /\ Idle
  /\ \E s \in Keys : Create(r, s, Len(order[r][s]))

\* the user removes a visible element: any one of a list, the current one of a map
Delete(r) ==
  /\ Idle
  /\ Cardinality(removed) < MaxDeletes
  /\ \E s \in DeleteFrom : \E p \in 1..Len(order[r][s]) :
       /\ s \in Keys => p = Len(order[r][s])
       /\ order[r][s][p] \notin deleted[r]
       /\ deleted' = [deleted EXCEPT ![r] = @ \cup {order[r][s][p]}]
       /\ removed' = removed \cup {order[r][s][p]}
  /\ UNCHANGED <<items, order, scan>>

\* a delete set made at another replica, applied to an item that is here
ReceiveDelete(r) ==
  /\ Idle
  /\ \E q \in Replicas \ {r} : \E x \in (deleted[q] \cap Integrated(r)) \ deleted[r] :
       deleted' = [deleted EXCEPT ![r] = @ \cup {x}]
  /\ UNCHANGED <<items, order, scan, removed>>

----------------------------------------------------------------------------
(***************************************************************************)
(* A remote item arrives once its origins are here, and in no other order: *)
(* later items of a client may come before earlier ones.  Then the loop of *)
(* resolve_conflict runs, one iteration per step.  The replicas share      *)
(* nothing and a transaction is exclusive, so one integration at a time    *)
(* over all of them loses no behaviour.                                    *)
(***************************************************************************)
Receive(r) ==
  /\ Idle
  /\ \E x \in DOMAIN items \ Integrated(r) :
       /\ Present(r, items[x].origin) /\ Present(r, items[x].right)
       /\ \E l \in 0..Len(order[r][items[x].slot]) :
            /\ items[x].origin = IF l = 0 THEN None ELSE order[r][items[x].slot][l]
            /\ scan' = [replica |-> r, item |-> x, left |-> l, next |-> l + 1,
                        before |-> {}, conflicting |-> {}]
  /\ UNCHANGED <<items, order, deleted, removed>>

Self == items[scan.item]
List == order[scan.replica][Self.slot]
Other == List[scan.next]                       \* `o`, while there is one
Before == scan.before \cup {Other}             \* items_before_origin
Conflicting == scan.conflicting \cup {Other}   \* conflicting_items

\* mutated AtRightOrigin: runs past the right origin
AtListEnd == scan.next > Len(List)

AtRightOrigin == scan.next <= Len(List) => Other = Self.right
SameOrigin == items[Other].origin = Self.origin

\* mutated Adopts: only items with the same origin go before
AdoptsSameOriginOnly == SameOrigin /\ Other.client < scan.item.client

\* `o` goes before the item: left = o
Adopts ==
  IF SameOrigin
  THEN Other.client < scan.item.client
  ELSE items[Other].origin \in Before \ Conflicting

\* `o` decides nothing yet
Passes ==
  IF SameOrigin
  THEN Other.client >= scan.item.client /\ items[Other].right # Self.right
  ELSE items[Other].origin \in Conflicting

\* mutated ScanAdopt: conflicting_items is not cleared
ScanAdoptKeeps ==
  /\ ~Idle /\ ~AtRightOrigin /\ Adopts
  /\ scan' = [scan EXCEPT !.left = scan.next, !.next = scan.next + 1,
                          !.before = Before, !.conflicting = Conflicting]
  /\ UNCHANGED <<items, order, deleted, removed>>

ScanAdopt ==
  /\ ~Idle /\ ~AtRightOrigin /\ Adopts
  /\ scan' = [scan EXCEPT !.left = scan.next, !.next = scan.next + 1,
                          !.before = Before, !.conflicting = {}]
  /\ UNCHANGED <<items, order, deleted, removed>>

ScanPass ==
  /\ ~Idle /\ ~AtRightOrigin /\ Passes
  /\ scan' = [scan EXCEPT !.next = scan.next + 1,
                          !.before = Before, !.conflicting = Conflicting]
  /\ UNCHANGED <<items, order, deleted, removed>>

Link ==
  /\ ~Idle
  /\ ~AtRightOrigin => ~Adopts /\ ~Passes
  /\ Place(scan.replica, Self.slot, scan.item, scan.left)
  /\ scan' = NoScan
  /\ UNCHANGED <<items, removed>>

Next ==
  \/ \E r \in Replicas :
       InsertInList(r) \/ InsertInMap(r) \/ Delete(r) \/ ReceiveDelete(r) \/ Receive(r)
  \/ ScanAdopt \/ ScanPass \/ Link

Spec == Init /\ [][Next]_vars

----------------------------------------------------------------------------
(***************************************************************************)
(* Properties.                                                             *)
(***************************************************************************)
Precedes(list, x, y) ==
  \E i, j \in 1..Len(list) : i < j /\ list[i] = x /\ list[j] = y

TypeOK ==
  /\ DOMAIN items \subseteq Ids
  /\ items \in [DOMAIN items -> Items]
  /\ order \in [Replicas -> [Slots -> Seq(DOMAIN items)]]
  /\ deleted \in [Replicas -> SUBSET DOMAIN items]
  /\ scan \in Scans \cup {NoScan}
  /\ removed \subseteq DOMAIN items

\* integrate_item links an item once, into the list it was created in, and right of
\* its origin: whatever was inserted between them, resolve_conflict only moves right.
OriginOnLeft ==
  \A r \in Replicas, s \in Slots : LET list == order[r][s] IN
    \A i \in 1..Len(list) :
      /\ items[list[i]].slot = s
      /\ \A j \in 1..Len(list) : list[i] = list[j] => i = j
      /\ items[list[i]].origin # None => Precedes(list, items[list[i]].origin, list[i])

\* Every replica links an item left of its right origin, though the loop that places
\* it may stop anywhere and the origins were neighbours only at their creator.
RightOriginOnRight ==
  \A r \in Replicas, s \in Slots : LET list == order[r][s] IN
    \A i \in 1..Len(list) :
      items[list[i]].right # None => Precedes(list, list[i], items[list[i]].right)

\* What integrate_item leaves is well formed: each item once, between its origins.
WellPlaced == TypeOK /\ OriginOnLeft /\ RightOriginOnRight

\* resolve_conflict gives all replicas one order of all items: no cycle of items of
\* a slot such that each precedes the next at some replica.  Whatever has arrived
\* where, no two replicas ever show two items in opposite orders.
OneOrder ==
  \A s \in Slots : \A C \in SUBSET {x \in DOMAIN items : items[x].slot = s} :
    C # {} => \E x \in C : \A y \in C, r \in Replicas : ~Precedes(order[r][s], y, x)

\* Connections between items and their origins do not cross: what stands between an
\* item and its origin was itself inserted there, not left of the origin.  So a run
\* that one user types is not torn apart by what others type at the same place.
NoCrossing ==
  \A r \in Replicas, s \in Slots : LET list == order[r][s] IN
    \A i, j \in 1..Len(list) :
      /\ items[list[i]].origin # None
      /\ Precedes(list, items[list[i]].origin, list[j])
      /\ j < i
      => \/ items[list[j]].origin = items[list[i]].origin
         \/ Precedes(list, items[list[i]].origin, items[list[j]].origin)

\* A map key shows at most one value, its last entry: every earlier entry is deleted
\* at the moment another is linked after it.
LastEntryWins ==
  \A r \in Replicas, s \in Keys : LET list == order[r][s] IN
    \A i \in 1..(Len(list) - 1) : list[i] \in deleted[r]

\* A value disappears only for a reason: an item is deleted because a user deleted
\* it, or it is a map entry after which some replica has linked another.
NoPhantomDelete ==
  \A r \in Replicas : \A x \in deleted[r] \ removed :
    \E q \in Replicas : LET list == order[q][items[x].slot] IN
      /\ items[x].slot \in Keys
      /\ \E i \in 1..(Len(list) - 1) : list[i] = x
============================================================================
