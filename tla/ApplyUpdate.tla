---------------------------- MODULE ApplyUpdate ----------------------------
(***************************************************************************)
(* One replica applying remote updates: TransactionMut::apply_update with  *)
(* everything it runs, Update::integrate, Update::missing_dependency, the  *)
(* BlockPicker, TransactionMut::apply_delete, and the two parking places   *)
(* of the store, `pending` and `pending_ds`.                               *)
(*                                                                         *)
(* A block is modelled by its units, one per clock of its client: a block  *)
(* of length n is n consecutive units.  A call runs under the exclusive    *)
(* transaction, so one call is in progress at a time; it is a sequence of  *)
(* small steps because its loop, its work stack and its recursion are      *)
(* where it can go wrong.                                                  *)
(***************************************************************************)
EXTENDS Integers, Sequences, FiniteSets, Functions

CONSTANTS
  Clients,     \* client identifiers; the picker visits them in descending order
  MaxClock,    \* bound: the largest clock of any client
  Units,       \* every unit any client ever creates
  Histories,   \* the dependency relations the units may have
  Updates,     \* for each history, the updates peers may send: [blocks, ds]
  Invalid      \* units whose parent is an item that is not a shared type

Clocks == 0..MaxClock

(***************************************************************************)
(* A relation is a history of real clients when every set of units has a   *)
(* member that neither depends on another of the set nor follows one of    *)
(* the same client: no unit is older than what it was created from.        *)
(***************************************************************************)
Causal(dep) ==
  \A S \in SUBSET Units : S # {} =>
    \E u \in S : \A v \in S :
      /\ v \notin Range(dep[u])
      /\ ~(v.client = u.client /\ v.clock < u.clock)

ASSUME ClientsAssumption == Clients \subseteq Nat
ASSUME MaxClockAssumption == MaxClock \in Nat
ASSUME UnitsAssumption == Units \subseteq [client : Clients, clock : Clocks]
ASSUME HistoriesAssumption ==
  /\ Histories \subseteq [Units -> Seq(Units)]
  /\ \A dep \in Histories : Causal(dep)
ASSUME UpdatesAssumption ==
  Updates \in [Histories -> SUBSET [blocks : SUBSET Units, ds : SUBSET Units]]
ASSUME InvalidAssumption == Invalid \subseteq Units

NoClient == -1
NoClock == -1
NoUnit == [client |-> NoClient, clock |-> NoClock]
ClockOrNone == Clocks \cup {MaxClock + 1, NoClock}
Update == [blocks : SUBSET Units, ds : SUBSET Units]

VARIABLES
  deps,            \* the history: deps[u] lists origin, right origin, parent of u
  have,            \* units in the block store (the rest are Skips or past its end)
  deleted,         \* units marked as deleted
  pendingBlocks,   \* Store.pending.update, {} when there is no pending update
  pendingMissing,  \* Store.pending.missing
  pendingDs        \* Store.pending_ds, {} when None

VARIABLES
  pc,              \* where the running call is
  todo,            \* updates still to apply: the call's own and its recursive calls'
  ds,              \* delete set of the running update, then what is left of it
  retry,           \* the local `retry` of the running call
  queue,           \* per client the blocks left in picker.store or picker.latest
  clients,         \* picker.clients
  latest,          \* client of picker.latest
  stack,           \* picker.stack, its top last
  head,            \* the block being looked at, `stack_head`
  unapplicable,    \* picker.unapplicable
  missing          \* picker.missing

VARIABLES          \* what was given to apply_update so far, whether each client's
                   \* blocks came in their order, and whether a call failed
  delivered, deliveredDs, ordered, failed

store == <<have, deleted, pendingBlocks, pendingMissing, pendingDs>>
picker == <<queue, clients, latest, stack, head, unapplicable, missing>>
ghost == <<delivered, deliveredDs, ordered, failed>>
vars == <<deps, store, pc, todo, ds, retry, picker, ghost>>

(***************************************************************************)
(* Helpers.                                                                *)
(***************************************************************************)
Of(S, c) == {u \in S : u.client = c}
Queued == UNION {queue[c] : c \in Clients}
Stashed == UNION {unapplicable[c] : c \in Clients}

\* BlockStore::get_clock: one past the last block of the client, Skips included
GetClock(c) ==
  CHOOSE n \in 0..(MaxClock + 1) :
    /\ \A u \in Of(have, c) : u.clock < n
    /\ \A m \in 0..(MaxClock + 1) : (\A u \in Of(have, c) : u.clock < m) => n <= m

\* mutated Absent: takes for granted what the block's own client made
AbsentFromOthers(u) ==
  {i \in 1..Len(deps[u]) : deps[u][i] \notin have /\ deps[u][i].client # u.client}

\* positions in deps[u] of what BlockStore::is_missing
Absent(u) == {i \in 1..Len(deps[u]) : deps[u][i] \notin have}

\* StateVector::set_min
SetMin(sv, c, clock) ==
  [sv EXCEPT ![c] = IF @ = NoClock \/ clock < @ THEN clock ELSE @]

\* mutated MergeMin: the new clocks replace the old
MergeReplaces(sv1, sv2) == sv2

MergeMin(sv1, sv2) ==
  [c \in Clients |-> IF sv2[c] = NoClock THEN sv1[c] ELSE SetMin(sv1, c, sv2[c])[c]]

NothingMissing == [c \in Clients |-> NoClock]
EmptyPicker ==
  /\ queue' = [c \in Clients |-> {}]
  /\ clients' = {}
  /\ latest' = NoClient
  /\ stack' = <<>>
  /\ head' = NoUnit
  /\ unapplicable' = [c \in Clients |-> {}]
  /\ missing' = NothingMissing

Init ==
  /\ deps \in Histories
  /\ have = {} /\ deleted = {}
  /\ pendingBlocks = {} /\ pendingMissing = NothingMissing /\ pendingDs = {}
  /\ pc = "idle" /\ todo = <<>> /\ ds = {} /\ retry = FALSE
  /\ queue = [c \in Clients |-> {}] /\ clients = {} /\ latest = NoClient
  /\ stack = <<>> /\ head = NoUnit
  /\ unapplicable = [c \in Clients |-> {}] /\ missing = NothingMissing
  /\ delivered = {} /\ deliveredDs = {} /\ ordered = TRUE /\ failed = FALSE

----------------------------------------------------------------------------
(***************************************************************************)
(* The call: any update, in any order, any number of times.  `ordered`     *)
(* holds while no block came before the earlier ones of its client, as     *)
(* with a transport that keeps the order of each client's updates.         *)
(***************************************************************************)
NoGap(S) ==
  \A b \in S : \A v \in Units :
    v.client = b.client /\ v.clock < b.clock => v \in S

Call(u) ==
  /\ pc = "idle"
  /\ pc' = "begin"
  /\ todo' = <<u>>
  /\ delivered' = delivered \cup u.blocks
  /\ deliveredDs' = deliveredDs \cup u.ds
  /\ ordered' = (ordered /\ NoGap(delivered \cup u.blocks))
  /\ UNCHANGED <<deps, store, ds, retry, picker, failed>>

\* 1. known units become Skips, which the loop passes over; the early retry test
Begin ==
  /\ pc = "begin"
  /\ LET u == Head(todo)
         fresh == u.blocks \ have
         named == {b.client : b \in u.blocks}
     IN /\ queue' = [c \in Clients |-> Of(fresh, c)]
        /\ clients' = named
        /\ ds' = u.ds
        /\ retry' = (pendingBlocks # {} /\ \E c \in named : pendingMissing[c] # NoClock)
  /\ todo' = Tail(todo)
  /\ pc' = "next"
  /\ UNCHANGED <<deps, store, latest, stack, head, unapplicable, missing, ghost>>

----------------------------------------------------------------------------
(***************************************************************************)
(* 2. Update::integrate: picker.next ...                                   *)
(***************************************************************************)
PopStack ==
  /\ pc = "next"
  /\ stack # <<>>
  /\ head' = stack[Len(stack)]
  /\ stack' = SubSeq(stack, 1, Len(stack) - 1)
  /\ pc' = "try"
  /\ UNCHANGED <<deps, store, todo, ds, retry, queue, clients, latest,
                 unapplicable, missing, ghost>>

PopFront(c) ==
  \E u \in queue[c] :
    /\ \A v \in queue[c] : u.clock <= v.clock
    /\ head' = u
    /\ queue' = [queue EXCEPT ![c] = @ \ {u}]

PopLatest ==
  /\ pc = "next"
  /\ stack = <<>>
  /\ latest # NoClient
  /\ PopFront(latest)
  /\ pc' = "try"
  /\ UNCHANGED <<deps, store, todo, ds, retry, clients, latest, stack,
                 unapplicable, missing, ghost>>

\* mutated LatestEmpty: goes to the next client without having read the latest
LatestDropped == TRUE

LatestEmpty == latest \in Clients => queue[latest] = {}

NextClient ==
  /\ pc = "next"
  /\ stack = <<>>
  /\ LatestEmpty
  /\ \E c \in clients :
       /\ \A d \in clients : d <= c
       /\ latest' = c
       /\ clients' = clients \ {c}
  /\ UNCHANGED <<deps, store, pc, todo, ds, retry, queue, stack, head,
                 unapplicable, missing, ghost>>

Exhausted ==
  /\ pc = "next"
  /\ stack = <<>>
  /\ LatestEmpty
  /\ clients = {}
  /\ pc' = "deletes"
  /\ UNCHANGED <<deps, store, todo, ds, retry, picker, ghost>>

(***************************************************************************)
(* ... and the body of its loop: integrate the block, or go after what it  *)
(* misses, or give up on everything that waits for it.                     *)
(***************************************************************************)
Integrate ==
  /\ pc = "try"
  /\ Absent(head) = {}
  /\ head \notin Invalid
  /\ have' = have \cup {head}
  /\ head' = NoUnit
  /\ pc' = "next"
  /\ UNCHANGED <<deps, deleted, pendingBlocks, pendingMissing, pendingDs, todo, ds,
                 retry, queue, clients, latest, stack, unapplicable, missing, ghost>>

\* mutated Fail: the block is in the store when the error is noticed
FailAfterPush ==
  /\ pc = "try"
  /\ Absent(head) = {}
  /\ head \in Invalid
  /\ EmptyPicker
  /\ have' = have \cup {head}
  /\ todo' = <<>> /\ ds' = {} /\ retry' = FALSE
  /\ pc' = "idle"
  /\ failed' = TRUE
  /\ UNCHANGED <<deps, deleted, pendingBlocks, pendingMissing, pendingDs,
                 delivered, deliveredDs, ordered>>

\* UpdateError::InvalidParent leaves apply_update through its `?`, which drops
\* the rest of the update, and the pending update when that is being retried
Fail ==
  /\ pc = "try"
  /\ Absent(head) = {}
  /\ head \in Invalid
  /\ EmptyPicker
  /\ todo' = <<>> /\ ds' = {} /\ retry' = FALSE
  /\ pc' = "idle"
  /\ failed' = TRUE
  /\ UNCHANGED <<deps, store, delivered, deliveredDs, ordered>>

\* the client missing_dependency returns: the first dependency not in the store
FirstAbsent(u, c) ==
  \E i \in Absent(u) : (\A j \in Absent(u) : i <= j) /\ deps[u][i].client = c

OnStack(c) == \E i \in 1..Len(stack) : stack[i].client = c

\* mutated CanSwitch: does not look for c on the stack
SwitchesAnyway(c) == c # latest /\ queue[c] # {} /\ c # head.client

\* picker.store has blocks of c, and no block of c waits on the stack
CanSwitch(c) == c # latest /\ queue[c] # {} /\ c # head.client /\ ~OnStack(c)

Switch ==
  /\ pc = "try"
  /\ \E c \in Clients :
       /\ FirstAbsent(head, c)
       /\ CanSwitch(c)
       /\ PopFront(c)
  /\ stack' = Append(stack, head)
  /\ UNCHANGED <<deps, store, pc, todo, ds, retry, clients, latest,
                 unapplicable, missing, ghost>>

\* mutated GiveUp: the block is pushed and stays in hand
GiveUpKeepsHead ==
  /\ pc = "try"
  /\ \E c \in Clients :
       /\ FirstAbsent(head, c)
       /\ ~CanSwitch(c)
       /\ missing' = SetMin(missing, c, GetClock(c))
  /\ stack' = Append(stack, head)
  /\ pc' = "drain"
  /\ UNCHANGED <<deps, store, todo, ds, retry, queue, clients, latest, head,
                 unapplicable, ghost>>

GiveUp ==
  /\ pc = "try"
  /\ \E c \in Clients :
       /\ FirstAbsent(head, c)
       /\ ~CanSwitch(c)
       /\ missing' = SetMin(missing, c, GetClock(c))
  /\ stack' = Append(stack, head)
  /\ head' = NoUnit
  /\ pc' = "drain"
  /\ UNCHANGED <<deps, store, todo, ds, retry, queue, clients, latest,
                 unapplicable, ghost>>

\* mutated Stash: only the block on the stack is kept, not the client's queue
StashForgetsQueue ==
  /\ pc = "drain"
  /\ stack # <<>>
  /\ LET item == Head(stack)
         c == item.client
     IN /\ unapplicable' = [unapplicable EXCEPT ![c] = {item}]
        /\ queue' = [queue EXCEPT ![c] = {}]
  /\ stack' = Tail(stack)
  /\ UNCHANGED <<deps, store, pc, todo, ds, retry, clients, latest, head,
                 missing, ghost>>

\* one round of `for item in self.stack.drain(..)`; the insert replaces what
\* unapplicable held for the client
Stash ==
  /\ pc = "drain"
  /\ stack # <<>>
  /\ LET item == Head(stack)
         c == item.client
     IN /\ unapplicable' = [unapplicable EXCEPT ![c] = {item} \cup queue[c]]
        /\ queue' = [queue EXCEPT ![c] = {}]
  /\ stack' = Tail(stack)
  /\ UNCHANGED <<deps, store, pc, todo, ds, retry, clients, latest, head,
                 missing, ghost>>

Drained ==
  /\ pc = "drain"
  /\ stack = <<>>
  /\ pc' = "next"
  /\ UNCHANGED <<deps, store, todo, ds, retry, picker, ghost>>

----------------------------------------------------------------------------
(***************************************************************************)
(* The end of the call: the update's deletes, then steps 3, 4 and 5.       *)
(***************************************************************************)
\* [from, to) is a Skip: a longest run of clocks below a block of c that are not there
Skip(c, from, to) ==
  LET at(k) == [client |-> c, clock |-> k] IN
  /\ from < to /\ at(to) \in have
  /\ \A k \in from..(to - 1) : at(k) \notin have
  /\ from > 0 => at(from - 1) \in have

\* What apply_delete returns: the deletes of units that are not there, and more when
\* a range begins inside a Skip.  `block.len().min(clock_end - clock)` counts the
\* Skip's whole length from the range's start and so runs on past the Skip's end.
Unapplied(D) ==
  (D \ have) \cup
  {d \in D : \E from, start, to \in Clocks :
     /\ Skip(d.client, from, to) /\ from < start /\ start < to
     /\ start <= d.clock /\ d.clock < start + (to - from)
     /\ [client |-> d.client, clock |-> start - 1] \notin D
     /\ \A k \in start..d.clock : [client |-> d.client, clock |-> k] \in D}

ApplyDelete ==
  /\ pc = "deletes"
  /\ deleted' = deleted \cup (ds \cap have)
  /\ ds' = Unapplied(ds)
  /\ pc' = "merge"
  /\ UNCHANGED <<deps, have, pendingBlocks, pendingMissing, pendingDs, todo, retry,
                 picker, ghost>>

\* mutated MergePending: retries when the missing clock is only reached, not passed
MergeRetriesEarly ==
  /\ pc = "merge"
  /\ IF pendingBlocks = {}
     THEN /\ pendingBlocks' = Stashed
          /\ pendingMissing' = missing
          /\ retry' = retry
     ELSE /\ retry' = (retry \/ \E c \in Clients :
                          pendingMissing[c] # NoClock /\ pendingMissing[c] <= GetClock(c))
          /\ pendingBlocks' = pendingBlocks \cup Stashed
          /\ pendingMissing' = MergeMin(pendingMissing, missing)
  /\ EmptyPicker
  /\ pc' = "pending_ds"
  /\ UNCHANGED <<deps, have, deleted, pendingDs, todo, ds, ghost>>

\* 3. what could not be applied joins the pending update
MergePending ==
  /\ pc = "merge"
  /\ IF pendingBlocks = {}
     THEN /\ pendingBlocks' = Stashed
          /\ pendingMissing' = missing
          /\ retry' = retry
     ELSE /\ retry' = (retry \/ \E c \in Clients :
                          pendingMissing[c] # NoClock /\ pendingMissing[c] < GetClock(c))
          /\ pendingBlocks' = pendingBlocks \cup Stashed
          /\ pendingMissing' = MergeMin(pendingMissing, missing)
  /\ EmptyPicker
  /\ pc' = "pending_ds"
  /\ UNCHANGED <<deps, have, deleted, pendingDs, todo, ds, ghost>>

\* mutated ApplyPendingDs: the update's unapplied deletes replace the parked ones
PendingDsReplaced ==
  /\ pc = "pending_ds"
  /\ deleted' = deleted \cup (pendingDs \cap have)
  /\ pendingDs' = IF ds # {} THEN ds ELSE Unapplied(pendingDs)
  /\ ds' = {}
  /\ pc' = "return"
  /\ UNCHANGED <<deps, have, pendingBlocks, pendingMissing, todo, retry, picker, ghost>>

\* 4. the parked deletes are tried again
ApplyPendingDs ==
  /\ pc = "pending_ds"
  /\ deleted' = deleted \cup (pendingDs \cap have)
  /\ pendingDs' = Unapplied(pendingDs) \cup ds
  /\ ds' = {}
  /\ pc' = "return"
  /\ UNCHANGED <<deps, have, pendingBlocks, pendingMissing, todo, retry, picker, ghost>>

\* mutated Retry: pending_ds is taken, and not applied again
RetryForgetsDs ==
  /\ pc = "return"
  /\ retry /\ pendingBlocks # {}
  /\ todo' = <<[blocks |-> pendingBlocks, ds |-> {}]>> \o todo
  /\ pendingBlocks' = {} /\ pendingMissing' = NothingMissing /\ pendingDs' = {}
  /\ retry' = FALSE
  /\ pc' = "begin"
  /\ UNCHANGED <<deps, have, deleted, ds, picker, ghost>>

\* 5. apply_update(pending.update)?; apply_update(ds_update)?
Retry ==
  /\ pc = "return"
  /\ retry /\ pendingBlocks # {}
  /\ todo' = <<[blocks |-> pendingBlocks, ds |-> {}], [blocks |-> {}, ds |-> pendingDs]>>
             \o todo
  /\ pendingBlocks' = {} /\ pendingMissing' = NothingMissing /\ pendingDs' = {}
  /\ retry' = FALSE
  /\ pc' = "begin"
  /\ UNCHANGED <<deps, have, deleted, ds, picker, ghost>>

Return ==
  /\ pc = "return"
  /\ ~(retry /\ pendingBlocks # {})
  /\ retry' = FALSE
  /\ pc' = IF todo = <<>> THEN "idle" ELSE "begin"
  /\ UNCHANGED <<deps, store, todo, ds, picker, ghost>>

Step ==
  \/ Begin
  \/ PopStack \/ PopLatest \/ NextClient \/ Exhausted
  \/ Integrate \/ Fail \/ Switch \/ GiveUp \/ Stash \/ Drained
  \/ ApplyDelete \/ MergePending \/ ApplyPendingDs \/ Retry \/ Return

Next == (\E u \in Updates[deps] : Call(u)) \/ Step

\* a call runs on one thread and does not block: it keeps stepping until it returns
Fairness == WF_vars(Step)

Spec == Init /\ [][Next]_vars /\ Fairness

----------------------------------------------------------------------------
(***************************************************************************)
(* Properties.                                                             *)
(***************************************************************************)

\* The types of the variables.  While a block is looked at, `head` is that block.
TypeOK ==
  /\ deps \in Histories
  /\ have \subseteq Units /\ deleted \subseteq Units
  /\ pendingBlocks \subseteq Units /\ pendingDs \subseteq Units
  /\ pendingMissing \in [Clients -> ClockOrNone]
  /\ pc \in {"idle", "begin", "next", "try", "drain", "deletes", "merge",
             "pending_ds", "return"}
  /\ todo \in Seq(Update)
  /\ (pc = "begin" => todo # <<>>) /\ (pc = "idle" => todo = <<>>)
  /\ ds \subseteq Units
  /\ retry \in BOOLEAN
  /\ queue \in [Clients -> SUBSET Units]
  /\ \A c \in Clients : queue[c] = Of(queue[c], c)
  /\ clients \subseteq Clients
  /\ latest \in Clients \cup {NoClient}
  /\ stack \in Seq(Units)
  /\ head \in IF pc = "try" THEN Units ELSE {NoUnit}
  /\ unapplicable \in [Clients -> SUBSET Units]
  /\ missing \in [Clients -> ClockOrNone]
  /\ delivered \subseteq Units /\ deliveredDs \subseteq Units
  /\ ordered \in BOOLEAN /\ failed \in BOOLEAN

\* Update::integrate never puts a block in the store before its origin, its right
\* origin and its parent, whatever the order updates arrive in and however the
\* picker jumps between clients.
DepsIntegrated == \A u \in have : Range(deps[u]) \subseteq have

\* BlockPicker: a client waits at most once on the stack, and a client that was
\* given up on has no block left anywhere in the picker.  Draining the stack
\* replaces the client's entry of `unapplicable`, so a second block of one client
\* would erase the first one's queue.
InPicker(c) == queue[c] # {} \/ head.client = c \/ OnStack(c)

StashedOnce ==
  /\ \A i, j \in 1..Len(stack) : stack[i].client = stack[j].client => i = j
  /\ \A i \in 1..Len(stack) : stack[i].client # head.client
  /\ \A c \in Clients : unapplicable[c] # {} => ~InPicker(c)

\* Where the picker keeps blocks: a queue that is not empty belongs to a client it
\* has still to visit or is reading, and when it returns None, having jumped between
\* clients and given up on some, no block is left in it.
PickerOwned ==
  /\ \A c \in Clients : queue[c] # {} => c \in clients \cup {latest}
  /\ pc \notin {"next", "try", "drain"} =>
       stack = <<>> /\ clients = {} /\ \A c \in Clients : queue[c] = {}
  /\ pc \notin {"next", "try", "drain", "deletes", "merge"} =>
       latest = NoClient /\ \A c \in Clients : unapplicable[c] = {}

\* Nothing that was given to apply_update is lost: every block is in the store, in
\* the pending update, or in the hands of the running call.
InFlight ==
  Queued \cup Range(stack) \cup {head} \cup Stashed
    \cup UNION {todo[i].blocks : i \in 1..Len(todo)}

NothingLost == ~failed => delivered \subseteq have \cup pendingBlocks \cup InFlight

\* The deletes of an update wait for their blocks: between calls a delete has taken
\* effect if and only if its block is there, it is parked if its block is not, and
\* nothing stays parked once all the blocks are there.
DeletesSettled ==
  pc = "idle" /\ ~failed =>
    /\ deleted = deliveredDs \cap have
    /\ deliveredDs \ have \subseteq pendingDs /\ pendingDs \subseteq deliveredDs
    /\ deliveredDs \subseteq have => pendingDs = {}

\* No stranded pending update: between calls, if all that the pending blocks need
\* is in the store or among themselves, there is no pending block.  With
\* NothingLost: once a causally closed set of updates was given, in any order,
\* every block of it is integrated.
NoStranded ==
  pc = "idle" /\ (\A u \in pendingBlocks : Range(deps[u]) \subseteq have \cup pendingBlocks)
    => pendingBlocks = {}

\* That holds as long as the blocks of each client arrive in their order and no call
\* failed: one that did has dropped blocks, and given again they come out of order.
NoStrandedInOrder == ordered /\ ~failed => NoStranded

\* Every call of apply_update returns: the picker's jumps and the recursion of
\* step 5 make progress.
Terminates == (pc # "idle") ~> (pc = "idle")

\* apply_update implements the abstract store: what waits there is, here, spread
\* over the pending update, the picker, its stack, and the calls still to be made.
Waiting == (pendingBlocks \cup (InFlight \ {NoUnit})) \ have
WaitingDs ==
  (pendingDs \cup ds \cup UNION {todo[i].ds : i \in 1..Len(todo)}) \ deleted

Abstract == INSTANCE CausalStore WITH
  waiting <- Waiting, waitingDs <- WaitingDs, received <- delivered

Implements == Abstract!Spec
============================================================================
