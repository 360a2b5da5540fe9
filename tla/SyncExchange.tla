---------------------------- MODULE SyncExchange ----------------------------
(***************************************************************************)
(* Replicas that exchange what they have: the y-sync protocol over         *)
(* connections that lose, repeat and reorder messages, the differences it  *)
(* is built on (state vectors, write_blocks_from, pending updates), and    *)
(* the update events of a transaction, which an application sends on to    *)
(* others and appends to a file it restarts from.                          *)
(*                                                                         *)
(* A unit is the pair of its author's client and its clock.  A document    *)
(* may have units beyond a hole; a unit that continues the one before it   *)
(* waits in the pending update until that is there.  What an update does   *)
(* to a document is what ApplyUpdate finds of it, in one step; merged      *)
(* updates are the union of their units, as UpdateMerge finds.             *)
(***************************************************************************)
EXTENDS Integers, FiniteSets

CONSTANTS
  Peers,
  Links,       \* the sets of two peers that are connected
  Hub,         \* the peer that keeps a file
  Sizes,       \* bound: units each peer makes
  Continues,   \* the units whose origin is the unit before them
  Deletable,   \* the units that may be deleted
  MaxMessages, \* bound: messages on their way
  MaxCrashes   \* bound: restarts of the hub

Units == UNION {{p} \X (0..Sizes[p] - 1) : p \in Peers}

ASSUME SizesAssumption == Sizes \in [Peers -> Nat]
ASSUME LinksAssumption == \A l \in Links : l \subseteq Peers /\ Cardinality(l) = 2
ASSUME PeersAssumption == IsFiniteSet(Peers) /\ Hub \in Peers
ASSUME UnitsAssumption ==
  /\ Continues \subseteq Units /\ Deletable \subseteq Units
  /\ \A u \in Continues : u[2] > 0
ASSUME BoundAssumption == MaxMessages \in Nat /\ MaxCrashes \in Nat

VARIABLES
  docs,    \* the document of each peer
  msgs,    \* the messages on their way
  file,    \* the updates that the hub's application has appended, merged
  crashes  \* restarts so far

vars == <<docs, msgs, file, crashes>>

EmptyDoc == [has |-> {}, pending |-> {}, deleted |-> {}, parked |-> {}]
EmptyUpdate == [units |-> {}, deletes |-> {}]

Init ==
  /\ docs = [p \in Peers |-> EmptyDoc]
  /\ msgs = {}
  /\ file = EmptyUpdate
  /\ crashes = 0

----------------------------------------------------------------------------
(***************************************************************************)
(* State vectors and differences.                                          *)
(***************************************************************************)
Unknown == -1
Least(a, b) == IF a < b THEN a ELSE b
ClocksOf(units, c) == {u[2] : u \in {v \in units : v[1] = c}}

\* mutated StateVector: the clock where the client's blocks end
LastClocks(has) ==
  [c \in Peers |-> LET clocks == ClocksOf(has, c) IN
     IF clocks = {} THEN Unknown ELSE 1 + CHOOSE k \in clocks : \A j \in clocks : j <= k]

\* get_state_vector: the first hole of each client that is known
StateVector(has) ==
  [c \in Peers |-> LET clocks == ClocksOf(has, c) IN
     IF clocks = {} THEN Unknown
     ELSE CHOOSE k \in 0..Sizes[c] : k \notin clocks /\ \A j \in 0..(k - 1) : j \in clocks]

\* mutated BlocksFrom: a client the other one does not know is left out
BlocksFromKnown(has, sv) ==
  {u \in has : sv[u[1]] # Unknown /\ StateVector(has)[u[1]] > sv[u[1]] /\ u[2] >= sv[u[1]]}

\* write_blocks_from and diff_state_vectors: of a client that the other one knows, whatever
\* lies behind its clock, but only if the own state vector is ahead of it
BlocksFrom(has, sv) ==
  {u \in has :
     LET remote == sv[u[1]] IN
     \/ remote = Unknown
     \/ remote # Unknown /\ StateVector(has)[u[1]] > remote /\ u[2] >= remote}

\* mutated EncodeState: without what is pending
EncodeIntegrated(d, sv) == [units |-> BlocksFrom(d.has, sv), deletes |-> d.deleted]

\* encode_state_as_update_v1: with the pending update and the pending delete set
EncodeState(d, sv) ==
  [units |-> BlocksFrom(d.has, sv) \cup d.pending, deletes |-> d.deleted \cup d.parked]

\* mutated BeforeState: the clocks of what was there before the transaction
BeforeBeyond(inserted, has) ==
  [c \in Peers |->
     LET clocks == ClocksOf(inserted, c) IN
     IF clocks = {} THEN StateVector(has)[c]
     ELSE CHOOSE k \in clocks : \A j \in clocks : k >= j]

\* before_state, which is found after the fact: the clocks from which a transaction inserted,
\* or the first hole
BeforeState(inserted, has) ==
  [c \in Peers |->
     LET clocks == ClocksOf(inserted, c) IN
     IF clocks = {} THEN StateVector(has)[c]
     ELSE Least(StateVector(has)[c], CHOOSE k \in clocks : \A j \in clocks : k <= j)]

\* encode_update of a transaction
EncodeUpdate(before, after) ==
  [units |-> BlocksFrom(after.has, BeforeState(after.has \ before.has, after.has)),
   deletes |-> after.deleted \ before.deleted]

----------------------------------------------------------------------------
(***************************************************************************)
(* apply_update, in one step.                                              *)
(***************************************************************************)
\* of the units of each client that are not there yet, those before the first one that
\* has to wait
Integrable(units, has) ==
  LET waits(u) == u \in Continues /\ <<u[1], u[2] - 1>> \notin has \cup units
  IN {u \in units : \A k \in 0..u[2] :
        <<u[1], k>> \in units => ~waits(<<u[1], k>>)}

\* what is stashed joins the pending update, which is tried again
ApplyUpdate(d, update) ==
  LET new == update.units \ d.has
      first == d.has \cup Integrable(new, d.has)
      stashed == (d.pending \cup new) \ first
      has == first \cup Integrable(stashed, first)
      deletes == update.deletes \cup d.parked
  IN [has |-> has, pending |-> stashed \ has,
      deleted |-> d.deleted \cup (deletes \cap has), parked |-> deletes \ has]

----------------------------------------------------------------------------
(***************************************************************************)
(* The peers.                                                              *)
(***************************************************************************)
Neighbours(p) == {q \in Peers : {p, q} \in Links}
Step1(p, q) == [kind |-> "step1", from |-> p, to |-> q, sv |-> StateVector(docs[p].has)]
\* `known`, a ghost: what the sender knew when it answered
Step2(p, q, sv) ==
  [kind |-> "step2", from |-> p, to |-> q, update |-> EncodeState(docs[p], sv),
   known |-> docs[p]]
Update(p, q, update) == [kind |-> "update", from |-> p, to |-> q, update |-> update]

\* a message is sent, if there is room for it, instead of one that is consumed or not
Sent(m, consumed) ==
  /\ msgs' = (msgs \ consumed) \cup {m}
  /\ Cardinality(msgs') <= MaxMessages

\* a transaction commits: if it changed something, observers of update events are called, and
\* what they send may be lost
Commit(p, d, rest) ==
  LET event == EncodeUpdate(docs[p], d)
      changed == d.has # docs[p].has \/ d.deleted # docs[p].deleted
      events == IF changed THEN {Update(p, q, event) : q \in Neighbours(p)} ELSE {}
  IN /\ docs' = [docs EXCEPT ![p] = d]
     /\ \E sent \in SUBSET events : msgs' = rest \cup sent
     /\ Cardinality(msgs') <= MaxMessages
     /\ file' = IF p = Hub /\ changed
                THEN [units |-> file.units \cup event.units,
                      deletes |-> file.deletes \cup event.deletes]
                ELSE file
     /\ UNCHANGED crashes

Insert(p) ==
  LET clock == Cardinality(ClocksOf(docs[p].has, p)) IN
  /\ clock < Sizes[p]
  /\ Commit(p, [docs[p] EXCEPT !.has = @ \cup {<<p, clock>>}], msgs)

Delete(p) ==
  \E u \in (docs[p].has \cap Deletable) \ docs[p].deleted :
    Commit(p, [docs[p] EXCEPT !.deleted = @ \cup {u}], msgs)

\* Protocol::start, whenever a connection is made
Start(p, q) ==
  /\ q \in Neighbours(p)
  /\ Sent(Step1(p, q), {})
  /\ UNCHANGED <<docs, file, crashes>>

\* messages may arrive again
Rest(m, again) == IF again THEN msgs ELSE msgs \ {m}

HandleStep1(m, again) ==
  /\ m.kind = "step1"
  /\ Sent(Step2(m.to, m.from, m.sv), msgs \ Rest(m, again))
  /\ UNCHANGED <<docs, file, crashes>>

HandleStep2(m, again) ==
  /\ m.kind = "step2"
  /\ Commit(m.to, ApplyUpdate(docs[m.to], m.update), Rest(m, again))

HandleUpdate(m, again) ==
  /\ m.kind = "update"
  /\ Commit(m.to, ApplyUpdate(docs[m.to], m.update), Rest(m, again))

\* the hub starts again from its file, and its connections are closed
Crash ==
  /\ crashes < MaxCrashes
  /\ crashes' = crashes + 1
  /\ docs' = [docs EXCEPT ![Hub] = ApplyUpdate(EmptyDoc, file)]
  /\ msgs' = {m \in msgs : Hub \notin {m.from, m.to}}
  /\ UNCHANGED file

Handle(m, again) == HandleStep1(m, again) \/ HandleStep2(m, again) \/ HandleUpdate(m, again)

Next ==
  \/ \E p \in Peers : Insert(p) \/ Delete(p) \/ \E q \in Peers : Start(p, q)
  \/ \E m \in msgs, again \in BOOLEAN : Handle(m, again)
  \/ Crash

Spec == Init /\ [][Next]_vars

----------------------------------------------------------------------------
Prefix(has) == {u \in has : \A k \in 0..u[2] : <<u[1], k>> \in has}

Documents ==
  [has : SUBSET Units, pending : SUBSET Units, deleted : SUBSET Units, parked : SUBSET Units]

\* Documents are well formed: what waits is not there, and what is deleted is.
TypeOK ==
  /\ docs \in [Peers -> Documents]
  /\ \A p \in Peers :
       /\ docs[p].pending \cap docs[p].has = {} /\ docs[p].deleted \subseteq docs[p].has
       /\ docs[p].parked \cap docs[p].has = {}
  /\ file.units \subseteq Units /\ crashes \in 0..MaxCrashes
  /\ Cardinality(msgs) <= MaxMessages

\* whoever has applied a SyncStep2 has all units in `units` of what its sender knew, and all
\* deletes, be it among what is pending
Assures(Told(_)) ==
  \A m \in msgs : \A again \in BOOLEAN :
    HandleStep2(m, again) =>
      LET d == docs'[m.to] IN
      /\ Told(m.known.has) \cup m.known.pending \subseteq d.has \cup d.pending
      /\ m.known.deleted \cup m.known.parked \subseteq d.deleted \cup d.parked

\* SyncStep2, in answer to a state vector of any earlier time, brings all that its sender had
\* of each client up to the first hole, and all that was pending or deleted there.
AssuredToHoles == [][Assures(Prefix)]_vars

\* "When received, the client is assured that it received all information from the remote
\* client" (sync/protocol.rs).
AssuredOfAll == [][LET All(has) == has IN Assures(All)]_vars

\* A file of the update events of a document has all it needs to come back with each client's
\* units up to the first hole, and with all deletes.
FileKeepsUp ==
  /\ Prefix(docs[Hub].has) \subseteq file.units
  /\ docs[Hub].deleted \subseteq file.deletes

\* Documents are well formed, and the file follows the hub's.
FileMatches == TypeOK /\ FileKeepsUp

\* "Encodes changes made within the scope of the current transaction"
\* (TransactionMut::encode_update): the update events together have all units.
FileHasAll == docs[Hub].has \subseteq file.units

\* Peers do not wait for each other: as long as two of them differ, or something is pending
\* somewhere, there are two neighbours of which one learns something when it sends its state
\* vector and the answer arrives.  Nothing a peer knows is ever taken back, so those that go
\* on connecting end up with the same units and deletes, whatever updates were lost.
NoStalemate ==
  (\A p, q \in Peers : {p, q} \in Links =>
     ApplyUpdate(docs[p], EncodeState(docs[q], StateVector(docs[p].has))) = docs[p])
  => \A p, q \in Peers :
       /\ docs[p].has = docs[q].has /\ docs[p].deleted = docs[q].deleted
       /\ docs[p].pending = {} /\ docs[p].parked = {}
=============================================================================
