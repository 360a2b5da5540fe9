------------------------- MODULE SyncExchangeProofs -------------------------
(***************************************************************************)
(* Proofs about SyncExchange: what a state vector says, what an answer and *)
(* an update event contain, and that the hub's file and the answers keep   *)
(* what they promise, restarts included.  One fact carries the typing: no  *)
(* unit exists anywhere that its author does not have, so that an author   *)
(* never uses a clock twice, not even after it restarted from its file.    *)
(***************************************************************************)
EXTENDS SyncExchange, FiniteSetTheorems, WellFoundedInduction, TLAPS

\* the units that exist
Made == {u \in Units : u \in docs[u[1]].has}

WellFormed(d) ==
  /\ d \in Documents
  /\ d.pending \cap d.has = {} /\ d.deleted \subseteq d.has /\ d.parked \cap d.has = {}

DocumentsSound ==
  /\ docs \in [Peers -> Documents]
  /\ \A p \in Peers : WellFormed(docs[p])
  /\ \A p \in Peers : docs[p].has \cup docs[p].pending \cup docs[p].parked \subseteq Made

\* the units of an author are a prefix of its clocks
OwnPrefix ==
  \A p \in Peers : \E n \in 0..Sizes[p] : ClocksOf(docs[p].has, p) = 0..(n - 1)

FileSound ==
  /\ file = [units |-> file.units, deletes |-> file.deletes]
  /\ file.units \subseteq Made /\ file.deletes \subseteq Made

\* a state vector that is on its way still tells the truth
Step1Sound(m) ==
  /\ m.sv \in [Peers -> Int]
  /\ \A c \in Peers : \A k \in 0..(m.sv[c] - 1) : <<c, k>> \in docs[m.from].has

\* what an update or an answer has was made, and an answer, with what the receiver has,
\* is all it should be
UpdateSound(m) == m.update.units \subseteq Made /\ m.update.deletes \subseteq Made
Step2Sound(m) ==
  /\ WellFormed(m.known)
  /\ Prefix(m.known.has) \cup m.known.pending \subseteq m.update.units \cup docs[m.to].has
  /\ m.known.deleted \cup m.known.parked \subseteq m.update.deletes

MessagesSound ==
  /\ IsFiniteSet(msgs) /\ Cardinality(msgs) <= MaxMessages
  /\ \A m \in msgs :
       /\ m.kind \in {"step1", "step2", "update"} /\ m.from \in Peers /\ m.to \in Peers
       /\ m.kind = "step1" => Step1Sound(m)
       /\ m.kind \in {"step2", "update"} => UpdateSound(m)
       /\ m.kind = "step2" => Step2Sound(m)

Inv ==
  /\ DocumentsSound /\ OwnPrefix /\ FileSound /\ MessagesSound /\ FileKeepsUp
  /\ crashes \in 0..MaxCrashes

(***************************************************************************)
(* State vectors.                                                          *)
(***************************************************************************)
\* A set of numbers that is not empty has a least element.
LEMMA LeastElement ==
  ASSUME NEW T \in SUBSET Nat, T # {}
  PROVE  \E x \in T : \A y \in T : x <= y
<1> DEFINE R == {ss \in Nat \X Nat : ss[1] < ss[2]}
<1>1. IsWellFoundedOn(R, Nat)
  BY NatLessThanWellFounded DEF OpToRel
<1>2. \A x, y \in Nat : y < x => <<y, x>> \in R
  OBVIOUS
<1> HIDE DEF R
<1>3. \E x \in T : \A y \in T : ~ (<<y, x>> \in R)
  BY <1>1, WFMin
<1>4. PICK x \in T : \A y \in T : ~ (<<y, x>> \in R)
  BY <1>3
<1>5. ASSUME NEW y \in T PROVE x <= y
  <2>1. x \in Nat /\ y \in Nat /\ ~ (y < x)
    BY <1>2, <1>4
  <2> QED BY <2>1
<1> QED BY <1>5

\* A unit is a peer and one of its clocks.
LEMMA UnitFacts ==
  ASSUME NEW u \in Units
  PROVE  /\ u = <<u[1], u[2]>> /\ u[1] \in Peers /\ u[2] \in Nat
         /\ u[2] \in 0..(Sizes[u[1]] - 1) /\ Sizes[u[1]] \in Nat
<1>1. PICK p \in Peers : u \in {p} \X (0..Sizes[p] - 1)
  BY DEF Units
<1>2. u = <<u[1], u[2]>> /\ u[1] = p /\ u[2] \in 0..(Sizes[p] - 1)
  BY <1>1
<1>3. Sizes[p] \in Nat
  BY SizesAssumption
<1> QED BY <1>2, <1>3

\* The clocks of a client are those of its units.
LEMMA ClockFacts ==
  ASSUME NEW has \in SUBSET Units, NEW c \in Peers
  PROVE  /\ ClocksOf(has, c) \subseteq 0..(Sizes[c] - 1)
         /\ ClocksOf(has, c) \in SUBSET Nat
         /\ \A k : k \in ClocksOf(has, c) <=> <<c, k>> \in has
<1>1. ASSUME NEW k \in ClocksOf(has, c)
      PROVE  <<c, k>> \in has /\ k \in 0..(Sizes[c] - 1) /\ k \in Nat
  <2>1. PICK u \in has : u[1] = c /\ u[2] = k
    BY DEF ClocksOf
  <2> QED BY <2>1, UnitFacts
<1>2. ASSUME NEW k, <<c, k>> \in has PROVE k \in ClocksOf(has, c)
  <2>1. <<c, k>>[1] = c /\ <<c, k>>[2] = k
    OBVIOUS
  <2> QED BY <1>2, <2>1 DEF ClocksOf
<1> QED BY <1>1, <1>2

\* A state vector is the first hole of each client: all units before it are there.
LEMMA StateVectorFacts ==
  ASSUME NEW has \in SUBSET Units, NEW c \in Peers
  PROVE  /\ StateVector(has) \in [Peers -> Int]
         /\ \A k \in 0..(StateVector(has)[c] - 1) : <<c, k>> \in has
         /\ \A u \in Prefix(has) : u[1] = c => u[2] < StateVector(has)[c]
         /\ StateVector(has)[c] # Unknown => StateVector(has)[c] \in Nat
<1> DEFINE Hole(d, k) == k \notin ClocksOf(has, d) /\ \A j \in 0..(k - 1) : j \in ClocksOf(has, d)
<1>1. ASSUME NEW d \in Peers
      PROVE  \E k \in 0..Sizes[d] : Hole(d, k)
  <2> DEFINE T == {k \in 0..Sizes[d] : k \notin ClocksOf(has, d)}
  <2>0. Sizes[d] \in Nat /\ Sizes[d] \notin 0..(Sizes[d] - 1)
    BY SizesAssumption
  <2>1. Sizes[d] \in T /\ T \in SUBSET Nat
    <3>1. ClocksOf(has, d) \subseteq 0..(Sizes[d] - 1)
      BY ClockFacts
    <3> QED BY <2>0, <3>1
  <2>2. PICK k \in T : \A j \in T : k <= j
    BY <2>1, LeastElement
  <2>3. ASSUME NEW j \in 0..(k - 1) PROVE j \in ClocksOf(has, d)
    BY <2>1, <2>2, SizesAssumption
  <2> QED BY <2>1, <2>2, <2>3
<1>2. ASSUME NEW d \in Peers, ClocksOf(has, d) # {}
      PROVE  StateVector(has)[d] \in 0..Sizes[d] /\ Hole(d, StateVector(has)[d])
  BY <1>1, <1>2 DEF StateVector
<1>3. ASSUME NEW d \in Peers, ClocksOf(has, d) = {}
      PROVE  StateVector(has)[d] = Unknown
  BY <1>3 DEF StateVector
<1>4. StateVector(has) \in [Peers -> Int]
  <2>1. \A d \in Peers : StateVector(has)[d] \in Int
    BY <1>2, <1>3 DEF Unknown
  <2> QED BY <2>1 DEF StateVector
<1>5. ASSUME NEW k \in 0..(StateVector(has)[c] - 1) PROVE <<c, k>> \in has
  BY <1>2, <1>3, <1>5, ClockFacts DEF Unknown
<1>6. ASSUME NEW u \in Prefix(has), u[1] = c PROVE u[2] < StateVector(has)[c]
  <2>1. u \in has /\ u[2] \in Nat /\ u = <<c, u[2]>> /\ \A k \in 0..u[2] : <<c, k>> \in has
    BY <1>6, UnitFacts DEF Prefix
  <2>2. u[2] \in ClocksOf(has, c)
    BY <2>1, ClockFacts
  <2>3. /\ StateVector(has)[c] \in Nat
        /\ <<c, StateVector(has)[c]>> \notin has
    BY <1>2, <2>2, ClockFacts
  <2> QED BY <2>1, <2>3
<1>7. StateVector(has)[c] # Unknown => StateVector(has)[c] \in Nat
  BY <1>2, <1>3
<1> QED BY <1>4, <1>5, <1>6, <1>7

\* What is written for a state vector, and what that claims, make up all that is there
\* before the first hole.
LEMMA DifferenceSuffices ==
  ASSUME NEW has \in SUBSET Units, NEW sv \in [Peers -> Int], NEW u \in Prefix(has),
         u[2] >= sv[u[1]]
  PROVE  u \in BlocksFrom(has, sv)
<1>1. u \in has /\ u[1] \in Peers /\ u[2] \in Nat
  BY UnitFacts DEF Prefix
<1>2. u[2] < StateVector(has)[u[1]] /\ StateVector(has)[u[1]] \in Int
  BY <1>1, StateVectorFacts
<1>3. sv[u[1]] \in Int
  BY <1>1
<1> QED BY <1>1, <1>2, <1>3 DEF BlocksFrom

\* The event of a transaction has what the transaction moved in front of the first hole.
LEMMA EventSuffices ==
  ASSUME NEW before, NEW after, before.has \in SUBSET Units, after.has \in SUBSET Units,
         before.has \subseteq after.has,
         NEW u \in Prefix(after.has)
  PROVE  u \in Prefix(before.has) \cup EncodeUpdate(before, after).units
<1> DEFINE inserted == after.has \ before.has
           c == u[1]
           B == BeforeState(inserted, after.has)
<1>1. u \in after.has /\ c \in Peers /\ u[2] \in Nat /\ \A k \in 0..u[2] : <<c, k>> \in after.has
  BY UnitFacts DEF Prefix
<1>2. SUFFICES ASSUME u \notin Prefix(before.has)
               PROVE  u \in BlocksFrom(after.has, B)
  BY DEF EncodeUpdate
<1>3. PICK k \in 0..u[2] : <<c, k>> \in inserted
  <2>1. CASE u \in before.has
    BY <1>1, <1>2, <2>1 DEF Prefix
  <2>2. CASE u \notin before.has
    <3>1. u = <<c, u[2]>> /\ u[2] \in 0..u[2]
      BY <1>1, UnitFacts
    <3> QED BY <1>1, <2>2, <3>1
  <2> QED BY <2>1, <2>2
<1>4. k \in ClocksOf(inserted, c)
  BY <1>1, <1>3, ClockFacts
<1>5. ASSUME NEW d \in Peers
      PROVE  /\ B[d] \in Int
             /\ \A j \in ClocksOf(inserted, d) : B[d] <= j
  <2>1. StateVector(after.has)[d] \in Int
    BY <1>5, StateVectorFacts
  <2>2. ClocksOf(inserted, d) \in SUBSET Nat
    BY <1>5, ClockFacts
  <2>3. CASE ClocksOf(inserted, d) = {}
    BY <2>1, <2>3 DEF BeforeState
  <2>4. CASE ClocksOf(inserted, d) # {}
    <3> DEFINE least == CHOOSE i \in ClocksOf(inserted, d) : \A j \in ClocksOf(inserted, d) : i <= j
    <3>1. least \in ClocksOf(inserted, d) /\ \A j \in ClocksOf(inserted, d) : least <= j
      BY <2>2, <2>4, LeastElement
    <3>2. B[d] = Least(StateVector(after.has)[d], least)
      BY <2>4 DEF BeforeState
    <3> HIDE DEF least
    <3> QED BY <2>1, <2>2, <3>1, <3>2 DEF Least
  <2> QED BY <2>3, <2>4
<1>6. B \in [Peers -> Int]
  BY <1>5 DEF BeforeState
<1>7. u[2] >= B[c]
  <2>1. B[c] \in Int /\ B[c] <= k
    BY <1>1, <1>4, <1>5
  <2>2. k <= u[2] /\ k \in Int /\ u[2] \in Int
    BY <1>1, <1>3
  <2> HIDE DEF B
  <2> QED BY <2>1, <2>2
<1> HIDE DEF B
<1> QED BY <1>1, <1>6, <1>7, DifferenceSuffices

(***************************************************************************)
(* Applying an update.                                                     *)
(***************************************************************************)
\* Nothing is lost: what an update has is there afterwards or waits, and so do its deletes.
LEMMA ApplyFacts ==
  ASSUME NEW d, NEW update, WellFormed(d),
         update.units \subseteq Units, update.deletes \subseteq Units
  PROVE  LET after == ApplyUpdate(d, update) IN
         /\ WellFormed(after)
         /\ d.has \subseteq after.has /\ d.deleted \subseteq after.deleted
         /\ after.has \cup after.pending = d.has \cup d.pending \cup update.units
         /\ after.deleted \cup after.parked = d.deleted \cup d.parked \cup update.deletes
<1> DEFINE new == update.units \ d.has
           first == d.has \cup Integrable(new, d.has)
           stashed == (d.pending \cup new) \ first
           has == first \cup Integrable(stashed, first)
           deletes == update.deletes \cup d.parked
           after == ApplyUpdate(d, update)
<1>1. after = [has |-> has, pending |-> stashed \ has,
               deleted |-> d.deleted \cup (deletes \cap has), parked |-> deletes \ has]
  BY DEF ApplyUpdate
<1>2. \A units, there : Integrable(units, there) \subseteq units
  BY DEF Integrable
<1>3. /\ d.has \subseteq Units /\ d.pending \subseteq Units
      /\ d.deleted \subseteq d.has /\ d.parked \subseteq Units
  BY DEF WellFormed, Documents
<1>4. Integrable(new, d.has) \subseteq new /\ Integrable(stashed, first) \subseteq stashed
  BY <1>2
<1>5. /\ after.has = has /\ after.pending = stashed \ has
      /\ after.deleted = d.deleted \cup (deletes \cap has) /\ after.parked = deletes \ has
  BY <1>1
<1>6. d.has \subseteq has /\ has \cup (stashed \ has) = d.has \cup d.pending \cup update.units
  BY <1>4
<1>7. has \subseteq Units /\ stashed \subseteq Units /\ deletes \subseteq Units
  BY <1>3, <1>6
<1>8. WellFormed(after)
  <2> HIDE DEF has, stashed, deletes, after
  <2>0. /\ has \in SUBSET Units /\ stashed \ has \in SUBSET Units
        /\ d.deleted \cup (deletes \cap has) \in SUBSET Units /\ deletes \ has \in SUBSET Units
    BY <1>3, <1>6, <1>7
  <2>1. after \in Documents
    BY <1>1, <2>0 DEF Documents
  <2> QED BY <2>1, <1>3, <1>5, <1>6 DEF WellFormed
<1>9. after.deleted \cup after.parked = d.deleted \cup d.parked \cup update.deletes
  <2> HIDE DEF has, stashed
  <2> QED BY <1>5, <1>6
<1> HIDE DEF has, stashed, deletes, after
<1>10. QED BY <1>5, <1>6, <1>8, <1>9 DEF after

\* A run of units from clock 0 on never waits: a file that has it brings it back.
LEMMA RunsComeBack ==
  ASSUME NEW update, update.units \subseteq Units, NEW u \in Units,
         \A k \in 0..u[2] : <<u[1], k>> \in update.units
  PROVE  u \in ApplyUpdate(EmptyDoc, update).has
<1> DEFINE new == update.units \ {}
<1>1. u = <<u[1], u[2]>> /\ u[2] \in Nat
  BY UnitFacts
<1>2. u \in new
  BY <1>1
<1>3. ASSUME NEW k \in 0..u[2], <<u[1], k>> \in Continues
      PROVE  <<u[1], k - 1>> \in new
  <2>1. k > 0
    BY <1>3, UnitsAssumption
  <2>2. k - 1 \in 0..u[2]
    BY <1>1, <2>1
  <2> QED BY <2>2
<1>4. ASSUME NEW k \in 0..u[2]
      PROVE  ~ (/\ <<u[1], k>> \in Continues
                /\ <<<<u[1], k>>[1], <<u[1], k>>[2] - 1>> \notin {} \cup new)
  BY <1>3
<1>5. u \in Integrable(new, {})
  BY <1>2, <1>4 DEF Integrable
<1>6. Integrable(new, {}) \subseteq ApplyUpdate(EmptyDoc, update).has
  BY DEF ApplyUpdate, EmptyDoc
<1> QED BY <1>5, <1>6

(***************************************************************************)
(* The steps.                                                              *)
(***************************************************************************)
\* What one document gained, was there or was made by its own peer, keeps everything that
\* the messages and the file say true.
LEMMA GrowthKeepsSound ==
  ASSUME Inv, NEW p \in Peers, NEW d, WellFormed(d), docs' = [docs EXCEPT ![p] = d],
         docs[p].has \subseteq d.has,
         d.has \cup d.pending \cup d.parked \subseteq Made \cup {u \in d.has : u[1] = p},
         \E n \in 0..Sizes[p] : ClocksOf(d.has, p) = 0..(n - 1)
  PROVE  /\ Made \subseteq Made' /\ d.has \cup d.pending \cup d.parked \subseteq Made'
         /\ DocumentsSound' /\ OwnPrefix'
         /\ \A q \in Peers : docs[q].has \subseteq docs'[q].has
<1>1. docs \in [Peers -> Documents] /\ docs' \in [Peers -> Documents]
  BY DEF Inv, DocumentsSound, WellFormed
<1>2. docs'[p] = d /\ \A q \in Peers : q # p => docs'[q] = docs[q]
  BY <1>1
<1>3. \A q \in Peers : docs[q].has \subseteq docs'[q].has
  BY <1>2
<1>4. Made \subseteq Made'
  BY <1>3, UnitFacts DEF Made
<1>5. d.has \cup d.pending \cup d.parked \subseteq Made'
  <2>1. d.has \subseteq Units
    BY DEF WellFormed, Documents
  <2>2. {u \in d.has : u[1] = p} \subseteq Made'
    BY <1>2, <2>1 DEF Made
  <2> QED BY <1>4, <2>2
<1>6. DocumentsSound'
  <2>1. \A q \in Peers : WellFormed(docs'[q])
    BY <1>2 DEF Inv, DocumentsSound
  <2>2. ASSUME NEW q \in Peers
        PROVE  docs'[q].has \cup docs'[q].pending \cup docs'[q].parked \subseteq Made'
    <3>1. CASE q = p
      BY <1>2, <1>5, <3>1
    <3>2. CASE q # p
      BY <1>2, <1>4, <3>2 DEF Inv, DocumentsSound
    <3> QED BY <3>1, <3>2
  <2> QED BY <1>1, <2>1, <2>2 DEF DocumentsSound, WellFormed
<1>7. OwnPrefix'
  <2> SUFFICES ASSUME NEW q \in Peers
               PROVE  \E n \in 0..Sizes[q] : ClocksOf(docs'[q].has, q) = 0..(n - 1)
    BY DEF OwnPrefix, ClocksOf
  <2>1. CASE q = p
    BY <1>2, <2>1
  <2>2. CASE q # p
    BY <1>2, <2>2 DEF Inv, OwnPrefix
  <2> QED BY <2>1, <2>2
<1> QED BY <1>3, <1>4, <1>5, <1>6, <1>7

\* A message stays sound as units are made and the documents of its peers grow.
LEMMA MessagesStaySound ==
  ASSUME MessagesSound, NEW m \in msgs, Made \subseteq Made',
         docs[m.from].has \subseteq docs'[m.from].has, docs[m.to].has \subseteq docs'[m.to].has
  PROVE  /\ m.kind \in {"step1", "step2", "update"} /\ m.from \in Peers /\ m.to \in Peers
         /\ m.kind = "step1" => Step1Sound(m)'
         /\ m.kind \in {"step2", "update"} => UpdateSound(m)'
         /\ m.kind = "step2" => Step2Sound(m)'
<1>1. m.kind \in {"step1", "step2", "update"} /\ m.from \in Peers /\ m.to \in Peers
  BY DEF MessagesSound
<1>2. ASSUME m.kind = "step1" PROVE Step1Sound(m)'
  BY <1>2 DEF MessagesSound, Step1Sound
<1>3. ASSUME m.kind \in {"step2", "update"} PROVE UpdateSound(m)'
  BY <1>3 DEF MessagesSound, UpdateSound
<1>4. ASSUME m.kind = "step2" PROVE Step2Sound(m)'
  BY <1>4 DEF MessagesSound, Step2Sound
<1> QED BY <1>1, <1>2, <1>3, <1>4

\* A transaction keeps the invariant if its document grew only by its own peer's units and by
\* units that were made before.
LEMMA CommitKeepsInv ==
  ASSUME Inv, NEW p \in Peers, NEW d, NEW rest, rest \subseteq msgs, Commit(p, d, rest),
         WellFormed(d), docs[p].has \subseteq d.has, docs[p].deleted \subseteq d.deleted,
         d.has \cup d.pending \cup d.parked \subseteq Made \cup {u \in d.has : u[1] = p},
         \E n \in 0..Sizes[p] : ClocksOf(d.has, p) = 0..(n - 1)
  PROVE  Inv'
<1> DEFINE event == EncodeUpdate(docs[p], d)
           changed == d.has # docs[p].has \/ d.deleted # docs[p].deleted
           all == {Update(p, q, event) : q \in Neighbours(p)}
<1>1. /\ docs' = [docs EXCEPT ![p] = d] /\ UNCHANGED crashes
      /\ \E sent \in SUBSET all : msgs' = rest \cup sent
      /\ Cardinality(msgs') <= MaxMessages
      /\ file' = IF p = Hub /\ changed
                 THEN [units |-> file.units \cup event.units,
                       deletes |-> file.deletes \cup event.deletes]
                 ELSE file
  BY DEF Commit
<1>2. /\ Made \subseteq Made' /\ d.has \cup d.pending \cup d.parked \subseteq Made'
      /\ DocumentsSound' /\ OwnPrefix'
      /\ \A q \in Peers : docs[q].has \subseteq docs'[q].has
  BY <1>1, GrowthKeepsSound
<1>3. docs[p].has \subseteq Units /\ d.has \subseteq Units /\ d.deleted \subseteq d.has
  BY DEF Inv, DocumentsSound, WellFormed, Documents
<1>4. event.units \subseteq Made' /\ event.deletes \subseteq Made'
  <2>1. event.units \subseteq d.has /\ event.deletes \subseteq d.deleted
    BY DEF EncodeUpdate, BlocksFrom
  <2> QED BY <1>2, <1>3, <2>1
<1>5. FileSound'
  BY <1>1, <1>2, <1>4 DEF Inv, FileSound
<1>6. MessagesSound'
  <2>1. PICK sent \in SUBSET all : msgs' = rest \cup sent
    BY <1>1
  <2>2. IsFiniteSet(msgs')
    <3>1. IsFiniteSet(Neighbours(p))
      BY PeersAssumption, FS_Subset DEF Neighbours
    <3>2. IsFiniteSet(all)
      <4> HIDE DEF event
      <4> DEFINE f == [q \in Neighbours(p) |-> Update(p, q, event)]
      <4>1. f \in Surjection(Neighbours(p), all)
        BY DEF Surjection
      <4> HIDE DEF f, all
      <4> QED BY <3>1, <4>1, FS_Surjection
    <3>3. IsFiniteSet(sent) /\ IsFiniteSet(rest)
      BY <3>2, FS_Subset DEF Inv, MessagesSound
    <3> QED BY <2>1, <3>3, FS_Union
  <2>3. ASSUME NEW m \in msgs'
        PROVE  /\ m.kind \in {"step1", "step2", "update"} /\ m.from \in Peers /\ m.to \in Peers
               /\ m.kind = "step1" => Step1Sound(m)'
               /\ m.kind \in {"step2", "update"} => UpdateSound(m)'
               /\ m.kind = "step2" => Step2Sound(m)'
    <3>1. CASE m \in rest
      <4>1. m \in msgs /\ MessagesSound
        BY <3>1 DEF Inv
      <4>2. m.from \in Peers /\ m.to \in Peers
        BY <4>1 DEF MessagesSound
      <4> QED BY <1>2, <4>1, <4>2, MessagesStaySound
    <3>2. CASE m \in all
      <4> HIDE DEF event
      <4>1. PICK q \in Neighbours(p) : m = Update(p, q, event)
        BY <3>2
      <4>2. m.kind = "update" /\ m.from = p /\ m.to \in Peers /\ m.update = event
        BY <4>1 DEF Update, Neighbours
      <4> QED BY <1>4, <4>2 DEF UpdateSound
    <3> QED BY <2>1, <3>1, <3>2
  <2> QED BY <1>1, <2>2, <2>3 DEF MessagesSound
<1>7. FileKeepsUp'
  <2>1. /\ Prefix(docs[Hub].has) \subseteq file.units /\ docs[Hub].deleted \subseteq file.deletes
    BY DEF Inv, FileKeepsUp
  <2>2. /\ p = Hub => docs'[Hub] = d
        /\ p # Hub => docs'[Hub] = docs[Hub]
    BY <1>1, PeersAssumption DEF Inv, DocumentsSound
  <2>3. CASE p = Hub /\ changed
    <3>1. file'.units = file.units \cup event.units /\ file'.deletes = file.deletes \cup event.deletes
      BY <1>1, <2>3
    <3>2. Prefix(d.has) \subseteq Prefix(docs[p].has) \cup event.units
      BY <1>3, EventSuffices
    <3>3. event.deletes = d.deleted \ docs[p].deleted
      BY DEF EncodeUpdate
    <3> HIDE DEF event
    <3>4. Prefix(docs'[Hub].has) \subseteq file'.units
      BY <2>1, <2>2, <2>3, <3>1, <3>2
    <3>5. docs'[Hub].deleted \subseteq file'.deletes
      BY <2>1, <2>2, <2>3, <3>1, <3>3
    <3> QED BY <3>4, <3>5 DEF FileKeepsUp, Prefix
  <2>4. CASE ~ (p = Hub /\ changed)
    <3>1. file' = file /\ docs'[Hub].has = docs[Hub].has /\ docs'[Hub].deleted = docs[Hub].deleted
      BY <1>1, <2>2, <2>4
    <3> QED BY <2>1, <3>1 DEF FileKeepsUp, Prefix
  <2> QED BY <2>3, <2>4
<1>8. (crashes \in 0..MaxCrashes)'
  BY <1>1 DEF Inv
<1> QED BY <1>2, <1>5, <1>6, <1>7, <1>8 DEF Inv

\* An author's next clock, the number of its units, is one it has not used: the new unit is
\* nowhere yet.
LEMMA InsertKeepsInv ==
  ASSUME Inv, NEW p \in Peers, Insert(p)
  PROVE  Inv'
<1> DEFINE clock == Cardinality(ClocksOf(docs[p].has, p))
           made == <<p, clock>>
           d == [docs[p] EXCEPT !.has = @ \cup {made}]
<1>1. clock < Sizes[p] /\ Commit(p, d, msgs)
  BY DEF Insert
<1>2. /\ WellFormed(docs[p]) /\ docs[p].has \subseteq Units
      /\ docs[p].has \cup docs[p].pending \cup docs[p].parked \subseteq Made
  BY DEF Inv, DocumentsSound, WellFormed, Documents
<1>3. PICK n \in 0..Sizes[p] : ClocksOf(docs[p].has, p) = 0..(n - 1)
  BY DEF Inv, OwnPrefix
<1>4. clock = n /\ n \in Nat /\ Sizes[p] \in Nat
  <2>1. n \in Int /\ n >= 0 /\ Sizes[p] \in Nat
    BY SizesAssumption
  <2>2. Cardinality(0..(n - 1)) = n
    BY <2>1, FS_Interval
  <2> QED BY <1>3, <2>1, <2>2
<1> HIDE DEF clock
<1>5. made \in Units
  <2>1. made \in {p} \X (0..Sizes[p] - 1)
    BY <1>1, <1>4
  <2> QED BY <2>1 DEF Units
<1>6. made \notin Made
  <2>1. n \notin ClocksOf(docs[p].has, p)
    BY <1>3, <1>4
  <2>2. made \notin docs[p].has
    BY <1>2, <1>4, <2>1, ClockFacts
  <2> QED BY <2>2 DEF Made
<1> HIDE DEF made
<1>7. d = [has |-> docs[p].has \cup {made}, pending |-> docs[p].pending,
           deleted |-> docs[p].deleted, parked |-> docs[p].parked]
  <2>1. docs[p] \in Documents
    BY <1>2 DEF WellFormed
  <2>2. docs[p] = [has |-> docs[p].has, pending |-> docs[p].pending,
                   deleted |-> docs[p].deleted, parked |-> docs[p].parked]
    BY <2>1 DEF Documents
  <2> QED BY <2>2
<1> HIDE DEF d
<1>8. WellFormed(d)
  <2>1. /\ docs[p].pending \cap docs[p].has = {} /\ docs[p].deleted \subseteq docs[p].has
        /\ docs[p].parked \cap docs[p].has = {}
        /\ docs[p].has \in SUBSET Units /\ docs[p].pending \in SUBSET Units
        /\ docs[p].deleted \in SUBSET Units /\ docs[p].parked \in SUBSET Units
    BY <1>2 DEF WellFormed, Documents
  <2>2. docs[p].has \cup {made} \in SUBSET Units
    BY <1>5, <2>1
  <2>3. d \in Documents
    BY <1>7, <2>1, <2>2 DEF Documents
  <2>4. d.has = docs[p].has \cup {made} /\ d.pending = docs[p].pending
        /\ d.deleted = docs[p].deleted /\ d.parked = docs[p].parked
    BY <1>7
  <2>5. d.pending \cap d.has = {} /\ d.deleted \subseteq d.has /\ d.parked \cap d.has = {}
    BY <1>2, <1>6, <2>1, <2>4
  <2> QED BY <2>3, <2>5 DEF WellFormed
<1>9. \E i \in 0..Sizes[p] : ClocksOf(d.has, p) = 0..(i - 1)
  <2>1. \A k : k \in ClocksOf(d.has, p) <=> k \in 0..(n - 1) \/ k = n
    <3>1. d.has \in SUBSET Units /\ d.has = docs[p].has \cup {<<p, n>>}
      BY <1>2, <1>4, <1>5, <1>7 DEF made
    <3>2. \A k : <<p, k>> \in d.has <=> <<p, k>> \in docs[p].has \/ k = n
      BY <3>1
    <3> QED BY <1>2, <1>3, <3>1, <3>2, ClockFacts
  <2>2. n + 1 \in 0..Sizes[p]
    BY <1>1, <1>4
  <2>3. \A k : k \in 0..(n - 1) \/ k = n <=> k \in 0..((n + 1) - 1)
    BY <1>4
  <2>4. ClocksOf(d.has, p) = 0..((n + 1) - 1)
    BY <2>1, <2>3
  <2> QED BY <2>2, <2>4
<1>10. d.has \cup d.pending \cup d.parked \subseteq Made \cup {u \in d.has : u[1] = p}
  <2>1. made[1] = p
    BY DEF made
  <2>2. made \in {u \in d.has : u[1] = p}
    BY <1>7, <2>1
  <2>3. d.has \cup d.pending \cup d.parked
        = docs[p].has \cup docs[p].pending \cup docs[p].parked \cup {made}
    BY <1>7
  <2> QED BY <1>2, <2>2, <2>3
<1>11. docs[p].has \subseteq d.has /\ docs[p].deleted \subseteq d.deleted
  BY <1>7
<1> QED BY <1>1, <1>8, <1>9, <1>10, <1>11, CommitKeepsInv

\* Deleting changes no units.
LEMMA DeleteKeepsInv ==
  ASSUME Inv, NEW p \in Peers, Delete(p)
  PROVE  Inv'
<1>1. PICK u \in docs[p].has :
        Commit(p, [docs[p] EXCEPT !.deleted = @ \cup {u}], msgs)
  BY DEF Delete
<1> DEFINE d == [docs[p] EXCEPT !.deleted = @ \cup {u}]
<1>2. /\ WellFormed(docs[p]) /\ docs[p].has \subseteq Units
      /\ docs[p].has \cup docs[p].pending \cup docs[p].parked \subseteq Made
  BY DEF Inv, DocumentsSound, WellFormed, Documents
<1>3. d = [has |-> docs[p].has, pending |-> docs[p].pending,
           deleted |-> docs[p].deleted \cup {u}, parked |-> docs[p].parked]
  BY <1>2 DEF WellFormed, Documents
<1>4. Commit(p, d, msgs)
  BY <1>1
<1> HIDE DEF d
<1>5. WellFormed(d)
  BY <1>2, <1>3 DEF WellFormed, Documents
<1>6. d.has = docs[p].has /\ d.pending = docs[p].pending /\ d.parked = docs[p].parked
      /\ docs[p].deleted \subseteq d.deleted
  BY <1>3
<1>7. \E n \in 0..Sizes[p] : ClocksOf(d.has, p) = 0..(n - 1)
  BY <1>6 DEF Inv, OwnPrefix
<1> QED BY <1>2, <1>4, <1>5, <1>6, <1>7, CommitKeepsInv

\* What is sent has to be sound.
LEMMA SendingKeepsInv ==
  ASSUME Inv, NEW m, NEW consumed, Sent(m, consumed), UNCHANGED <<docs, file, crashes>>,
         m.from \in Peers /\ m.to \in Peers,
         \/ m.kind = "step1" /\ Step1Sound(m)
         \/ m.kind = "step2" /\ UpdateSound(m) /\ Step2Sound(m)
  PROVE  Inv'
<1>1. DocumentsSound' /\ OwnPrefix' /\ FileSound' /\ FileKeepsUp' /\ (crashes \in 0..MaxCrashes)'
  BY DEF Inv, DocumentsSound, OwnPrefix, FileSound, FileKeepsUp, Made, ClocksOf, Prefix
<1>2. MessagesSound'
  <2>1. msgs' = (msgs \ consumed) \cup {m} /\ Cardinality(msgs') <= MaxMessages
    BY DEF Sent
  <2>2. IsFiniteSet(msgs')
    <3>1. IsFiniteSet(msgs \ consumed)
      BY FS_Subset DEF Inv, MessagesSound
    <3> QED BY <2>1, <3>1, FS_AddElement
  <2>3. /\ \A x : Step1Sound(x)' <=> Step1Sound(x)
        /\ \A x : UpdateSound(x)' <=> UpdateSound(x)
        /\ \A x : Step2Sound(x)' <=> Step2Sound(x)
    BY DEF Step1Sound, UpdateSound, Step2Sound, Made
  <2>4. ASSUME NEW x \in msgs'
        PROVE  /\ x.kind \in {"step1", "step2", "update"} /\ x.from \in Peers /\ x.to \in Peers
               /\ x.kind = "step1" => Step1Sound(x)'
               /\ x.kind \in {"step2", "update"} => UpdateSound(x)'
               /\ x.kind = "step2" => Step2Sound(x)'
    <3>1. CASE x \in msgs
      BY <2>3, <3>1 DEF Inv, MessagesSound
    <3>2. CASE x = m
      BY <2>3, <3>2
    <3> QED BY <2>1, <3>1, <3>2
  <2> QED BY <2>1, <2>2, <2>4 DEF MessagesSound
<1> QED BY <1>1, <1>2 DEF Inv

\* A state vector tells the truth when it is sent.
LEMMA StartKeepsInv ==
  ASSUME Inv, NEW p \in Peers, NEW q \in Peers, Start(p, q)
  PROVE  Inv'
<1> DEFINE m == Step1(p, q)
<1>1. Sent(m, {}) /\ UNCHANGED <<docs, file, crashes>>
  BY DEF Start
<1>2. m.kind = "step1" /\ m.from = p /\ m.to = q /\ m.sv = StateVector(docs[p].has)
  BY DEF Step1
<1>3. docs[p].has \in SUBSET Units
  BY DEF Inv, DocumentsSound, WellFormed, Documents
<1> HIDE DEF m
<1>4. Step1Sound(m)
  BY <1>2, <1>3, StateVectorFacts, PeersAssumption DEF Step1Sound
<1> QED BY <1>1, <1>2, <1>4, SendingKeepsInv

\* An answer is all that its receiver does not have up to the first hole, and all that waits.
LEMMA AnswerKeepsInv ==
  ASSUME Inv, NEW s \in msgs, NEW again \in BOOLEAN, HandleStep1(s, again)
  PROVE  Inv'
<1> DEFINE p == s.to
           q == s.from
           m == Step2(p, q, s.sv)
<1>1. s.kind = "step1" /\ Sent(m, msgs \ Rest(s, again)) /\ UNCHANGED <<docs, file, crashes>>
  BY DEF HandleStep1
<1>2. p \in Peers /\ q \in Peers /\ Step1Sound(s)
  BY <1>1 DEF Inv, MessagesSound
<1>3. /\ m.kind = "step2" /\ m.from = p /\ m.to = q /\ m.known = docs[p]
      /\ m.update = EncodeState(docs[p], s.sv)
  BY DEF Step2
<1>4. /\ WellFormed(docs[p]) /\ docs[p].has \subseteq Units /\ docs[p].deleted \subseteq docs[p].has
      /\ docs[p].has \cup docs[p].pending \cup docs[p].parked \subseteq Made
  BY <1>2 DEF Inv, DocumentsSound, WellFormed, Documents
<1> HIDE DEF m
<1>5. /\ m.update.units = BlocksFrom(docs[p].has, s.sv) \cup docs[p].pending
      /\ m.update.deletes = docs[p].deleted \cup docs[p].parked
  BY <1>3 DEF EncodeState
<1>6. UpdateSound(m)
  <2>1. BlocksFrom(docs[p].has, s.sv) \subseteq docs[p].has
    BY DEF BlocksFrom
  <2> QED BY <1>4, <1>5, <2>1 DEF UpdateSound
<1>7. Step2Sound(m)
  <2>1. ASSUME NEW u \in Prefix(docs[p].has)
        PROVE  u \in m.update.units \cup docs[q].has
    <3>1. u \in Units /\ s.sv \in [Peers -> Int]
      BY <1>2, <1>4 DEF Prefix, Step1Sound
    <3>2. u = <<u[1], u[2]>> /\ u[1] \in Peers /\ u[2] \in Nat /\ s.sv[u[1]] \in Int
      BY <3>1, UnitFacts
    <3>3. CASE u[2] >= s.sv[u[1]]
      BY <1>4, <1>5, <3>1, <3>3, DifferenceSuffices
    <3>4. CASE ~ (u[2] >= s.sv[u[1]])
      <4>1. u[2] \in 0..(s.sv[u[1]] - 1)
        BY <3>2, <3>4
      <4>2. <<u[1], u[2]>> \in docs[q].has
        BY <1>2, <3>2, <4>1 DEF Step1Sound
      <4> QED BY <3>2, <4>2
    <3> QED BY <3>3, <3>4
  <2> QED BY <1>3, <1>4, <1>5, <2>1 DEF Step2Sound
<1> QED BY <1>1, <1>2, <1>3, <1>6, <1>7, SendingKeepsInv

\* What an update brings was made before, and is none of the receiver's own units that it
\* does not have.
LEMMA ApplyKeepsInv ==
  ASSUME Inv, NEW m \in msgs, m.kind \in {"step2", "update"}, NEW again \in BOOLEAN,
         Commit(m.to, ApplyUpdate(docs[m.to], m.update), Rest(m, again))
  PROVE  Inv'
<1> DEFINE p == m.to
           d == ApplyUpdate(docs[p], m.update)
<1>1. /\ p \in Peers /\ m.update.units \subseteq Made /\ m.update.deletes \subseteq Made
      /\ Rest(m, again) \subseteq msgs
  BY DEF Inv, MessagesSound, UpdateSound, Rest
<1>2. /\ WellFormed(docs[p]) /\ docs[p].has \subseteq Units /\ docs[p].deleted \subseteq docs[p].has
      /\ docs[p].has \cup docs[p].pending \cup docs[p].parked \subseteq Made
  BY <1>1 DEF Inv, DocumentsSound, WellFormed, Documents
<1>3. m.update.units \subseteq Units /\ m.update.deletes \subseteq Units
  BY <1>1 DEF Made
<1>4. /\ WellFormed(d)
      /\ docs[p].has \subseteq d.has /\ docs[p].deleted \subseteq d.deleted
      /\ d.has \cup d.pending = docs[p].has \cup docs[p].pending \cup m.update.units
      /\ d.deleted \cup d.parked = docs[p].deleted \cup docs[p].parked \cup m.update.deletes
  BY <1>2, <1>3, ApplyFacts
<1>5. Commit(p, d, Rest(m, again))
  OBVIOUS
<1> HIDE DEF p, d
<1>6. d.has \cup d.pending \cup d.parked \subseteq Made
  BY <1>1, <1>2, <1>4
<1>7. \E n \in 0..Sizes[p] : ClocksOf(d.has, p) = 0..(n - 1)
  <2>1. PICK n \in 0..Sizes[p] : ClocksOf(docs[p].has, p) = 0..(n - 1)
    BY <1>1 DEF Inv, OwnPrefix
  <2>2. d.has \in SUBSET Units
    BY <1>4 DEF WellFormed, Documents
  <2>3. \A k : <<p, k>> \in d.has <=> <<p, k>> \in docs[p].has
    BY <1>4, <1>6 DEF Made
  <2>4. \A k : k \in ClocksOf(d.has, p) <=> k \in ClocksOf(docs[p].has, p)
    BY <1>1, <1>2, <2>2, <2>3, ClockFacts
  <2> QED BY <2>1, <2>4
<1> QED BY <1>1, <1>4, <1>5, <1>6, <1>7, CommitKeepsInv

\* A restart loses what came from others and had no place in front of a hole, never a unit
\* of the hub's own: its clocks go on where they were.
LEMMA CrashKeepsInv ==
  ASSUME Inv, Crash
  PROVE  Inv'
<1> DEFINE d == ApplyUpdate(EmptyDoc, file)
           old == docs[Hub]
<1>1. /\ docs' = [docs EXCEPT ![Hub] = d] /\ crashes' = crashes + 1 /\ crashes < MaxCrashes
      /\ msgs' = {m \in msgs : Hub \notin {m.from, m.to}} /\ file' = file
  BY DEF Crash
<1>2. /\ file.units \subseteq Made /\ file.deletes \subseteq Made
      /\ file.units \subseteq Units /\ file.deletes \subseteq Units
  BY DEF Inv, FileSound, Made
<1>3. /\ WellFormed(old) /\ old.has \subseteq Units /\ old.deleted \subseteq old.has
  BY PeersAssumption DEF Inv, DocumentsSound, WellFormed, Documents
<1>4. WellFormed(EmptyDoc) /\ EmptyDoc.has = {} /\ EmptyDoc.pending = {}
      /\ EmptyDoc.deleted = {} /\ EmptyDoc.parked = {}
  BY DEF WellFormed, EmptyDoc, Documents
<1>5. /\ WellFormed(d)
      /\ d.has \cup d.pending = file.units /\ d.deleted \cup d.parked = file.deletes
  BY <1>2, <1>4, ApplyFacts
<1>6. \A u \in Prefix(old.has) : u \in d.has
  <2> SUFFICES ASSUME NEW u \in Prefix(old.has) PROVE u \in d.has
    OBVIOUS
  <2>1. u \in Units /\ \A k \in 0..u[2] : <<u[1], k>> \in Prefix(old.has)
    <3>1. u \in Units /\ u[2] \in Nat /\ \A k \in 0..u[2] : <<u[1], k>> \in old.has
      BY <1>3, UnitFacts DEF Prefix
    <3>2. ASSUME NEW k \in 0..u[2] PROVE \A j \in 0..k : j \in 0..u[2]
      BY <3>1
    <3>3. ASSUME NEW k \in 0..u[2] PROVE <<u[1], k>> \in Prefix(old.has)
      BY <3>1, <3>2 DEF Prefix
    <3> QED BY <3>1, <3>3
  <2>2. Prefix(old.has) \subseteq file.units
    BY DEF Inv, FileKeepsUp
  <2> QED BY <1>2, <2>1, <2>2, RunsComeBack
<1> HIDE DEF d
<1>7. \A k : <<Hub, k>> \in old.has <=> <<Hub, k>> \in d.has
  <2>1. ASSUME NEW k, <<Hub, k>> \in old.has PROVE <<Hub, k>> \in d.has
    <3>1. PICK n \in 0..Sizes[Hub] : ClocksOf(old.has, Hub) = 0..(n - 1)
      BY PeersAssumption DEF Inv, OwnPrefix
    <3>2. n \in Nat /\ k \in 0..(n - 1)
      <4>1. n \in Nat
        BY PeersAssumption, SizesAssumption
      <4>2. k \in ClocksOf(old.has, Hub)
        BY <1>3, <2>1, ClockFacts, PeersAssumption
      <4> QED BY <3>1, <4>1, <4>2
    <3>3. ASSUME NEW j \in 0..k PROVE <<Hub, j>> \in old.has
      <4>1. j \in 0..(n - 1)
        BY <3>2
      <4> QED BY <1>3, <3>1, <4>1, ClockFacts, PeersAssumption
    <3>4. <<Hub, k>> \in Prefix(old.has)
      BY <2>1, <3>3 DEF Prefix
    <3> QED BY <1>6, <3>4
  <2>2. ASSUME NEW k, <<Hub, k>> \in d.has PROVE <<Hub, k>> \in old.has
    BY <1>2, <1>5, <2>2 DEF Made
  <2> QED BY <2>1, <2>2
<1>8. docs \in [Peers -> Documents] /\ docs' \in [Peers -> Documents] /\ docs'[Hub] = d
      /\ \A q \in Peers : q # Hub => docs'[q] = docs[q]
  BY <1>1, <1>5, PeersAssumption DEF Inv, DocumentsSound, WellFormed
<1>9. Made' = Made
  <2>1. ASSUME NEW u \in Units PROVE u \in docs'[u[1]].has <=> u \in docs[u[1]].has
    <3>1. u = <<u[1], u[2]>> /\ u[1] \in Peers
      BY UnitFacts
    <3>2. CASE u[1] = Hub
      BY <1>7, <1>8, <3>1, <3>2
    <3>3. CASE u[1] # Hub
      BY <1>8, <3>1, <3>3
    <3> QED BY <3>2, <3>3
  <2> QED BY <2>1 DEF Made
<1>10. DocumentsSound'
  <2>1. \A q \in Peers : WellFormed(docs'[q])
    BY <1>5, <1>8 DEF Inv, DocumentsSound
  <2>2. d.has \cup d.pending \cup d.parked \subseteq Made
    BY <1>2, <1>5
  <2>3. ASSUME NEW q \in Peers
        PROVE  docs'[q].has \cup docs'[q].pending \cup docs'[q].parked \subseteq Made'
    <3>1. CASE q = Hub
      BY <1>8, <1>9, <2>2, <3>1
    <3>2. CASE q # Hub
      BY <1>8, <1>9, <3>2 DEF Inv, DocumentsSound
    <3> QED BY <3>1, <3>2
  <2> QED BY <1>8, <2>1, <2>3 DEF DocumentsSound, WellFormed
<1>11. OwnPrefix'
  <2> SUFFICES ASSUME NEW q \in Peers
               PROVE  \E n \in 0..Sizes[q] : ClocksOf(docs'[q].has, q) = 0..(n - 1)
    BY DEF OwnPrefix, ClocksOf
  <2>1. CASE q = Hub
    <3>1. d.has \in SUBSET Units
      BY <1>5 DEF WellFormed, Documents
    <3>2. \A k : k \in ClocksOf(d.has, Hub) <=> k \in ClocksOf(old.has, Hub)
      BY <1>3, <1>7, <3>1, ClockFacts, PeersAssumption
    <3>3. ClocksOf(d.has, Hub) = ClocksOf(old.has, Hub)
      <4>1. ClocksOf(d.has, Hub) \subseteq Nat /\ ClocksOf(old.has, Hub) \subseteq Nat
        BY <1>3, <3>1, ClockFacts, PeersAssumption
      <4> QED BY <3>2, <4>1
    <3> QED BY <1>8, <2>1, <3>3 DEF Inv, OwnPrefix
  <2>2. CASE q # Hub
    BY <1>8, <2>2 DEF Inv, OwnPrefix
  <2> QED BY <2>1, <2>2
<1>12. FileSound'
  BY <1>1, <1>9 DEF Inv, FileSound
<1>13. MessagesSound'
  <2>1. msgs' \subseteq msgs
    BY <1>1
  <2>2. IsFiniteSet(msgs') /\ Cardinality(msgs') <= MaxMessages
    <3>1. IsFiniteSet(msgs) /\ Cardinality(msgs) <= MaxMessages
      BY DEF Inv, MessagesSound
    <3>2. IsFiniteSet(msgs') /\ Cardinality(msgs') <= Cardinality(msgs)
      BY <2>1, <3>1, FS_Subset
    <3>3. Cardinality(msgs) \in Nat /\ Cardinality(msgs') \in Nat /\ MaxMessages \in Nat
      BY <3>1, <3>2, FS_CardinalityType, BoundAssumption
    <3> QED BY <3>1, <3>2, <3>3
  <2>3. ASSUME NEW m \in msgs'
        PROVE  /\ m.kind \in {"step1", "step2", "update"} /\ m.from \in Peers /\ m.to \in Peers
               /\ m.kind = "step1" => Step1Sound(m)'
               /\ m.kind \in {"step2", "update"} => UpdateSound(m)'
               /\ m.kind = "step2" => Step2Sound(m)'
    <3>1. m \in msgs /\ m.from # Hub /\ m.to # Hub /\ MessagesSound
      BY <1>1 DEF Inv
    <3>2. m.from \in Peers /\ m.to \in Peers
      BY <3>1 DEF MessagesSound
    <3>3. docs'[m.from] = docs[m.from] /\ docs'[m.to] = docs[m.to]
      BY <1>8, <3>1, <3>2
    <3> QED BY <1>9, <3>1, <3>3, MessagesStaySound
  <2> QED BY <2>2, <2>3 DEF MessagesSound
<1>14. FileKeepsUp'
  <2>1. Prefix(d.has) \subseteq file.units /\ d.deleted \subseteq file.deletes
    BY <1>5 DEF Prefix
  <2> QED BY <1>1, <1>8, <2>1 DEF FileKeepsUp, Prefix
<1>15. (crashes \in 0..MaxCrashes)'
  BY <1>1, BoundAssumption DEF Inv
<1> QED BY <1>10, <1>11, <1>12, <1>13, <1>14, <1>15 DEF Inv

(***************************************************************************)
(* What holds of every behaviour.                                          *)
(***************************************************************************)
\* Empty documents, no messages and an empty file.
LEMMA InitInv == Init => Inv
<1> SUFFICES ASSUME Init PROVE Inv
  OBVIOUS
<1>1. \A p \in Peers : docs[p] = EmptyDoc
  BY DEF Init
<1>2. /\ EmptyDoc \in Documents /\ EmptyDoc.has = {} /\ EmptyDoc.pending = {}
      /\ EmptyDoc.deleted = {} /\ EmptyDoc.parked = {}
  BY DEF EmptyDoc, Documents
<1>3. DocumentsSound
  BY <1>1, <1>2 DEF Init, DocumentsSound, WellFormed
<1>4. OwnPrefix
  <2>1. ASSUME NEW p \in Peers PROVE \E n \in 0..Sizes[p] : ClocksOf(docs[p].has, p) = 0..(n - 1)
    <3>1. ClocksOf(docs[p].has, p) = {}
      BY <1>1, <1>2 DEF ClocksOf
    <3>2. 0 \in 0..Sizes[p] /\ 0..(0 - 1) = {}
      BY SizesAssumption
    <3> QED BY <3>1, <3>2
  <2> QED BY <2>1 DEF OwnPrefix
<1>5. FileSound
  BY DEF Init, FileSound, EmptyUpdate
<1>6. MessagesSound
  BY FS_EmptySet, BoundAssumption DEF Init, MessagesSound
<1>7. FileKeepsUp
  BY <1>1, <1>2, PeersAssumption DEF FileKeepsUp, Prefix
<1>8. crashes \in 0..MaxCrashes
  BY BoundAssumption DEF Init
<1> QED BY <1>3, <1>4, <1>5, <1>6, <1>7, <1>8 DEF Inv

\* Every step keeps the invariant.
LEMMA NextKeepsInv == Inv /\ [Next]_vars => Inv'
<1> SUFFICES ASSUME Inv, [Next]_vars PROVE Inv'
  OBVIOUS
<1>1. ASSUME NEW p \in Peers, Insert(p) PROVE Inv'
  BY <1>1, InsertKeepsInv
<1>2. ASSUME NEW p \in Peers, Delete(p) PROVE Inv'
  BY <1>2, DeleteKeepsInv
<1>3. ASSUME NEW p \in Peers, NEW q \in Peers, Start(p, q) PROVE Inv'
  BY <1>3, StartKeepsInv
<1>4. ASSUME NEW m \in msgs, NEW again \in BOOLEAN, HandleStep1(m, again) PROVE Inv'
  BY <1>4, AnswerKeepsInv
<1>5. ASSUME NEW m \in msgs, NEW again \in BOOLEAN, HandleStep2(m, again) PROVE Inv'
  BY <1>5, ApplyKeepsInv DEF HandleStep2
<1>6. ASSUME NEW m \in msgs, NEW again \in BOOLEAN, HandleUpdate(m, again) PROVE Inv'
  BY <1>6, ApplyKeepsInv DEF HandleUpdate
<1>7. CASE Crash
  BY <1>7, CrashKeepsInv
<1>8. CASE UNCHANGED vars
  BY <1>8 DEF vars, Inv, DocumentsSound, OwnPrefix, FileSound, MessagesSound, FileKeepsUp, Made,
              Step1Sound, UpdateSound, Step2Sound, ClocksOf, Prefix
<1> QED BY <1>1, <1>2, <1>3, <1>4, <1>5, <1>6, <1>7, <1>8 DEF Next, Handle

\* The invariant holds in every reachable state.
LEMMA InvHolds == Spec => []Inv
<1> QED BY InitInv, NextKeepsInv, PTL DEF Spec

\* Documents are well formed, and the file of the update events has each client's units up to
\* the first hole and all deletes, through restarts and whatever messages were lost
\* (TransactionMut::encode_update, store_update_events).
THEOREM FileIsEnough == Spec => []FileMatches
<1>1. Inv => FileMatches
  BY DEF Inv, FileMatches, TypeOK, FileKeepsUp, DocumentsSound, WellFormed, FileSound, Made,
         MessagesSound
<1> QED BY <1>1, InvHolds, PTL

\* Whoever applies a SyncStep2 has, or keeps as pending, all that its sender had up to the
\* first hole of each client, all that waited there and all deletes, even when the state vector
\* that was answered was old (Protocol::handle_sync_step1, Store::diff_state_vectors).
THEOREM AnswersAreEnough == Spec => AssuredToHoles
<1>1. Inv /\ [Next]_vars => [Assures(Prefix)]_vars
  <2> SUFFICES ASSUME Inv, NEW m \in msgs, NEW again \in BOOLEAN, HandleStep2(m, again)
               PROVE  LET d == docs'[m.to] IN
                      /\ Prefix(m.known.has) \cup m.known.pending \subseteq d.has \cup d.pending
                      /\ m.known.deleted \cup m.known.parked \subseteq d.deleted \cup d.parked
    BY DEF Assures
  <2> DEFINE p == m.to
             d == ApplyUpdate(docs[p], m.update)
  <2>1. m.kind = "step2" /\ docs' = [docs EXCEPT ![p] = d]
    BY DEF HandleStep2, Commit
  <2>2. /\ p \in Peers /\ UpdateSound(m) /\ Step2Sound(m)
        /\ docs \in [Peers -> Documents] /\ WellFormed(docs[p])
    BY <2>1 DEF Inv, MessagesSound, DocumentsSound
  <2>3. m.update.units \subseteq Units /\ m.update.deletes \subseteq Units
    BY <2>2 DEF UpdateSound, Made
  <2>4. /\ d.has \cup d.pending = docs[p].has \cup docs[p].pending \cup m.update.units
        /\ d.deleted \cup d.parked = docs[p].deleted \cup docs[p].parked \cup m.update.deletes
    BY <2>2, <2>3, ApplyFacts
  <2>5. docs'[p] = d
    BY <2>1, <2>2
  <2> HIDE DEF d
  <2> QED BY <2>2, <2>4, <2>5 DEF Step2Sound
<1> QED BY <1>1, InvHolds, PTL DEF Spec, AssuredToHoles

(***************************************************************************)
(* Peers that learn nothing from each other have the same.                 *)
(***************************************************************************)
\* Every two peers are joined by links, be it over others: no set of peers is cut off.
Connected ==
  \A S \in SUBSET Peers :
    S # {} /\ S # Peers => \E p \in S : \E q \in Peers \ S : {p, q} \in Links

\* What q has up to a hole of p's, p learns from q's answer.
LEMMA AnswersTeach ==
  ASSUME NEW d, NEW e, WellFormed(d), WellFormed(e),
         NEW u \in Prefix(e.has), u \notin d.has, \A k \in 0..(u[2] - 1) : <<u[1], k>> \in d.has
  PROVE  u \in ApplyUpdate(d, EncodeState(e, StateVector(d.has))).has
<1> DEFINE sv == StateVector(d.has)
           update == EncodeState(e, sv)
           new == update.units \ d.has
<1>1. /\ d.has \in SUBSET Units /\ e.has \in SUBSET Units /\ u \in Units
  BY DEF WellFormed, Documents, Prefix
<1>2. u = <<u[1], u[2]>> /\ u[1] \in Peers /\ u[2] \in Nat
  BY <1>1, UnitFacts
<1>3. sv \in [Peers -> Int] /\ \A k \in 0..(sv[u[1]] - 1) : <<u[1], k>> \in d.has
  BY <1>1, <1>2, StateVectorFacts
<1>4. u[2] >= sv[u[1]]
  <2>1. sv[u[1]] \in Int
    BY <1>2, <1>3
  <2>2. u[2] \notin 0..(sv[u[1]] - 1)
    BY <1>2, <1>3
  <2> QED BY <1>2, <2>1, <2>2
<1> HIDE DEF sv
<1>5. u \in BlocksFrom(e.has, sv)
  BY <1>1, <1>3, <1>4, DifferenceSuffices
<1>6. u \in new
  BY <1>5 DEF EncodeState
<1>7. ASSUME NEW k \in 0..u[2], <<u[1], k>> \in new
      PROVE  ~ (/\ <<u[1], k>> \in Continues
                /\ <<<<u[1], k>>[1], <<u[1], k>>[2] - 1>> \notin d.has \cup new)
  <2>1. k = u[2]
    BY <1>2, <1>7
  <2>2. CASE u \in Continues
    <3>1. u[2] > 0 /\ u[2] - 1 \in 0..(u[2] - 1)
      BY <1>2, <2>2, UnitsAssumption
    <3> QED BY <2>1, <3>1
  <2> QED BY <1>2, <2>1, <2>2
<1> HIDE DEF new
<1>8. u \in Integrable(new, d.has)
  BY <1>6, <1>7 DEF Integrable
<1>9. Integrable(new, d.has) \subseteq ApplyUpdate(d, update).has
  BY DEF ApplyUpdate, new
<1> QED BY <1>8, <1>9 DEF sv

\* Whatever messages were lost, as long as two peers differ or something is pending somewhere,
\* some peer learns something from a neighbour's answer to its state vector
\* (Protocol::handle_sync_step1, Protocol::handle_sync_step2).
THEOREM PeersCatchUp ==
  ASSUME Connected
  PROVE  Spec => []NoStalemate
<1>1. ASSUME Inv,
             \A p, q \in Peers : {p, q} \in Links =>
               ApplyUpdate(docs[p], EncodeState(docs[q], StateVector(docs[p].has))) = docs[p]
      PROVE  \A p, q \in Peers :
               /\ docs[p].has = docs[q].has /\ docs[p].deleted = docs[q].deleted
               /\ docs[p].pending = {} /\ docs[p].parked = {}
  <2>1. ASSUME NEW p \in Peers
        PROVE  /\ WellFormed(docs[p]) /\ docs[p].has \in SUBSET Units
               /\ docs[p].has \cup docs[p].pending \cup docs[p].parked \subseteq Made
               /\ docs[p].pending \cap docs[p].has = {} /\ docs[p].parked \cap docs[p].has = {}
               /\ docs[p].deleted \subseteq docs[p].has
    BY <1>1 DEF Inv, DocumentsSound, WellFormed, Documents
  <2>2. ASSUME NEW p \in Peers, NEW S \in SUBSET Peers, S # {}, p \in Peers \ S
        PROVE  \E x \in S : \E y \in Peers \ S : {y, x} \in Links
    <3>1. S # Peers
      BY <2>2
    <3>2. PICK x \in S : \E y \in Peers \ S : {x, y} \in Links
      BY <2>2, <3>1 DEF Connected
    <3>3. PICK y \in Peers \ S : {x, y} \in Links
      BY <3>2
    <3>4. {y, x} = {x, y}
      OBVIOUS
    <3> QED BY <3>3, <3>4
  \* by induction over the clocks of an author: everyone has its unit
  <2>3. ASSUME NEW c \in Peers, NEW n \in Nat, <<c, n>> \in Made,
               \A k \in 0..(n - 1) : \A p \in Peers : <<c, k>> \in docs[p].has
        PROVE  \A p \in Peers : <<c, n>> \in docs[p].has
    <3> DEFINE u == <<c, n>>
               S == {p \in Peers : u \in docs[p].has}
    <3>1. SUFFICES ASSUME NEW p \in Peers, u \notin docs[p].has PROVE FALSE
      OBVIOUS
    <3>2. c \in S
      BY <2>3 DEF Made
    <3>3. PICK x \in S : \E y \in Peers \ S : {y, x} \in Links
      BY <2>2, <3>1, <3>2
    <3>4. PICK y \in Peers \ S : {y, x} \in Links
      BY <3>3
    <3>5. u \in Prefix(docs[x].has)
      BY <2>3 DEF Prefix
    <3>6. x \in Peers /\ y \in Peers /\ u \notin docs[y].has
      BY <3>4
    <3>7. u[1] = c /\ u[2] = n
      OBVIOUS
    <3> HIDE DEF u, S
    <3>8. u \in ApplyUpdate(docs[y], EncodeState(docs[x], StateVector(docs[y].has))).has
      BY <2>1, <2>3, <3>5, <3>6, <3>7, AnswersTeach
    <3> QED BY <1>1, <3>4, <3>6, <3>8
  <2>4. ASSUME NEW c \in Peers, NEW n \in Nat, <<c, n>> \in Made
        PROVE  \A p \in Peers : <<c, n>> \in docs[p].has
    <3> DEFINE T == {k \in 0..n : \E p \in Peers : <<c, k>> \notin docs[p].has}
    <3>1. SUFFICES ASSUME T # {} PROVE FALSE
      <4>1. n \in 0..n
        OBVIOUS
      <4> QED BY <4>1
    <3>2. PICK k \in T : \A j \in T : k <= j
      <4>1. T \in SUBSET Nat
        OBVIOUS
      <4> HIDE DEF T
      <4> QED BY <3>1, <4>1, LeastElement
    <3>3. \A j \in 0..(k - 1) : \A p \in Peers : <<c, j>> \in docs[p].has
      BY <3>2
    <3>4. <<c, k>> \in Made
      <4>1. k \in 0..n /\ <<c, n>> \in Units /\ <<c, n>> \in docs[c].has
        BY <2>4, <3>2 DEF Made
      <4>2. n \in ClocksOf(docs[c].has, c)
        BY <2>1, <4>1, ClockFacts
      <4>3. PICK l \in 0..Sizes[c] : ClocksOf(docs[c].has, c) = 0..(l - 1)
        BY <1>1 DEF Inv, OwnPrefix
      <4>4. k \in 0..(l - 1)
        BY <4>1, <4>2, <4>3, SizesAssumption
      <4>5. <<c, k>> \in docs[c].has
        BY <2>1, <4>3, <4>4, ClockFacts
      <4> QED BY <2>1, <4>5 DEF Made
    <3> QED BY <2>3, <3>2, <3>3, <3>4
  <2>5. \A p \in Peers : docs[p].has = Made
    <3>1. ASSUME NEW p \in Peers, NEW u \in Made PROVE u \in docs[p].has
      <4>1. u \in Units
        BY DEF Made
      <4>2. u = <<u[1], u[2]>> /\ u[1] \in Peers /\ u[2] \in Nat
        BY <4>1, UnitFacts
      <4> QED BY <2>4, <4>2
    <3> QED BY <2>1, <3>1
  <2>6. \A p \in Peers : docs[p].pending = {} /\ docs[p].parked = {}
    BY <2>1, <2>5
  <2>7. ASSUME NEW p \in Peers, NEW q \in Peers, {p, q} \in Links
        PROVE  docs[q].deleted \subseteq docs[p].deleted
    <3> DEFINE update == EncodeState(docs[q], StateVector(docs[p].has))
               after == ApplyUpdate(docs[p], update)
    <3>1. after = docs[p] /\ docs[q].deleted \subseteq update.deletes
      BY <1>1, <2>7 DEF EncodeState
    <3>2. update.deletes \cap after.has \subseteq after.deleted
      BY DEF ApplyUpdate
    <3>3. docs[q].deleted \subseteq docs[p].has
      BY <2>1, <2>5
    <3> HIDE DEF update, after
    <3> QED BY <3>1, <3>2, <3>3
  <2>8. ASSUME NEW p \in Peers, NEW q \in Peers, NEW u \in docs[p].deleted
        PROVE  u \in docs[q].deleted
    <3> DEFINE S == {r \in Peers : u \in docs[r].deleted}
    <3>1. SUFFICES ASSUME q \notin S PROVE FALSE
      OBVIOUS
    <3>2. PICK x \in S : \E y \in Peers \ S : {y, x} \in Links
      BY <2>2, <2>8, <3>1
    <3> QED BY <2>7, <3>2
  <2>9. ASSUME NEW p \in Peers, NEW q \in Peers
        PROVE  /\ docs[p].has = docs[q].has /\ docs[p].deleted = docs[q].deleted
               /\ docs[p].pending = {} /\ docs[p].parked = {}
    <3>1. docs[p].has = docs[q].has
      BY <2>5
    <3>2. docs[p].deleted = docs[q].deleted
      BY <2>8
    <3>3. docs[p].pending = {} /\ docs[p].parked = {}
      BY <2>6
    <3> QED BY <3>1, <3>2, <3>3
  <2> QED BY <2>9
<1>2. Inv => NoStalemate
  BY <1>1 DEF NoStalemate
<1> QED BY <1>2, InvHolds, PTL
=============================================================================
