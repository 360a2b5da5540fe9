-------------------------- MODULE AwarenessProofs --------------------------
(***************************************************************************)
(* Proofs about Awareness.  One fact carries them: every state anywhere,   *)
(* at a peer or in a message, that a client has left behind has a smaller  *)
(* clock than the client's own entry, which only a larger clock replaces.  *)
(***************************************************************************)
EXTENDS Awareness, TLAPS

\* a client that shows a state has been heard of
LiveKnown ==
  \A p \in Peers, c \in Clients : states[p][c].data # Null => states[p][c].clock > 0

OwnerAhead ==
  \A c \in Clients : \A e \in Entries(c) :
    e.data # Null => e.clock < states[c][c].clock \/ e = states[c][c]

\* what a peer has of another one was sent
Told ==
  \A c \in Clients : \A p \in Peers \ {c} :
    \/ states[p][c] = Vacant
    \/ \E u \in sent : c \in DOMAIN u /\ u[c] = states[p][c]

Inv == TypeOK /\ LiveKnown /\ OwnerAhead /\ OneStatePerClock

(***************************************************************************)
(* What an update does to one entry, and a step to the whole map.          *)
(***************************************************************************)
LEMMA MergeFacts ==
  ASSUME NEW p \in Peers, NEW c \in Clients, NEW old \in Entry, NEW e \in Entry
  PROVE  LET m == Merge(p, c, old, e) IN
         /\ m \in Entry
         /\ m = old \/ m.clock > old.clock \/ (m.clock = old.clock /\ m.data = Null)
         /\ Newer(old, e) => m.clock >= e.clock
         /\ ~Newer(old, e) => m = old
         /\ Newer(old, e) /\ ~Survives(p, c, old, e) => m = e
         /\ Survives(p, c, old, e) => m = old \/ m.clock > old.clock
         /\ Survives(p, c, old, e) => m.data = old.data
  BY DEF Merge, Newer, Survives, Entry

LEMMA VacantType == Vacant \in Entry /\ Null \in Data
  BY DEF Vacant, Entry, Data

LEMMA TriggerUpdateType ==
  ASSUME TypeOK, states' \in [Peers -> [Clients -> Entry]],
         NEW p \in Peers, NEW clients \in SUBSET Clients,
         \A c \in clients : states'[p][c].clock > 0,
         TriggerUpdate(p, clients)
  PROVE  /\ \A u \in sent' : /\ DOMAIN u \subseteq Clients
                             /\ \A c \in DOMAIN u : u[c] \in Entry /\ u[c].clock > 0
         /\ heard' \in [Peers -> [Clients -> Data]]
<1>1. ASSUME NEW u \in sent'
      PROVE  /\ DOMAIN u \subseteq Clients
             /\ \A c \in DOMAIN u : u[c] \in Entry /\ u[c].clock > 0
  <2>1. CASE u \in sent
    BY <2>1 DEF TypeOK
  <2>2. CASE u = [c \in clients |-> states'[p][c]]
    BY <2>2
  <2> QED BY <1>1, <2>1, <2>2 DEF TriggerUpdate, UpdateWithClients
<1>2. \A c \in Clients : states'[p][c].data \in Data
  BY DEF Entry
<1>3. heard' \in [Peers -> [Clients -> Data]]
  BY <1>2 DEF TriggerUpdate, Reread, TypeOK
<1> QED BY <1>1, <1>3

LEMMA TriggerChangeType ==
  ASSUME TypeOK, states' \in [Peers -> [Clients -> Entry]],
         NEW p \in Peers, NEW clients, TriggerChange(p, clients)
  PROVE  noticed' \in [Peers -> [Clients -> Data]]
<1>1. \A c \in Clients : states'[p][c].data \in Data
  BY DEF Entry
<1> QED BY <1>1 DEF TriggerChange, Reread, TypeOK

\* the clients named by an update that is applied
Named(p, u) == Added(p, u) \cup Updated(p, u) \cup Removed(p, u)

LEMMA ApplyFacts ==
  ASSUME TypeOK, NEW p \in Peers, NEW u \in sent, ApplyUpdate(p, u)
  PROVE  /\ states' \in [Peers -> [Clients -> Entry]]
         /\ \A q \in Peers \ {p} : states'[q] = states[q]
         /\ \A c \in Clients :
              states'[p][c] = IF c \in DOMAIN u THEN Merge(p, c, states[p][c], u[c])
                                                ELSE states[p][c]
         /\ Named(p, u) \subseteq Clients
         /\ \A c \in Named(p, u) : states'[p][c].clock > 0
<1>1. /\ DOMAIN u \subseteq Clients
      /\ \A c \in DOMAIN u : u[c] \in Entry /\ u[c].clock > 0 /\ u[c].clock \in Nat
      /\ states \in [Peers -> [Clients -> Entry]]
  BY DEF TypeOK, Entry
<1>2. /\ \A q \in Peers \ {p} : states'[q] = states[q]
      /\ \A c \in Clients :
           states'[p][c] = IF c \in DOMAIN u THEN Merge(p, c, states[p][c], u[c])
                                             ELSE states[p][c]
  BY <1>1 DEF ApplyUpdate
<1>3. \A c \in DOMAIN u : Merge(p, c, states[p][c], u[c]) \in Entry
  BY <1>1, MergeFacts
<1>4. states' \in [Peers -> [Clients -> Entry]]
  BY <1>1, <1>3 DEF ApplyUpdate
<1>5. Named(p, u) \subseteq DOMAIN u
  BY DEF Named, Added, Updated, Removed
<1>6. ASSUME NEW c \in Named(p, u) PROVE states'[p][c].clock > 0
  <2>1. c \in DOMAIN u /\ c \in Clients /\ states[p][c] \in Entry
    BY <1>1, <1>5
  <2>2. Newer(states[p][c], u[c])
    BY <1>1, <2>1 DEF Named, Added, Updated, Removed, Newer, Vacant
  <2>3. Merge(p, c, states[p][c], u[c]).clock >= u[c].clock
    BY <1>1, <2>1, <2>2, MergeFacts
  <2>4. states'[p][c] \in Entry
    BY <1>4, <2>1
  <2> QED BY <1>1, <1>2, <2>1, <2>3, <2>4 DEF Entry
<1> QED BY <1>1, <1>2, <1>4, <1>5, <1>6

\* p gives client c the data v, under the next clock.
Bumps(p, c, v) ==
  states' = [states EXCEPT ![p][c] = [clock |-> states[p][c].clock + 1, data |-> v]]

LEMMA LocalFacts ==
  ASSUME TypeOK, NEW p \in Peers, NEW c \in Clients, NEW v \in Data, Bumps(p, c, v)
  PROVE  /\ states' \in [Peers -> [Clients -> Entry]]
         /\ states'[p][c] = [clock |-> states[p][c].clock + 1, data |-> v]
         /\ states'[p][c].clock > states[p][c].clock
         /\ states'[p][c].clock > 0
         /\ \A q \in Peers, d \in Clients :
              q # p \/ d # c => states'[q][d] = states[q][d]
<1>1. states \in [Peers -> [Clients -> Entry]] /\ states[p][c].clock \in Nat
  BY DEF TypeOK, Entry
<1>2. [clock |-> states[p][c].clock + 1, data |-> v] \in Entry
  BY <1>1 DEF Entry
<1>3. states'[p][c] = [clock |-> states[p][c].clock + 1, data |-> v]
  BY <1>1 DEF Bumps
<1>4. states' \in [Peers -> [Clients -> Entry]]
  BY <1>1, <1>2 DEF Bumps
<1>5. \A q \in Peers, d \in Clients : q # p \/ d # c => states'[q][d] = states[q][d]
  BY <1>1 DEF Bumps
<1> QED BY <1>1, <1>3, <1>4, <1>5

LEMMA RemoveFacts ==
  ASSUME TypeOK, NEW p \in Peers, NEW c \in Clients, RemoveState(p, c)
  PROVE  /\ states' \in [Peers -> [Clients -> Entry]]
         /\ states'[p][c] = [clock |-> states[p][c].clock + 1, data |-> Null]
         /\ states'[p][c].clock > states[p][c].clock
         /\ states'[p][c].clock > 0
         /\ \A q \in Peers, d \in Clients :
              q # p \/ d # c => states'[q][d] = states[q][d]
<1>1. states' = [states EXCEPT ![p][c] =
                   [clock |-> states[p][c].clock + 1, data |-> Null]]
  BY DEF RemoveState
<1>2. PICK v \in Data : v = Null
  BY VacantType
<1>3. Bumps(p, c, v)
  BY <1>1, <1>2 DEF Bumps
<1>4. /\ states' \in [Peers -> [Clients -> Entry]]
      /\ states'[p][c] = [clock |-> states[p][c].clock + 1, data |-> v]
      /\ states'[p][c].clock > states[p][c].clock
      /\ states'[p][c].clock > 0
      /\ \A q \in Peers, d \in Clients :
           q # p \/ d # c => states'[q][d] = states[q][d]
  BY <1>3, LocalFacts
<1> QED BY <1>2, <1>4

(***************************************************************************)
(* Type correctness.                                                       *)
(***************************************************************************)
TypeInv == TypeOK /\ LiveKnown

LEMMA TypeStep == TypeInv /\ [Next]_vars => TypeInv'
<1> SUFFICES ASSUME TypeInv, [Next]_vars PROVE TypeInv'
  OBVIOUS
<1> USE DEF TypeInv
<1>1. ASSUME NEW p \in Clients, NEW v \in Values, SetLocalState(p, v) PROVE TypeInv'
  <2>1. p \in Peers /\ v \in Data
    BY ClientsAssumption DEF Data
  <2>2. /\ states' \in [Peers -> [Clients -> Entry]]
        /\ states'[p][p].clock > 0
        /\ \A q \in Peers, d \in Clients :
             q # p \/ d # p => states'[q][d] = states[q][d]
    <3>1. Bumps(p, p, v)
      BY <1>1 DEF SetLocalState, Bumps
    <3> QED BY <2>1, <3>1, LocalFacts
  <2>3. noticed' \in [Peers -> [Clients -> Data]]
    BY <1>1, <2>1, <2>2, TriggerChangeType DEF SetLocalState
  <2>4. /\ \A u \in sent' : /\ DOMAIN u \subseteq Clients
                            /\ \A c \in DOMAIN u : u[c] \in Entry /\ u[c].clock > 0
        /\ heard' \in [Peers -> [Clients -> Data]]
    BY <1>1, <2>1, <2>2, TriggerUpdateType DEF SetLocalState
  <2>5. LiveKnown'
    BY <2>2 DEF LiveKnown
  <2> QED BY <2>2, <2>3, <2>4, <2>5 DEF TypeOK
<1>2. ASSUME NEW p \in Peers, NEW c \in Clients, RemoveState(p, c) PROVE TypeInv'
  <2> DEFINE told == IF states[p][c] # Vacant \/ p \in ChangeListeners THEN {c} ELSE {}
  <2>1. /\ states' \in [Peers -> [Clients -> Entry]]
        /\ states'[p][c].clock > 0
        /\ \A q \in Peers, d \in Clients :
             q # p \/ d # c => states'[q][d] = states[q][d]
    BY <1>2, RemoveFacts
  <2>2. told \in SUBSET Clients /\ \A d \in told : states'[p][d].clock > 0
    BY <2>1
  <2>3. TriggerChange(p, told) /\ TriggerUpdate(p, told)
    BY <1>2 DEF RemoveState
  <2> HIDE DEF told
  <2>4. noticed' \in [Peers -> [Clients -> Data]]
    BY <2>1, <2>3, TriggerChangeType
  <2>5. /\ \A u \in sent' : /\ DOMAIN u \subseteq Clients
                            /\ \A d \in DOMAIN u : u[d] \in Entry /\ u[d].clock > 0
        /\ heard' \in [Peers -> [Clients -> Data]]
    BY <2>1, <2>2, <2>3, TriggerUpdateType
  <2>6. LiveKnown'
    BY <2>1 DEF LiveKnown
  <2> QED BY <2>1, <2>4, <2>5, <2>6 DEF TypeOK
<1>3. ASSUME NEW p \in Peers, Announce(p) PROVE TypeInv'
  <2>1. ASSUME NEW u \in sent'
        PROVE  /\ DOMAIN u \subseteq Clients
               /\ \A c \in DOMAIN u : u[c] \in Entry /\ u[c].clock > 0
    <3>1. CASE u \in sent
      BY <3>1 DEF TypeOK
    <3>2. CASE u = [c \in {d \in Clients : states[p][d].data # Null} |-> states[p][c]]
      BY <3>2 DEF TypeOK, LiveKnown
    <3> QED BY <1>3, <3>1, <3>2 DEF Announce, UpdateWithClients
  <2> QED BY <1>3, <2>1 DEF Announce, TypeOK, LiveKnown
<1>4. ASSUME NEW p \in Peers, NEW u \in sent, ApplyUpdate(p, u) PROVE TypeInv'
  <2>1. /\ states' \in [Peers -> [Clients -> Entry]]
        /\ \A q \in Peers \ {p} : states'[q] = states[q]
        /\ \A c \in Clients :
             states'[p][c] = IF c \in DOMAIN u THEN Merge(p, c, states[p][c], u[c])
                                               ELSE states[p][c]
        /\ Named(p, u) \in SUBSET Clients
        /\ \A c \in Named(p, u) : states'[p][c].clock > 0
    BY <1>4, ApplyFacts
  <2>2. noticed' \in [Peers -> [Clients -> Data]]
    BY <1>4, <2>1, TriggerChangeType DEF ApplyUpdate
  <2>3. TriggerUpdate(p, Named(p, u))
    BY <1>4 DEF ApplyUpdate, Named
  <2>4. /\ \A w \in sent' : /\ DOMAIN w \subseteq Clients
                            /\ \A c \in DOMAIN w : w[c] \in Entry /\ w[c].clock > 0
        /\ heard' \in [Peers -> [Clients -> Data]]
    BY <2>1, <2>3, TriggerUpdateType
  <2>5. ASSUME NEW q \in Peers, NEW c \in Clients, states'[q][c].data # Null
        PROVE  states'[q][c].clock > 0
    <3>1. CASE states'[q][c] = states[q][c]
      BY <2>5, <3>1 DEF LiveKnown
    <3>2. CASE q = p /\ c \in DOMAIN u /\ states'[p][c] # states[p][c]
      <4>1. /\ states[p][c] \in Entry /\ u[c] \in Entry /\ u[c].clock > 0
            /\ states'[p][c] = Merge(p, c, states[p][c], u[c])
            /\ states'[p][c] \in Entry
        BY <2>1, <3>2 DEF TypeOK
      <4>2. states'[p][c].clock >= u[c].clock
        BY <3>2, <4>1, MergeFacts
      <4> QED BY <3>2, <4>1, <4>2 DEF Entry
    <3> QED BY <2>1, <3>1, <3>2
  <2> QED BY <2>1, <2>2, <2>4, <2>5 DEF TypeOK, LiveKnown
<1>5. CASE UNCHANGED vars
  BY <1>5 DEF vars, TypeOK, LiveKnown
<1> QED BY <1>1, <1>2, <1>3, <1>4, <1>5 DEF Next

LEMMA TypeInit == Init => TypeInv
  BY VacantType DEF Init, TypeInv, TypeOK, LiveKnown, Vacant

\* Entries are well formed, and nobody sends an update for a client it has not
\* heard of.
THEOREM TypeCorrect == Spec => []TypeOK
<1>1. Spec => []TypeInv
  BY TypeInit, TypeStep, PTL DEF Spec
<1>2. TypeInv => TypeOK
  BY DEF TypeInv
<1> QED BY <1>1, <1>2, PTL

(***************************************************************************)
(* The client's own entry and those the others have of it.                 *)
(***************************************************************************)
LEMMA SentFrom ==
  ASSUME [Next]_vars, NEW u \in sent', u \notin sent, NEW c \in DOMAIN u
  PROVE  \E p \in Peers : u[c] = states'[p][c]
<1>1. ASSUME NEW p \in Peers, NEW clients, TriggerUpdate(p, clients)
      PROVE  u[c] = states'[p][c]
  BY <1>1 DEF TriggerUpdate, UpdateWithClients
<1>2. CASE \E p \in Clients, v \in Values : SetLocalState(p, v)
  BY <1>1, <1>2, ClientsAssumption DEF SetLocalState
<1>3. CASE \E p \in Peers, d \in Clients : RemoveState(p, d)
  <2>1. PICK p \in Peers, d \in Clients : RemoveState(p, d)
    BY <1>3
  <2>2. TriggerUpdate(p, IF states[p][d] # Vacant \/ p \in ChangeListeners
                         THEN {d} ELSE {})
    BY <2>1 DEF RemoveState
  <2> QED BY <1>1, <2>2
<1>4. CASE \E p \in Peers : Announce(p)
  BY <1>4 DEF Announce, UpdateWithClients
<1>5. CASE \E p \in Peers, w \in sent : ApplyUpdate(p, w)
  BY <1>1, <1>5 DEF ApplyUpdate
<1>6. CASE UNCHANGED vars
  BY <1>6 DEF vars
<1> QED BY <1>2, <1>3, <1>4, <1>5, <1>6 DEF Next

LEMMA OwnEntry ==
  ASSUME TypeInv, OwnerAhead, [Next]_vars, NEW c \in Clients
  PROVE  \/ states'[c][c] = states[c][c]
         \/ states'[c][c].clock > states[c][c].clock
<1>1. c \in Peers /\ states[c][c] \in Entry
  BY ClientsAssumption DEF TypeInv, TypeOK
<1>2. ASSUME NEW p \in Clients, NEW v \in Values, SetLocalState(p, v)
      PROVE  \/ states'[c][c] = states[c][c]
             \/ states'[c][c].clock > states[c][c].clock
  <2>1. p \in Peers /\ v \in Data
    BY ClientsAssumption DEF Data
  <2>2. TypeOK /\ Bumps(p, p, v)
    BY <1>2 DEF SetLocalState, Bumps, TypeInv
  <2>3. /\ states'[p][p].clock > states[p][p].clock
        /\ \A q \in Peers, d \in Clients : q # p \/ d # p => states'[q][d] = states[q][d]
    BY <2>1, <2>2, LocalFacts
  <2> QED BY <1>1, <2>1, <2>3
<1>3. ASSUME NEW p \in Peers, NEW d \in Clients, RemoveState(p, d)
      PROVE  \/ states'[c][c] = states[c][c]
             \/ states'[c][c].clock > states[c][c].clock
  <2>1. /\ states'[p][d].clock > states[p][d].clock
        /\ \A q \in Peers, k \in Clients :
             q # p \/ k # d => states'[q][k] = states[q][k]
    BY <1>3, RemoveFacts DEF TypeInv
  <2> QED BY <1>1, <2>1
<1>4. ASSUME NEW p \in Peers, NEW u \in sent, ApplyUpdate(p, u),
             states'[c][c] # states[c][c]
      PROVE  states'[c][c].clock > states[c][c].clock
  <2>1. /\ p = c /\ c \in DOMAIN u
        /\ states'[c][c] = Merge(c, c, states[c][c], u[c])
    BY <1>1, <1>4, ApplyFacts DEF TypeInv
  <2>2. u[c] \in Entry
    BY <2>1 DEF TypeInv, TypeOK
  <2>3. u[c].data # Null => u[c].clock < states[c][c].clock \/ u[c] = states[c][c]
    BY <2>1 DEF OwnerAhead, Entries
  <2>4. /\ Newer(states[c][c], u[c])
        /\ Survives(c, c, states[c][c], u[c])
             => states'[c][c].clock > states[c][c].clock
        /\ ~Survives(c, c, states[c][c], u[c]) => states'[c][c] = u[c]
    BY <1>1, <1>4, <2>1, <2>2, MergeFacts
  <2>5. CASE ~Survives(c, c, states[c][c], u[c])
    <3>1. u[c].data # Null \/ states[c][c].data = Null
      BY <2>5 DEF Survives
    <3> QED BY <1>1, <2>2, <2>3, <2>4, <2>5, <3>1 DEF Newer, Entry
  <2> QED BY <2>4, <2>5
<1>5. CASE UNCHANGED vars \/ \E p \in Peers : Announce(p)
  BY <1>5 DEF vars, Announce
<1> QED BY <1>2, <1>3, <1>4, <1>5 DEF Next

LEMMA NewEntries ==
  ASSUME TypeInv, [Next]_vars, NEW c \in Clients, NEW e \in Entries(c)'
  PROVE  e \in Entries(c) \/ e = states'[c][c] \/ e.data = Null
<1> DEFINE Fits(d) == d \in Entries(c) \/ d = states'[c][c] \/ d.data = Null
<1>1. ASSUME NEW q \in Peers PROVE Fits(states'[q][c])
  <2>1. states[q][c] \in Entries(c)
    BY DEF Entries
  <2>2. ASSUME NEW p \in Clients, NEW v \in Values, SetLocalState(p, v)
        PROVE  Fits(states'[q][c])
    <3>1. p \in Peers /\ v \in Data
      BY ClientsAssumption DEF Data
    <3> QED BY <2>1, <2>2, <3>1 DEF SetLocalState, TypeInv
  <2>3. ASSUME NEW p \in Peers, NEW d \in Clients, RemoveState(p, d)
        PROVE  Fits(states'[q][c])
    <3>1. /\ states'[p][d] = [clock |-> states[p][d].clock + 1, data |-> Null]
          /\ \A r \in Peers, k \in Clients :
               r # p \/ k # d => states'[r][k] = states[r][k]
      BY <2>3, RemoveFacts DEF TypeInv
    <3> QED BY <2>1, <3>1
  <2>4. ASSUME NEW p \in Peers, NEW u \in sent, ApplyUpdate(p, u)
        PROVE  Fits(states'[q][c])
    <3>1. CASE q # p \/ c \notin DOMAIN u \/ q = c
      BY <2>1, <2>4, <3>1, ApplyFacts DEF TypeInv
    <3>2. CASE q = p /\ c \in DOMAIN u /\ q # c
      <4>1. states'[q][c] = Merge(p, c, states[p][c], u[c])
        BY <2>4, <3>2, ApplyFacts DEF TypeInv
      <4>2. states'[q][c] \in {states[q][c], u[c]}
        BY <3>2, <4>1 DEF Merge, Survives
      <4> QED BY <2>1, <3>2, <4>2 DEF Entries
    <3> QED BY <3>1, <3>2
  <2>5. CASE UNCHANGED vars \/ \E p \in Peers : Announce(p)
    BY <2>1, <2>5 DEF vars, Announce
  <2> QED BY <2>2, <2>3, <2>4, <2>5 DEF Next
<1>2. CASE e \in {states'[p][c] : p \in Peers}
  BY <1>1, <1>2
<1>3. ASSUME NEW u \in sent', c \in DOMAIN u, e = u[c] PROVE Fits(e)
  <2>1. CASE u \in sent
    BY <1>3, <2>1 DEF Entries
  <2>2. CASE u \notin sent
    BY <1>1, <1>3, <2>2, SentFrom
  <2> QED BY <2>1, <2>2
<1> QED BY <1>2, <1>3 DEF Entries

(***************************************************************************)
(* The inductive invariant.                                                *)
(***************************************************************************)
LEMMA EntryTypes ==
  ASSUME TypeInv, NEW c \in Clients, NEW e \in Entries(c)
  PROVE  e \in Entry
  BY DEF Entries, TypeInv, TypeOK

LEMMA InvStep == Inv /\ [Next]_vars => Inv'
<1> SUFFICES ASSUME Inv, [Next]_vars PROVE Inv'
  OBVIOUS
<1>1. TypeInv /\ TypeInv' /\ OwnerAhead /\ OneStatePerClock
  BY TypeStep DEF Inv, TypeInv
<1>2. \A c \in Clients : /\ states[c][c] \in Entries(c) /\ states[c][c] \in Entry
                         /\ states'[c][c] \in Entry
  BY <1>1, ClientsAssumption DEF Entries, TypeInv, TypeOK
<1>3. OwnerAhead'
  <2> SUFFICES ASSUME NEW c \in Clients, NEW e \in Entries(c)', e.data # Null
               PROVE  e.clock < states'[c][c].clock \/ e = states'[c][c]
    BY DEF OwnerAhead
  <2>1. CASE e \in Entries(c)
    <3>1. e \in Entry /\ (e.clock < states[c][c].clock \/ e = states[c][c])
      BY <1>1, <2>1, EntryTypes DEF OwnerAhead
    <3>2. states'[c][c] = states[c][c] \/ states'[c][c].clock > states[c][c].clock
      BY <1>1, OwnEntry
    <3> QED BY <1>2, <3>1, <3>2 DEF Entry
  <2> QED BY <1>1, <2>1, NewEntries
<1>4. OneStatePerClock'
  <2> SUFFICES ASSUME NEW c \in Clients, NEW d \in Entries(c)', NEW e \in Entries(c)',
                      d.clock = e.clock, d.data # Null, e.data # Null
               PROVE  d.data = e.data
    BY DEF OneStatePerClock
  <2>1. /\ d \in Entries(c) \/ d = states'[c][c]
        /\ e \in Entries(c) \/ e = states'[c][c]
    BY <1>1, NewEntries
  <2>2. /\ d.clock < states'[c][c].clock \/ d = states'[c][c]
        /\ e.clock < states'[c][c].clock \/ e = states'[c][c]
    BY <1>3 DEF OwnerAhead
  <2>3. CASE d \in Entries(c) /\ e \in Entries(c)
    BY <1>1, <2>3 DEF OneStatePerClock
  <2>4. CASE d = states'[c][c] \/ e = states'[c][c]
    BY <1>2, <2>2, <2>4 DEF Entry
  <2> QED BY <2>1, <2>3, <2>4
<1> QED BY <1>1, <1>3, <1>4 DEF Inv, TypeInv

LEMMA InvInit == Init => Inv
<1> SUFFICES ASSUME Init PROVE Inv
  OBVIOUS
<1>1. \A c \in Clients : \A e \in Entries(c) : e.data = Null
  BY DEF Init, Entries, Vacant
<1> QED BY <1>1, TypeInit DEF Inv, TypeInv, OwnerAhead, OneStatePerClock

LEMMA Invariance == Spec => []Inv
  BY InvInit, InvStep, PTL DEF Spec

\* Comparing clocks tells which of two states of a client is the later one: entries
\* with one clock show one state.
THEOREM ClocksOrderStates == Spec => []OneStatePerClock
<1>1. Inv => OneStatePerClock
  BY DEF Inv
<1> QED BY <1>1, Invariance, PTL

(***************************************************************************)
(* A client's own state, and what on_update listeners know.                *)
(***************************************************************************)
\* No message, late or repeated, changes the state a client shows for itself.
THEOREM OwnStateKept == Spec => OwnStateIsOwn
<1>1. ASSUME Inv, [Next]_vars, NEW p \in Clients, states'[p][p].data # states[p][p].data
      PROVE  (\E v \in Values : SetLocalState(p, v)) \/ RemoveState(p, p)
  <2>1. p \in Peers /\ TypeOK
    BY <1>1, ClientsAssumption DEF Inv
  <2>2. ASSUME NEW q \in Clients, NEW v \in Values, SetLocalState(q, v), q # p
        PROVE  FALSE
    <3>1. q \in Peers /\ v \in Data
      BY ClientsAssumption DEF Data
    <3>2. Bumps(q, q, v)
      BY <2>2 DEF SetLocalState, Bumps
    <3>3. \A r \in Peers, d \in Clients : r # q \/ d # q => states'[r][d] = states[r][d]
      BY <2>1, <2>2, <3>1, <3>2, LocalFacts
    <3> QED BY <1>1, <2>1, <2>2, <3>3
  <2>3. ASSUME NEW q \in Peers, NEW c \in Clients, RemoveState(q, c), q # p \/ c # p
        PROVE  FALSE
    <3>1. \A r \in Peers, d \in Clients : r # q \/ d # c => states'[r][d] = states[r][d]
      BY <2>1, <2>3, RemoveFacts
    <3> QED BY <1>1, <2>1, <2>3, <3>1
  <2>4. ASSUME NEW q \in Peers, NEW u \in sent, ApplyUpdate(q, u) PROVE FALSE
    <3>1. /\ q = p /\ p \in DOMAIN u
          /\ states'[p][p] = Merge(p, p, states[p][p], u[p])
      BY <1>1, <2>1, <2>4, ApplyFacts
    <3>2. u[p] \in Entry /\ states[p][p] \in Entry
      BY <2>1, <3>1 DEF TypeOK
    <3>3. /\ Newer(states[p][p], u[p])
          /\ ~Survives(p, p, states[p][p], u[p])
          /\ states'[p][p] = u[p]
      BY <1>1, <2>1, <3>1, <3>2, MergeFacts
    <3>4. u[p].data # Null
      BY <1>1, <3>3 DEF Survives
    <3>5. u[p].clock < states[p][p].clock \/ u[p] = states[p][p]
      BY <1>1, <3>1, <3>4 DEF Inv, OwnerAhead, Entries
    <3> QED BY <3>2, <3>3, <3>4, <3>5 DEF Newer, Entry
  <2>5. CASE UNCHANGED vars \/ \E q \in Peers : Announce(q)
    BY <1>1, <2>5 DEF vars, Announce
  <2> QED BY <1>1, <2>2, <2>3, <2>4, <2>5 DEF Next
<1>2. Inv /\ [Next]_vars =>
        [\A p \in Clients :
           states'[p][p].data # states[p][p].data
             => \/ \E v \in Values : SetLocalState(p, v)
                \/ RemoveState(p, p)]_vars
  BY <1>1
<1> QED BY <1>2, Invariance, PTL DEF Spec, OwnStateIsOwn

LEMMA HeardStep == TypeOK /\ UpdateHeard /\ [Next]_vars => UpdateHeard'
<1> SUFFICES ASSUME TypeOK, UpdateHeard, [Next]_vars, NEW q \in Peers, NEW c \in Clients
             PROVE  heard'[q][c] = states'[q][c].data
  BY DEF UpdateHeard
<1>1. ASSUME NEW p \in Peers, NEW clients, TriggerUpdate(p, clients)
      PROVE  heard'[q][c] = IF q = p /\ c \in clients THEN states'[q][c].data
                                                      ELSE states[q][c].data
  BY <1>1 DEF TriggerUpdate, Reread, TypeOK, UpdateHeard
<1>2. ASSUME NEW p \in Clients, NEW v \in Values, SetLocalState(p, v)
      PROVE  heard'[q][c] = states'[q][c].data
  <2>1. p \in Peers /\ v \in Data
    BY ClientsAssumption DEF Data
  <2>2. q # p \/ c # p => states'[q][c] = states[q][c]
    BY <1>2, <2>1 DEF SetLocalState
  <2>3. TriggerUpdate(p, {p})
    BY <1>2 DEF SetLocalState
  <2> QED BY <1>1, <2>1, <2>2, <2>3
<1>3. ASSUME NEW p \in Peers, NEW d \in Clients, RemoveState(p, d)
      PROVE  heard'[q][c] = states'[q][c].data
  <2> DEFINE told == IF states[p][d] # Vacant \/ p \in ChangeListeners THEN {d} ELSE {}
  <2>1. TriggerUpdate(p, told)
    BY <1>3 DEF RemoveState
  <2>2. /\ states'[p][d] = [clock |-> states[p][d].clock + 1, data |-> Null]
        /\ \A r \in Peers, k \in Clients :
             r # p \/ k # d => states'[r][k] = states[r][k]
    BY <1>3, RemoveFacts
  <2>3. told = {d} \/ (told = {} /\ states[p][d].data = Null)
    BY DEF Vacant
  <2> HIDE DEF told
  <2> QED BY <1>1, <2>1, <2>2, <2>3
<1>4. ASSUME NEW p \in Peers, NEW u \in sent, ApplyUpdate(p, u)
      PROVE  heard'[q][c] = states'[q][c].data
  <2>1. TriggerUpdate(p, Named(p, u))
    BY <1>4 DEF ApplyUpdate, Named
  <2>2. CASE q = p /\ c \in Named(p, u)
    BY <1>1, <2>1, <2>2
  <2>3. ASSUME q = p, c \in DOMAIN u, c \notin Named(p, u)
        PROVE  states'[q][c].data = states[q][c].data
    <3>1. /\ states'[q][c] = Merge(p, c, states[p][c], u[c])
          /\ states[p][c] \in Entry /\ u[c] \in Entry
      BY <1>4, <2>3, ApplyFacts DEF TypeOK
    <3>2. CASE ~Newer(states[p][c], u[c]) \/ Survives(p, c, states[p][c], u[c])
      BY <2>3, <3>1, <3>2, MergeFacts
    <3>3. CASE Newer(states[p][c], u[c]) /\ ~Survives(p, c, states[p][c], u[c])
      <4>1. states[p][c] = Vacant /\ u[c].data = Null
        BY <2>3, <3>3 DEF Named, Added, Updated, Removed
      <4>2. states'[q][c] = u[c]
        BY <3>1, <3>3, MergeFacts
      <4> QED BY <2>3, <4>1, <4>2 DEF Vacant
    <3> QED BY <3>2, <3>3
  <2>4. CASE q # p \/ c \notin DOMAIN u
    <3>1. states'[q][c] = states[q][c]
      BY <1>4, <2>4, ApplyFacts
    <3> QED BY <1>1, <2>1, <3>1
  <2>5. CASE q = p /\ c \in DOMAIN u /\ c \notin Named(p, u)
    BY <1>1, <2>1, <2>3, <2>5
  <2> QED BY <2>2, <2>4, <2>5
<1>5. CASE UNCHANGED vars \/ \E p \in Peers : Announce(p)
  BY <1>5 DEF vars, Announce, UpdateHeard
<1> QED BY <1>2, <1>3, <1>4, <1>5 DEF Next

\* Whoever looks up the clients that on_update names misses no change.
THEOREM ListenersHearAll == Spec => []UpdateHeard
<1>1. Init => UpdateHeard
  BY DEF Init, UpdateHeard, Vacant
<1> QED BY <1>1, HeardStep, TypeCorrect, PTL DEF Spec

(***************************************************************************)
(* When all has arrived.  What the others have of a client was sent, so    *)
(* that entries that differ would still change one another.  An            *)
(* application that does not listen to on_change does not send the removal *)
(* of a client it has not heard of.                                        *)
(***************************************************************************)
LEMMA ToldStep ==
  ASSUME ChangeListeners = Peers, TypeOK, Told, [Next]_vars
  PROVE  Told'
<1> SUFFICES ASSUME NEW c \in Clients, NEW q \in Peers \ {c}
             PROVE  \/ states'[q][c] = Vacant
                    \/ \E u \in sent' : c \in DOMAIN u /\ u[c] = states'[q][c]
  BY DEF Told
<1>1. sent \subseteq sent'
  BY DEF Next, SetLocalState, RemoveState, Announce, ApplyUpdate, TriggerUpdate, vars
<1>2. CASE states'[q][c] = states[q][c]
  BY <1>1, <1>2 DEF Told
<1>3. ASSUME NEW p \in Clients, NEW v \in Values, SetLocalState(p, v)
      PROVE  states'[q][c] = states[q][c]
  <2>1. p \in Peers /\ v \in Data
    BY ClientsAssumption DEF Data
  <2> QED BY <1>3, <2>1 DEF SetLocalState
<1>4. ASSUME NEW p \in Peers, NEW d \in Clients, RemoveState(p, d),
             states'[q][c] # states[q][c]
      PROVE  \E u \in sent' : c \in DOMAIN u /\ u[c] = states'[q][c]
  <2>1. q = p /\ c = d
    <3>1. \A r \in Peers, k \in Clients :
            r # p \/ k # d => states'[r][k] = states[r][k]
      BY <1>4, RemoveFacts
    <3> QED BY <1>4, <3>1
  <2>2. TriggerUpdate(p, {d})
    BY <1>4 DEF RemoveState
  <2>3. [k \in {d} |-> states'[p][k]] \in sent'
    BY <2>2 DEF TriggerUpdate, UpdateWithClients
  <2> QED BY <2>1, <2>3
<1>5. ASSUME NEW p \in Peers, NEW u \in sent, ApplyUpdate(p, u),
             states'[q][c] # states[q][c]
      PROVE  \E w \in sent' : c \in DOMAIN w /\ w[c] = states'[q][c]
  <2>1. /\ q = p /\ c \in DOMAIN u
        /\ states'[q][c] = Merge(p, c, states[p][c], u[c])
    BY <1>5, ApplyFacts
  <2>2. states'[q][c] = u[c]
    BY <1>5, <2>1 DEF Merge, Survives
  <2> QED BY <1>1, <2>1, <2>2
<1>6. CASE UNCHANGED vars \/ \E p \in Peers : Announce(p)
  BY <1>2, <1>6 DEF vars, Announce
<1> QED BY <1>2, <1>3, <1>4, <1>5, <1>6 DEF Next

LEMMA Heard ==
  ASSUME ChangeListeners = Peers
  PROVE  Spec => [](Inv /\ Told)
<1>1. Init => Told
  <2> SUFFICES ASSUME Init, NEW c \in Clients, NEW p \in Peers \ {c}
               PROVE  states[p][c] = Vacant
    BY DEF Told
  <2> QED BY DEF Init
<1>2. Inv /\ Told /\ [Next]_vars => Told'
  BY ToldStep DEF Inv
<1> QED BY <1>1, <1>2, Invariance, PTL DEF Spec

\* an entry of one peer that has arrived at another one is not newer than its own
LEMMA NotBehind ==
  ASSUME Inv, Told, Quiet, NEW c \in Clients, NEW p \in Peers \ {c}, NEW q \in Peers
  PROVE  ~Newer(states[q][c], states[p][c])
<1>1. CASE states[p][c] = Vacant
  BY <1>1 DEF Newer, Vacant, Inv, TypeOK, LiveKnown, Entry
<1>2. CASE \E u \in sent : c \in DOMAIN u /\ u[c] = states[p][c]
  BY <1>2 DEF Quiet
<1> QED BY <1>1, <1>2 DEF Told

\* Any two peers have the same entry of a third one when all has arrived.
THEOREM OthersAgreeAlways ==
  ASSUME ChangeListeners = Peers
  PROVE  Spec => []OthersAgree
<1>1. ASSUME Inv, Told PROVE OthersAgree
  <2> SUFFICES ASSUME Quiet, NEW c \in Clients,
                      NEW p \in Peers \ {c}, NEW q \in Peers \ {c}
               PROVE  states[p][c] = states[q][c]
    BY DEF OthersAgree
  <2>1. /\ ~Newer(states[q][c], states[p][c])
        /\ ~Newer(states[p][c], states[q][c])
    BY <1>1, NotBehind
  <2>2. states[p][c] \in Entry /\ states[q][c] \in Entry
    BY <1>1 DEF Inv, TypeOK
  <2>3. states[p][c] \in Entries(c) /\ states[q][c] \in Entries(c)
    BY DEF Entries
  <2>4. /\ states[p][c].clock = states[q][c].clock
        /\ states[p][c].data = Null <=> states[q][c].data = Null
    BY <2>1, <2>2 DEF Newer, Entry
  <2>5. states[p][c].data = states[q][c].data
    BY <1>1, <2>3, <2>4 DEF Inv, OneStatePerClock
  <2> QED BY <2>2, <2>4, <2>5 DEF Entry
<1> QED BY <1>1, Heard, PTL

\* What a client says next of itself is taken by every peer.
THEOREM OwnerWinsAlways ==
  ASSUME ChangeListeners = Peers
  PROVE  Spec => []OwnerWins
<1>1. ASSUME Inv, Told PROVE OwnerWins
  <2> SUFFICES ASSUME Quiet, NEW p \in Peers, NEW c \in Clients,
                      states[p][c] # states[c][c]
               PROVE  states[p][c].clock < states[c][c].clock
    BY DEF OwnerWins
  <2>1. c \in Peers /\ p \in Peers \ {c}
    BY ClientsAssumption
  <2>2. ~Newer(states[c][c], states[p][c])
    BY <1>1, <2>1, NotBehind
  <2>3. states[p][c] \in Entry /\ states[c][c] \in Entry
    BY <1>1, <2>1 DEF Inv, TypeOK
  <2>4. states[p][c] \in Entries(c)
    BY DEF Entries
  <2>5. CASE states[p][c].data # Null
    BY <1>1, <2>4, <2>5 DEF Inv, OwnerAhead
  <2>6. CASE states[p][c].data = Null
    BY <2>2, <2>3, <2>6 DEF Newer, Entry
  <2> QED BY <2>5, <2>6
<1> QED BY <1>1, Heard, PTL
=============================================================================
