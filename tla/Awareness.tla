----------------------------- MODULE Awareness -----------------------------
(***************************************************************************)
(* The awareness protocol: every peer keeps, for every client it has heard *)
(* of, a clock and a state or null, sets its own state, may declare any    *)
(* client gone, and applies the updates of the others.                     *)
(*                                                                         *)
(* A peer is named by the client id of its document; an id is drawn for    *)
(* every new Doc, so a peer that comes back is another one.  States live   *)
(* in a DashMap behind `&mut Awareness`: each call is one step.            *)
(*                                                                         *)
(* The application of every peer broadcasts, from its on_update callback,  *)
(* the clients the event names, as the tests and the JavaScript providers  *)
(* do, and may listen to on_change.  The network may delay, reorder,       *)
(* repeat and drop what is sent.                                           *)
(***************************************************************************)
EXTENDS Naturals

CONSTANTS
  Peers,
  Clients,          \* bound: the peers whose awareness states are followed
  Values,           \* the JSON states a client may set
  Null,             \* no state
  ChangeListeners,  \* the peers whose application listens to on_change
  MaxClock          \* bound: no local call of p raises a clock of c above MaxClock[p][c]

ASSUME ClientsAssumption == Clients \subseteq Peers
ASSUME NullAssumption == Null \notin Values
ASSUME ListenersAssumption == ChangeListeners \subseteq Peers
ASSUME MaxClockAssumption == MaxClock \in [Peers -> [Clients -> Nat]]

VARIABLES
  states,   \* states[p][c]: what peer p has of client c
  sent,     \* every AwarenessUpdate sent so far
  heard,    \* heard[p][c]: the state of c as p's on_update listener last read it
  noticed   \* the same for its on_change listener

vars == <<states, sent, heard, noticed>>

Data == Values \cup {Null}

Entry == [clock : Nat, data : Data]

\* a client with no entry in the map; clocks of entries start at 1
Vacant == [clock |-> 0, data |-> Null]

Init ==
  /\ states = [p \in Peers |-> [c \in Clients |-> Vacant]]
  /\ sent = {}
  /\ heard = [p \in Peers |-> [c \in Clients |-> Null]]
  /\ noticed = heard

----------------------------------------------------------------------------
(***************************************************************************)
(* Events and the updates made of them.                                    *)
(***************************************************************************)
UpdateWithClients(entries, clients) == [c \in clients |-> entries[c]]

\* a listener looks up the clients its event names
Reread(mirror, p, clients) ==
  [mirror EXCEPT ![p] = [c \in Clients |->
     IF c \in clients THEN states'[p][c].data ELSE @[c]]]

TriggerChange(p, clients) ==
  noticed' = IF p \in ChangeListeners THEN Reread(noticed, p, clients) ELSE noticed

TriggerUpdate(p, clients) ==
  /\ heard' = Reread(heard, p, clients)
  /\ sent' = IF clients = {} THEN sent
             ELSE sent \cup {UpdateWithClients(states'[p], clients)}

----------------------------------------------------------------------------
(***************************************************************************)
(* Local calls.                                                            *)
(***************************************************************************)
\* mutated SetLocalState: a new state takes the clock of the one it replaces
SetLocalStateSameClock(p, v) ==
  LET old == states[p][p]
  IN /\ old.clock < MaxClock[p][p]
     /\ states' = [states EXCEPT ![p][p] =
          [clock |-> IF old.data = Null THEN old.clock + 1 ELSE old.clock, data |-> v]]
     /\ TriggerChange(p, IF old.data = v THEN {} ELSE {p})
     /\ TriggerUpdate(p, {p})

SetLocalState(p, v) ==
  LET old == states[p][p]
  IN /\ old.clock < MaxClock[p][p]
     /\ states' = [states EXCEPT ![p][p] = [clock |-> old.clock + 1, data |-> v]]
     /\ TriggerChange(p, IF old.data = v THEN {} ELSE {p})
     /\ TriggerUpdate(p, {p})

\* mutated RemoveState: a client it has no entry of is announced, not recorded
RemoveStateOnlyKnown(p, c) ==
  LET old == states[p][c]
      told == IF old # Vacant \/ p \in ChangeListeners THEN {c} ELSE {}
  IN /\ old.clock < MaxClock[p][c]
     /\ states' = IF old = Vacant THEN states
                  ELSE [states EXCEPT ![p][c] = [clock |-> old.clock + 1, data |-> Null]]
     /\ TriggerChange(p, told)
     /\ TriggerUpdate(p, told)

\* `is_removed && on_update.. || on_change..`: a client with no entry is announced
\* only where somebody listens to on_change
RemoveState(p, c) ==
  LET old == states[p][c]
      told == IF old # Vacant \/ p \in ChangeListeners THEN {c} ELSE {}
  IN /\ old.clock < MaxClock[p][c]
     /\ states' = [states EXCEPT ![p][c] = [clock |-> old.clock + 1, data |-> Null]]
     /\ TriggerChange(p, told)
     /\ TriggerUpdate(p, told)

\* an answer to AwarenessQuery, or the first message of a connection
Announce(p) ==
  /\ sent' = sent \cup {UpdateWithClients(states[p],
                          {c \in Clients : states[p][c].data # Null})}
  /\ UNCHANGED <<states, heard, noticed>>

----------------------------------------------------------------------------
(***************************************************************************)
(* apply_update_internal, for one entry of the update; its loop meets each *)
(* client once, so that its order does not matter.                         *)
(***************************************************************************)
\* mutated Newer: a removal must be newer than the state it removes
NewerByClock(old, e) == old.clock < e.clock

Newer(old, e) ==
  \/ old.clock < e.clock
  \/ old.clock = e.clock /\ e.data = Null /\ old.data # Null

\* mutated Survives: the local state is removed like any other
NeverSurvives(p, c, old, e) == FALSE

Survives(p, c, old, e) == c = p /\ e.data = Null /\ old.data # Null

Merge(p, c, old, e) ==
  IF ~Newer(old, e) THEN old
  ELSE IF Survives(p, c, old, e) THEN [old EXCEPT !.clock = e.clock + 1]
  ELSE e

Added(p, u) ==
  {c \in DOMAIN u : states[p][c] = Vacant /\ u[c].data # Null}

Updated(p, u) ==
  {c \in DOMAIN u : /\ states[p][c] # Vacant
                    /\ Newer(states[p][c], u[c])
                    /\ u[c].data # Null}

Changed(p, u) ==
  {c \in Updated(p, u) : states[p][c].data \notin {Null, u[c].data}}

\* mutated Removed: only a removal at the clock of the state is reported
RemovedAtClock(p, u) ==
  {c \in DOMAIN u : /\ states[p][c].clock = u[c].clock
                    /\ Newer(states[p][c], u[c])
                    /\ u[c].data = Null
                    /\ ~Survives(p, c, states[p][c], u[c])}

Removed(p, u) ==
  {c \in DOMAIN u : /\ states[p][c] # Vacant
                    /\ Newer(states[p][c], u[c])
                    /\ u[c].data = Null
                    /\ ~Survives(p, c, states[p][c], u[c])}

ApplyUpdate(p, u) ==
  /\ states' = [states EXCEPT ![p] = [c \in Clients |->
       IF c \in DOMAIN u THEN Merge(p, c, @[c], u[c]) ELSE @[c]]]
  /\ TriggerChange(p, Added(p, u) \cup Changed(p, u) \cup Removed(p, u))
  /\ TriggerUpdate(p, Added(p, u) \cup Updated(p, u) \cup Removed(p, u))

Next ==
  \E p \in Peers :
    \/ p \in Clients /\ \E v \in Values : SetLocalState(p, v)
    \/ \E c \in Clients : RemoveState(p, c)
    \/ Announce(p)
    \/ \E u \in sent : ApplyUpdate(p, u)

Spec == Init /\ [][Next]_vars

----------------------------------------------------------------------------
(***************************************************************************)
(* Properties.                                                             *)
(***************************************************************************)
\* Every update that is sent holds clients its sender has an entry of:
\* update_with_clients does not fail in the callback that calls it.
TypeOK ==
  /\ states \in [Peers -> [Clients -> Entry]]
  /\ \A u \in sent : /\ DOMAIN u \subseteq Clients
                     /\ \A c \in DOMAIN u : u[c] \in Entry /\ u[c].clock > 0
  /\ heard \in [Peers -> [Clients -> Data]]
  /\ noticed \in [Peers -> [Clients -> Data]]

\* Whatever arrives, late, twice or not at all, and whoever declares a client gone,
\* the state a client shows for itself is the one it set.
OwnStateIsOwn ==
  [][\A p \in Clients :
       states'[p][p].data # states[p][p].data
         => \/ \E v \in Values : SetLocalState(p, v)
            \/ RemoveState(p, p)]_vars

\* Entries of one client with one clock show one state: comparing clocks tells
\* which of two states is the later one.
Entries(c) ==
  {states[p][c] : p \in Peers} \cup {u[c] : u \in {v \in sent : c \in DOMAIN v}}

OneStatePerClock ==
  \A c \in Clients : \A d, e \in Entries(c) :
    d.clock = e.clock /\ d.data # Null /\ e.data # Null => d.data = e.data

\* Nothing that was sent would still change anything.
Quiet ==
  \A p \in Peers, u \in sent : \A c \in DOMAIN u : ~Newer(states[p][c], u[c])

\* When all has arrived everywhere, in whatever order, any two peers have the same
\* entry of a third one, though some of them had removed it meanwhile.
OthersAgree ==
  Quiet => \A c \in Clients : \A p, q \in Peers \ {c} : states[p][c] = states[q][c]

\* And whoever differs from the client itself is behind it: what the client says
\* next of itself is taken by everyone.
OwnerWins ==
  Quiet => \A p \in Peers, c \in Clients :
             states[p][c] = states[c][c] \/ states[p][c].clock < states[c][c].clock

\* The events of on_update leave nothing out: a listener that looks up the clients
\* they name has the states of all.
UpdateHeard == \A p \in Peers, c \in Clients : heard[p][c] = states[p][c].data

\* The comment in apply_update_internal: a client whose local state was removed by
\* a remote one broadcasts that it still exists.
SurvivorIsSeen ==
  Quiet => \A p \in Peers, c \in Clients :
             states[c][c].data # Null => states[p][c].data = states[c][c].data

\* "applied changes will also be emitted as events": a listener to on_change that
\* looks up the clients its events name has the states of all.
ChangeNoticed ==
  \A p \in ChangeListeners, c \in Clients : noticed[p][c] = states[p][c].data
=============================================================================
