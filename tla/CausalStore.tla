---------------------------- MODULE CausalStore ----------------------------
(***************************************************************************)
(* What applying updates promises, without pickers, stacks and retries:    *)
(* units are received in any order and wait; a waiting unit may enter the  *)
(* store once everything it depends on is there; a received delete takes   *)
(* effect once its unit is there.  A call that fails may drop what waits.  *)
(***************************************************************************)
EXTENDS Functions, Sequences

CONSTANTS
  Units,       \* every unit any client ever creates
  Histories    \* the dependency relations the units may have

VARIABLES
  deps,        \* deps[u]: what u depends on
  have,        \* units in the store
  waiting,     \* units received and not yet in the store
  deleted,     \* units deleted
  waitingDs,   \* deletes received and not yet in effect
  received,    \* every unit received so far
  failed       \* whether a call failed

vars == <<deps, have, waiting, deleted, waitingDs, received, failed>>

Init ==
  /\ deps \in Histories
  /\ have = {} /\ waiting = {} /\ deleted = {} /\ waitingDs = {}
  /\ received = {} /\ failed = FALSE

Receive ==
  /\ UNCHANGED <<deps, have, deleted, failed>>
  /\ \E S \in SUBSET Units :
       received' = received \cup S /\ waiting' = waiting \cup (S \ have)
  /\ \E D \in SUBSET Units : waitingDs' = waitingDs \cup (D \ deleted)

Integrate ==
  \E u \in waiting :
    /\ Range(deps[u]) \subseteq have
    /\ have' = have \cup {u}
    /\ waiting' = waiting \ {u}
    /\ UNCHANGED <<deps, deleted, waitingDs, received, failed>>

Delete ==
  /\ UNCHANGED <<deps, have, waiting, received, failed>>
  /\ \E D \in SUBSET (waitingDs \cap have) :
       deleted' = deleted \cup D /\ waitingDs' = waitingDs \ D

Drop ==
  /\ failed' = TRUE
  /\ waiting' \in SUBSET waiting
  /\ waitingDs' \in SUBSET waitingDs
  /\ UNCHANGED <<deps, have, deleted, received>>

Next == Receive \/ Integrate \/ Delete \/ Drop

Spec == Init /\ [][Next]_vars

----------------------------------------------------------------------------
\* The store is closed under dependencies, deletes hit only units in the store,
\* and without a failure every received unit is in the store or waits.
Promise ==
  /\ \A u \in have : Range(deps[u]) \subseteq have
  /\ deleted \subseteq have
  /\ ~failed => received = have \cup waiting
============================================================================
