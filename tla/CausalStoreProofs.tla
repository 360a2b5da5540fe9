------------------------- MODULE CausalStoreProofs -------------------------
(***************************************************************************)
(* What the abstract store promises, proved of it.                         *)
(***************************************************************************)
EXTENDS CausalStore, TLAPS

\* The promise of the abstract store is an invariant of it, and is inductive.
THEOREM PromiseKept == Spec => []Promise
<1>1. Init => Promise
  BY DEF Init, Promise
<1>2. ASSUME Promise, [Next]_vars PROVE Promise'
  <2>1. CASE Receive
    BY <1>2, <2>1 DEF Receive, Promise
  <2>2. CASE Integrate
    BY <1>2, <2>2 DEF Integrate, Promise
  <2>3. CASE Delete
    BY <1>2, <2>3 DEF Delete, Promise
  <2>4. CASE Drop
    BY <1>2, <2>4 DEF Drop, Promise
  <2>5. CASE UNCHANGED vars
    BY <1>2, <2>5 DEF vars, Promise
  <2> QED BY <1>2, <2>1, <2>2, <2>3, <2>4, <2>5 DEF Next
<1> QED BY <1>1, <1>2, PTL DEF Spec
============================================================================
