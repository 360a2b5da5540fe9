----------------------- MODULE ApplyUpdateRefinement -----------------------
(***************************************************************************)
(* TransactionMut::apply_update implements CausalStore: every step of the  *)
(* picker, of the retries and of the parked deletes is a step of the       *)
(* abstract store or leaves it as it is.                                   *)
(***************************************************************************)
EXTENDS ApplyUpdateProofs

(***************************************************************************)
(* What waits, one unit and one delete at a time.                          *)
(***************************************************************************)
WaitingIsLocated ==
  /\ Waiting \subseteq Units
  /\ \A u \in Units : u \in Waiting <=> Located(u) /\ u \notin have
  /\ \A d : d \in WaitingDs <=> DsIn(d) /\ d \notin deleted

LEMMA WaitingLocated == TypeOK => WaitingIsLocated
<1> SUFFICES ASSUME TypeOK PROVE WaitingIsLocated
  OBVIOUS
<1>1. KeptIfLocated
  BY LocatedIsKept
<1>2. stack \in Seq(Units) /\ todo \in Seq(Update)
  BY DEF TypeOK
<1>3. InFlight \subseteq Units \cup {NoUnit}
  <2>1. Queued \cup Stashed \cup {head} \subseteq Units \cup {NoUnit}
    BY DEF Queued, Stashed, TypeOK
  <2>2. Range(stack) \subseteq Units
    BY <1>2 DEF Range
  <2>3. \A i \in 1..Len(todo) : todo[i].blocks \subseteq Units
    <3>1. \A i \in 1..Len(todo) : todo[i] \in Update
      BY <1>2
    <3> QED BY <3>1 DEF Update
  <2> QED BY <2>1, <2>2, <2>3 DEF InFlight
<1>4. Waiting \subseteq Units
  BY <1>3 DEF Waiting, TypeOK
<1>5. ASSUME NEW u \in Units PROVE u \in Waiting <=> Located(u) /\ u \notin have
  BY <1>1, NoUnitIsNoUnit DEF KeptIfLocated, Waiting
<1>6. ASSUME NEW d PROVE d \in WaitingDs <=> DsIn(d) /\ d \notin deleted
  BY DEF WaitingDs, DsIn
<1> QED BY <1>4, <1>5, <1>6 DEF WaitingIsLocated

\* No step but a call brings a block in.
LEMMA LocatedBefore ==
  ASSUME TypeOK, [Next]_vars, NEW u \in Units, Located(u)'
  PROVE  Located(u) \/ \E v \in Updates[deps] : Call(v) /\ u \in v.blocks
<1>0. stack \in Seq(Units) /\ Len(stack) \in Nat /\ todo \in Seq(Update) /\ Len(todo) \in Nat
  BY DEF TypeOK
<1>u. u # NoUnit
  BY NoUnitIsNoUnit
<1>1. ASSUME NEW v \in Updates[deps], Call(v) PROVE Located(u) \/ u \in v.blocks
  <2>1. Len(todo') = 1 /\ todo'[1] = v
    BY <1>1 DEF Call
  <2> QED BY <1>1, <2>1 DEF Call, Located, store, picker
<1>2. CASE Begin
  <2>1. /\ Len(todo') = Len(todo) - 1
        /\ \A i \in 1..Len(todo') : todo'[i] = todo[i + 1]
        /\ Head(todo) = todo[1] /\ 1 \in 1..Len(todo)
    BY <1>0, <1>2, HeadTailProperties DEF Begin, TypeOK
  <2>2. ASSUME NEW i \in 1..Len(todo'), u \in todo'[i].blocks PROVE Located(u)
    <3>1. i + 1 \in 1..Len(todo) /\ todo'[i] = todo[i + 1]
      BY <1>0, <2>1
    <3> QED BY <2>2, <3>1 DEF Located
  <2>3. ASSUME NEW c \in Clients, u \in queue'[c] PROVE Located(u)
    <3>1. u \in todo[1].blocks
      BY <1>2, <2>1, <2>3 DEF Begin, Of
    <3> QED BY <2>1, <3>1 DEF Located
  <2> QED BY <1>2, <2>2, <2>3 DEF Begin, Located, store
<1>3. CASE PopStack
  <2>1. /\ Len(stack') = Len(stack) - 1
        /\ \A i \in 1..Len(stack') : stack'[i] = stack[i]
        /\ head' = stack[Len(stack)] /\ Len(stack) \in 1..Len(stack)
    BY <1>0, <1>3, PopStackFacts DEF PopStack
  <2>2. \A i \in 1..Len(stack') : i \in 1..Len(stack)
    BY <1>0, <2>1
  <2> QED BY <1>3, <2>1, <2>2 DEF PopStack, Located, store
<1>4. ASSUME NEW c \in Clients, PopFront(c)
      PROVE  /\ \A d \in Clients : queue'[d] \subseteq queue[d]
             /\ head' \in queue[c]
  BY <1>4, PopFrontFacts
<1>5. CASE PopLatest
  <2>1. latest \in Clients /\ PopFront(latest)
    BY <1>5 DEF PopLatest, TypeOK
  <2> QED BY <1>4, <1>5, <2>1 DEF PopLatest, Located, store
<1>6. CASE NextClient \/ Exhausted \/ Drained \/ ApplyDelete \/ ApplyPendingDs \/ Return
             \/ UNCHANGED vars
  BY <1>6 DEF NextClient, Exhausted, Drained, ApplyDelete, ApplyPendingDs, Return, vars,
    store, picker, Located
<1>7. CASE Integrate
  BY <1>u, <1>7 DEF Integrate, Located
<1>8. CASE Fail
  BY <1>u, <1>8 DEF Fail, EmptyPicker, Located, store
<1>9. CASE Switch \/ GiveUp
  <2>1. /\ Len(stack') = Len(stack) + 1 /\ stack'[Len(stack) + 1] = head
        /\ \A i \in 1..Len(stack) : stack'[i] = stack[i]
    <3>1. stack' = Append(stack, head) /\ head \in Units
      BY <1>9 DEF Switch, GiveUp, TypeOK
    <3> QED BY <1>0, <3>1, AppendProperties
  <2>2. ASSUME NEW i \in 1..Len(stack'), stack'[i] = u PROVE Located(u)
    <3>1. i = Len(stack) + 1 \/ i \in 1..Len(stack)
      BY <1>0, <2>1
    <3> QED BY <2>1, <2>2, <3>1 DEF Located
  <2>3. \A c \in Clients : u \in queue'[c] => Located(u)
    BY <1>4, <1>9 DEF Switch, GiveUp, Located
  <2>4. u = head' => Located(u)
    BY <1>4, <1>9, <1>u DEF Switch, GiveUp, Located
  <2>5. UNCHANGED <<have, pendingBlocks, unapplicable, todo>>
    BY <1>9 DEF Switch, GiveUp, store
  <2> QED BY <2>2, <2>3, <2>4, <2>5 DEF Located
<1>10. CASE Stash
  <2>1. /\ Len(stack') = Len(stack) - 1
        /\ \A i \in 1..Len(stack') : stack'[i] = stack[i + 1]
        /\ Head(stack) = stack[1] /\ 1 \in 1..Len(stack)
    BY <1>0, <1>10, HeadTailProperties DEF Stash
  <2>2. ASSUME NEW i \in 1..Len(stack'), stack'[i] = u PROVE Located(u)
    <3>1. i + 1 \in 1..Len(stack)
      BY <1>0, <2>1
    <3> QED BY <2>1, <2>2, <3>1 DEF Located
  <2>3. ASSUME NEW c \in Clients, u \in queue'[c] \/ u \in unapplicable'[c]
        PROVE  Located(u)
    BY <1>10, <2>1, <2>3 DEF Stash, Located, TypeOK
  <2>4. UNCHANGED <<have, pendingBlocks, head, todo>>
    BY <1>10 DEF Stash, store
  <2> QED BY <2>2, <2>3, <2>4 DEF Located
<1>11. CASE MergePending
  <2>1. pendingBlocks' \subseteq pendingBlocks \cup Stashed
    BY <1>11 DEF MergePending
  <2>2. u \in pendingBlocks' => Located(u)
    BY <2>1 DEF Stashed, Located
  <2>3. UNCHANGED <<have, todo>> /\ Len(stack') = 0 /\ head' = NoUnit
        /\ \A c \in Clients : queue'[c] = {} /\ unapplicable'[c] = {}
    BY <1>11 DEF MergePending, EmptyPicker
  <2> QED BY <1>u, <2>2, <2>3 DEF Located
<1>12. CASE Retry
  <2> DEFINE two == <<[blocks |-> pendingBlocks, ds |-> {}], [blocks |-> {}, ds |-> pendingDs]>>
  <2>1. /\ two \in Seq(Update) /\ Len(two) = 2
        /\ two[1].blocks = pendingBlocks /\ two[2].blocks = {}
    BY DEF Update, TypeOK
  <2>2. todo' = two \o todo /\ pendingBlocks' = {} /\ UNCHANGED <<have, picker>>
    BY <1>12 DEF Retry
  <2> HIDE DEF two
  <2>3. ASSUME NEW i \in 1..Len(todo'), u \in todo'[i].blocks PROVE Located(u)
    <3>1. /\ todo'[1].blocks = pendingBlocks /\ todo'[2].blocks = {}
          /\ \A k \in 1..Len(todo') :
               k \in {1, 2} \/ (k - 2 \in 1..Len(todo) /\ todo'[k] = todo[k - 2])
      BY <1>0, <2>1, <2>2, TwoBefore
    <3>2. CASE i \in {1, 2}
      BY <2>3, <3>1, <3>2 DEF Located
    <3>3. CASE i \notin {1, 2}
      BY <2>3, <3>1, <3>3 DEF Located
    <3> QED BY <3>2, <3>3
  <2> QED BY <2>2, <2>3 DEF Located, picker
<1> QED
  BY <1>1, <1>2, <1>3, <1>5, <1>6, <1>7, <1>8, <1>9, <1>10, <1>11, <1>12 DEF Next, Step

(***************************************************************************)
(* The refinement.                                                         *)
(***************************************************************************)
LEMMA RefinesInit == Init => Abstract!Init
<1> SUFFICES ASSUME Init PROVE Abstract!Init
  OBVIOUS
<1>1. WaitingIsLocated
  BY TypeInit, WaitingLocated
<1>2. Len(stack) = 0 /\ Len(todo) = 0
  BY DEF Init
<1>3. \A u \in Units : ~Located(u)
  BY <1>2, NoUnitIsNoUnit DEF Init, Located
<1>4. \A d : ~DsIn(d)
  BY <1>2 DEF Init, DsIn
<1>5. Waiting = {} /\ WaitingDs = {}
  BY <1>1, <1>3, <1>4 DEF WaitingIsLocated
<1> QED BY <1>5 DEF Init, Abstract!Init

LEMMA RefinesStep ==
  Inv /\ Inv' /\ [Next]_vars => [Abstract!Next]_(Abstract!vars)
<1> SUFFICES ASSUME Inv, Inv', [Next]_vars PROVE Abstract!Next \/ UNCHANGED Abstract!vars
  OBVIOUS
<1>0. /\ TypeOK /\ TypeOK' /\ StashedOnce /\ PickerOwned /\ DeletesInv
      /\ WaitingIsLocated /\ WaitingIsLocated'
  BY WaitingLocated, PTL DEF Inv
<1>1. ASSUME NEW v \in Updates[deps], Call(v) PROVE Abstract!Receive
  <2>1. v.blocks \subseteq Units /\ v.ds \subseteq Units
    BY <1>0, UpdatesAssumption DEF TypeOK
  <2>2. /\ Len(todo) = 0 /\ Len(todo') = 1 /\ todo'[1] = v
        /\ UNCHANGED <<deps, have, deleted, failed>>
    BY <1>0, <1>1 DEF Call, TypeOK, store
  <2>3. \A u \in Units : Located(u)' <=> Located(u) \/ u \in v.blocks
    BY <1>1, <2>2 DEF Call, Located, store, picker
  <2>4. \A d : DsIn(d)' <=> DsIn(d) \/ d \in v.ds
    BY <1>1, <2>2 DEF Call, DsIn, store
  <2>5. Waiting' = Waiting \cup (v.blocks \ have)
    BY <1>0, <2>1, <2>2, <2>3 DEF WaitingIsLocated
  <2>6. WaitingDs' = WaitingDs \cup (v.ds \ deleted)
    BY <1>0, <2>2, <2>4 DEF WaitingIsLocated
  <2>7. delivered' = delivered \cup v.blocks
    BY <1>1 DEF Call
  <2> QED BY <2>1, <2>2, <2>5, <2>6, <2>7 DEF Abstract!Receive
<1>2. ASSUME ~Fail, ~(\E v \in Updates[deps] : Call(v)), NEW u \in Units
      PROVE  Located(u)' <=> Located(u)
  BY <1>0, <1>2, LocatedStep, LocatedBefore
<1>3. CASE Integrate
  <2>1. head \in Units /\ have' = have \cup {head}
        /\ UNCHANGED <<deps, deleted, delivered, failed>>
    BY <1>0, <1>3 DEF Integrate, TypeOK, ghost
  <2>2. Located(head)
    BY DEF Located
  <2>3. \A u \in Units : Located(u)' <=> Located(u)
    BY <1>2, <1>3 DEF Integrate, Fail, Call
  <2>4. Waiting' = Waiting \ {head}
    BY <1>0, <2>1, <2>3 DEF WaitingIsLocated
  <2>5. WaitingDs' = WaitingDs
    <3>1. \A d : DsIn(d)' <=> DsIn(d)
      BY <1>0, <1>3, DsMoved DEF DsMoves
    <3> QED BY <1>0, <2>1, <3>1 DEF WaitingIsLocated
  <2>6. CASE head \in have
    BY <2>1, <2>4, <2>5, <2>6, <1>0 DEF Abstract!vars, WaitingIsLocated
  <2>7. CASE head \notin have
    <3>1. head \in Waiting
      BY <1>0, <2>1, <2>2, <2>7 DEF WaitingIsLocated
    <3>2. Abstract!Range(deps[head]) \subseteq have
      <4>1. deps[head] \in Seq(Units)
        BY <1>0, <2>1, HistoriesAssumption DEF TypeOK
      <4>2. \A i \in 1..Len(deps[head]) : deps[head][i] \in have
        BY <1>3 DEF Integrate, Absent
      <4> QED BY <4>1, <4>2 DEF Abstract!Range
    <3> QED BY <2>1, <2>4, <2>5, <3>1, <3>2 DEF Abstract!Next, Abstract!Integrate
  <2> QED BY <2>6, <2>7
<1>4. CASE Fail
  <2>1. failed' = TRUE /\ UNCHANGED <<deps, have, deleted, delivered>>
    BY <1>4 DEF Fail, store
  <2>2. \A u \in Units : Located(u)' => Located(u)
    BY <1>0, <1>4, LocatedBefore DEF Fail, Call
  <2>3. \A d : DsIn(d)' => DsIn(d)
    <3>1. Len(todo') = 0 /\ ds' = {} /\ pendingDs' = pendingDs
      BY <1>4 DEF Fail, store
    <3> QED BY <3>1 DEF DsIn
  <2>4. Waiting' \subseteq Waiting /\ WaitingDs' \subseteq WaitingDs
    BY <1>0, <2>1, <2>2, <2>3 DEF WaitingIsLocated
  <2> QED BY <2>1, <2>4 DEF Abstract!Next, Abstract!Drop
<1>5. CASE ApplyDelete
  <2>1. UNCHANGED <<deps, have, delivered, failed>>
    BY <1>5 DEF ApplyDelete, ghost
  <2>2. Waiting' = Waiting
    <3>1. \A u \in Units : Located(u)' <=> Located(u)
      BY <1>2, <1>5 DEF ApplyDelete, Fail, Call
    <3> QED BY <1>0, <2>1, <3>1 DEF WaitingIsLocated
  <2> DEFINE D == (ds \cap have) \ deleted
  <2>3. D \subseteq WaitingDs \cap have
    BY <1>0 DEF WaitingIsLocated, DsIn
  <2>4. deleted' = deleted \cup D
    BY <1>5 DEF ApplyDelete
  <2>5. \A d : DsIn(d)' /\ d \notin deleted' <=> DsIn(d) /\ d \notin deleted'
    <3>1. ds \ have \subseteq ds' /\ ds' \subseteq ds
      BY <1>0, <1>5, UnappliedFacts DEF ApplyDelete, TypeOK
    <3> QED BY <1>5, <3>1 DEF ApplyDelete, DsIn
  <2>6. WaitingDs' = WaitingDs \ D
    BY <1>0, <2>4, <2>5 DEF WaitingIsLocated
  <2> HIDE DEF D
  <2> QED BY <2>1, <2>2, <2>3, <2>4, <2>6 DEF Abstract!Next, Abstract!Delete
<1>6. CASE ApplyPendingDs
  <2>1. UNCHANGED <<deps, have, delivered, failed>>
    BY <1>6 DEF ApplyPendingDs, ghost
  <2>2. Waiting' = Waiting
    <3>1. \A u \in Units : Located(u)' <=> Located(u)
      BY <1>2, <1>6 DEF ApplyPendingDs, Fail, Call
    <3> QED BY <1>0, <2>1, <3>1 DEF WaitingIsLocated
  <2> DEFINE D == (pendingDs \cap have) \ deleted
  <2>3. D \subseteq WaitingDs \cap have
    BY <1>0 DEF WaitingIsLocated, DsIn
  <2>4. deleted' = deleted \cup D
    BY <1>6 DEF ApplyPendingDs
  <2>5. \A d : DsIn(d)' /\ d \notin deleted' <=> DsIn(d) /\ d \notin deleted'
    <3>1. /\ pendingDs \ have \subseteq Unapplied(pendingDs)
          /\ Unapplied(pendingDs) \subseteq pendingDs
      BY <1>0, UnappliedFacts DEF TypeOK
    <3> QED BY <1>6, <3>1 DEF ApplyPendingDs, DsIn
  <2>6. WaitingDs' = WaitingDs \ D
    BY <1>0, <2>4, <2>5 DEF WaitingIsLocated
  <2> HIDE DEF D
  <2> QED BY <2>1, <2>2, <2>3, <2>4, <2>6 DEF Abstract!Next, Abstract!Delete
<1>7. ASSUME DsMoves, ~Integrate, ~(\E v \in Updates[deps] : Call(v)), ~Fail
      PROVE  UNCHANGED Abstract!vars
  <2>1. UNCHANGED <<deps, have, deleted, delivered, failed>>
    BY <1>7 DEF DsMoves, Begin, PopStack, PopLatest, NextClient, Exhausted, Switch, GiveUp,
      Stash, Drained, MergePending, Retry, Return, store, ghost, vars
  <2>2. \A d : DsIn(d)' <=> DsIn(d)
    BY <1>0, <1>7, DsMoved
  <2>3. Waiting' = Waiting /\ WaitingDs' = WaitingDs
    BY <1>0, <1>2, <1>7, <2>1, <2>2 DEF WaitingIsLocated
  <2> QED BY <2>1, <2>3 DEF Abstract!vars
<1> QED
  BY <1>1, <1>3, <1>4, <1>5, <1>6, <1>7 DEF Next, Step, DsMoves, Abstract!Next

\* apply_update implements the abstract store: blocks wait until what they depend on
\* is in the store, deletes until their block is, and only an error drops what waits.
THEOREM Refinement == Spec => Implements
<1>1. Init => Abstract!Init
  BY RefinesInit
<1>2. Inv /\ Inv' /\ [Next]_vars => [Abstract!Next]_(Abstract!vars)
  BY RefinesStep
<1> QED BY <1>1, <1>2, Invariance, PTL DEF Spec, Implements, Abstract!Spec
============================================================================
