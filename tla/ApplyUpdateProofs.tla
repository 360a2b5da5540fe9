------------------------- MODULE ApplyUpdateProofs -------------------------
(***************************************************************************)
(* Proofs about ApplyUpdate, for every set of clients and units, every     *)
(* history and every sequence of updates.                                  *)
(***************************************************************************)
EXTENDS ApplyUpdate, TLAPS, SequenceTheorems, WellFoundedInduction

(***************************************************************************)
(* Facts about the state space.                                            *)
(***************************************************************************)
\* The marker of "no block" is not a unit of any client.
LEMMA NoUnitIsNoUnit ==
  /\ \A u \in Units : u.client \in Clients /\ u.clock \in Clocks /\ u # NoUnit
  /\ NoUnit.client \notin Clients /\ NoClient \notin Clients
BY ClientsAssumption, UnitsAssumption DEF NoUnit, NoClient, NoClock, Clocks

\* Of the upper bounds of a client's clocks one is the least: get_clock has a value.
LEMMA GetClockType ==
  ASSUME have \subseteq Units, NEW c \in Clients
  PROVE  GetClock(c) \in 0..(MaxClock + 1)
<1> DEFINE Bounds == {n \in 0..(MaxClock + 1) : \A u \in Of(have, c) : u.clock < n}
<1>1. MaxClock + 1 \in Bounds
  BY MaxClockAssumption, UnitsAssumption DEF Of, Clocks
<1>2. Bounds \subseteq Nat /\ Bounds # {}
  BY <1>1, MaxClockAssumption
<1>3. PICK n \in Bounds : \A m \in Bounds : <<m, n>> \notin OpToRel(<, Nat)
  <2> HIDE DEF Bounds
  <2> QED BY <1>2, NatLessThanWellFounded, WFMin
<1>4. \A m \in Bounds : n <= m
  <2> SUFFICES ASSUME NEW m \in Bounds, m < n PROVE FALSE
    BY <1>2
  <2>1. <<m, n>> \in Nat \X Nat
    BY <1>2
  <2>2. <<m, n>> \in OpToRel(<, Nat)
    BY <2>1 DEF OpToRel
  <2> QED BY <2>2, <1>3
<1>5. \E k \in 0..(MaxClock + 1) :
        /\ \A u \in Of(have, c) : u.clock < k
        /\ \A m \in 0..(MaxClock + 1) : (\A u \in Of(have, c) : u.clock < m) => k <= m
  BY <1>3, <1>4
<1> QED BY <1>5 DEF GetClock

LEMMA SetMinType ==
  ASSUME NEW sv \in [Clients -> ClockOrNone], NEW c \in Clients,
         NEW k \in ClockOrNone
  PROVE  SetMin(sv, c, k) \in [Clients -> ClockOrNone]
BY DEF SetMin

LEMMA MergeMinType ==
  ASSUME NEW sv1 \in [Clients -> ClockOrNone], NEW sv2 \in [Clients -> ClockOrNone]
  PROVE  MergeMin(sv1, sv2) \in [Clients -> ClockOrNone]
BY DEF MergeMin, SetMin

\* What apply_delete returns is of what it was given, has all that could not be
\* applied, and is nothing when everything could be.
LEMMA UnappliedFacts ==
  ASSUME NEW D \in SUBSET Units
  PROVE  /\ D \ have \subseteq Unapplied(D) /\ Unapplied(D) \subseteq D
         /\ Unapplied(D) \subseteq have => Unapplied(D) = {}
<1>1. D \ have \subseteq Unapplied(D) /\ Unapplied(D) \subseteq D
  BY DEF Unapplied
<1>2. ASSUME NEW d \in Unapplied(D) PROVE D \ have # {}
  <2>1. CASE d \notin have
    BY <1>1, <1>2, <2>1
  <2>2. CASE d \in have
    <3>1. PICK from \in Clocks, start \in Clocks, to \in Clocks :
            /\ Skip(d.client, from, to) /\ from < start /\ start < to
            /\ start <= d.clock
            /\ \A k \in start..d.clock : [client |-> d.client, clock |-> k] \in D
      BY <1>2, <2>2 DEF Unapplied
    <3>2. from \in Int /\ start \in Int /\ to \in Int /\ d.clock \in Int
      BY <1>1, <1>2, UnitsAssumption, MaxClockAssumption DEF Clocks
    <3>3. start \in start..d.clock /\ start \in from..(to - 1)
      BY <3>1, <3>2
    <3>4. /\ [client |-> d.client, clock |-> start] \in D
          /\ [client |-> d.client, clock |-> start] \notin have
      BY <3>1, <3>3 DEF Skip
    <3> QED BY <3>4
  <2> QED BY <2>1, <2>2
<1> QED BY <1>1, <1>2

(***************************************************************************)
(* The types.                                                              *)
(***************************************************************************)
LEMMA TypeInit == Init => TypeOK
<1> SUFFICES ASSUME Init PROVE TypeOK
  OBVIOUS
<1>1. Queued = {}
  BY DEF Init, Queued
<1>2. <<>> \in Seq(Units) /\ <<>> \in Seq(Update)
  BY EmptySeq
<1> QED BY <1>1, <1>2 DEF Init, TypeOK, NothingMissing, ClockOrNone, Of

\* The picker's variables keep their types when the picker is dropped.
LEMMA TypeEmptyPicker ==
  ASSUME EmptyPicker
  PROVE  /\ queue' \in [Clients -> SUBSET Units]
         /\ \A c \in Clients : queue'[c] = Of(queue'[c], c)
         /\ clients' \subseteq Clients
         /\ latest' \in Clients \cup {NoClient}
         /\ stack' \in Seq(Units)
         /\ head' = NoUnit
         /\ unapplicable' \in [Clients -> SUBSET Units]
         /\ missing' \in [Clients -> ClockOrNone]
BY DEF EmptyPicker, NothingMissing, ClockOrNone, Of

\* Two updates put in front of what is left to do.
LEMMA TwoBefore ==
  ASSUME NEW S, NEW two \in Seq(S), NEW s \in Seq(S)
  PROVE  Len(two) = 2 =>
           /\ two \o s \in Seq(S) /\ Len(two \o s) = 2 + Len(s)
           /\ (two \o s)[1] = two[1] /\ (two \o s)[2] = two[2]
           /\ \A i \in 1..Len(s) : (two \o s)[i + 2] = s[i]
           /\ \A i \in 1..Len(two \o s) :
                i \in {1, 2} \/ (i - 2 \in 1..Len(s) /\ (two \o s)[i] = s[i - 2])
<1> DEFINE all == two \o s
<1>1. /\ all \in Seq(S) /\ Len(all) = Len(two) + Len(s)
      /\ \A i \in 1..Len(two) : all[i] = two[i]
      /\ \A i \in 1..Len(s) : all[Len(two) + i] = s[i]
  OBVIOUS
<1>2. Len(s) \in Nat
  OBVIOUS
<1> HIDE DEF all
<1> HAVE Len(two) = 2
<1>4. /\ Len(all) = 2 + Len(s) /\ Len(s) \in Nat
      /\ \A i \in 1..2 : all[i] = two[i]
      /\ \A i \in 1..Len(s) : all[2 + i] = s[i]
  BY <1>1, <1>2
<1>5. ASSUME NEW i \in 1..Len(s) PROVE all[i + 2] = s[i]
  <2>1. i + 2 = 2 + i
    OBVIOUS
  <2> QED BY <1>4, <2>1
<1>6. ASSUME NEW i \in 1..Len(all), i \notin {1, 2}
      PROVE  i - 2 \in 1..Len(s) /\ all[i] = s[i - 2]
  <2>1. i - 2 \in 1..Len(s) /\ 2 + (i - 2) = i
    BY <1>4, <1>6
  <2> QED BY <1>4, <2>1
<1>7. all[1] = two[1] /\ all[2] = two[2]
  <2>1. 1 \in 1..2 /\ 2 \in 1..2
    OBVIOUS
  <2> QED BY <1>4, <2>1
<1> QED BY <1>1, <1>4, <1>5, <1>6, <1>7 DEF all

LEMMA TypeStep == TypeOK /\ [Next]_vars => TypeOK'
<1> SUFFICES ASSUME TypeOK, [Next]_vars PROVE TypeOK'
  OBVIOUS
<1> USE DEF TypeOK
<1>1. ASSUME NEW u \in Updates[deps], Call(u) PROVE TypeOK'
  BY <1>1, UpdatesAssumption DEF Call, store, picker, Update
<1>2. CASE Begin
  <2>1. Head(todo) \in Update /\ Tail(todo) \in Seq(Update)
    BY <1>2, HeadTailProperties DEF Begin, Update
  <2> QED BY <1>2, <2>1, UnitsAssumption DEF Begin, store, ghost, Of, Update
<1>3. CASE PopStack
  <2>1. /\ Len(stack) \in 1..Len(stack)
        /\ SubSeq(stack, 1, Len(stack) - 1) \in Seq(Units)
    BY <1>3 DEF PopStack
  <2> QED BY <1>3, <2>1 DEF PopStack, store, ghost
<1>4. ASSUME NEW c \in Clients, PopFront(c)
      PROVE  /\ head' \in queue[c] /\ head' \in Units
             /\ queue' \in [Clients -> SUBSET Units]
             /\ \A d \in Clients : queue'[d] = Of(queue'[d], d)
  BY <1>4 DEF PopFront, Of
<1>5. CASE PopLatest
  BY <1>4, <1>5 DEF PopLatest, store, ghost
<1>6. CASE NextClient
  BY <1>6 DEF NextClient, store, ghost
<1>7. CASE Exhausted
  BY <1>7 DEF Exhausted, store, ghost, picker
<1>8. CASE Integrate
  BY <1>8 DEF Integrate, ghost
<1>9. CASE Fail
  <2>1. todo' \in Seq(Update)
    BY <1>9, EmptySeq DEF Fail
  <2> QED BY <1>9, <2>1, TypeEmptyPicker DEF Fail, store
<1>10. CASE Switch
  <2>1. Append(stack, head) \in Seq(Units)
    BY <1>10 DEF Switch
  <2> QED BY <1>4, <1>10, <2>1 DEF Switch, store, ghost
<1>11. CASE GiveUp
  <2>1. Append(stack, head) \in Seq(Units)
    BY <1>11 DEF GiveUp
  <2>2. missing' \in [Clients -> ClockOrNone]
    <3>1. \A c \in Clients : GetClock(c) \in ClockOrNone
      BY GetClockType, MaxClockAssumption DEF ClockOrNone, Clocks
    <3>2. PICK c \in Clients : missing' = SetMin(missing, c, GetClock(c))
      BY <1>11 DEF GiveUp
    <3> QED BY <3>1, <3>2, SetMinType
  <2> QED BY <1>11, <2>1, <2>2 DEF GiveUp, store, ghost
<1>12. CASE Stash
  <2>1. Head(stack) \in Units /\ Head(stack).client \in Clients /\ Tail(stack) \in Seq(Units)
    BY <1>12, UnitsAssumption DEF Stash
  <2> QED BY <1>12, <2>1 DEF Stash, store, ghost, Of
<1>13. CASE Drained
  BY <1>13 DEF Drained, store, ghost, picker
<1>14. CASE ApplyDelete
  <2>1. ds' \subseteq Units
    BY <1>14, UnappliedFacts DEF ApplyDelete
  <2> QED BY <1>14, <2>1 DEF ApplyDelete, ghost, picker
<1>15. CASE MergePending
  <2>1. MergeMin(pendingMissing, missing) \in [Clients -> ClockOrNone]
    BY MergeMinType
  <2>2. Stashed \subseteq Units
    BY DEF Stashed
  <2>3. /\ pendingBlocks' \subseteq Units
        /\ pendingMissing' \in [Clients -> ClockOrNone]
        /\ retry' \in BOOLEAN
    BY <1>15, <2>1, <2>2 DEF MergePending
  <2> QED BY <1>15, <2>3, TypeEmptyPicker DEF MergePending, ghost
<1>16. CASE ApplyPendingDs
  <2>1. Unapplied(pendingDs) \subseteq Units
    BY UnappliedFacts
  <2> QED BY <1>16, <2>1 DEF ApplyPendingDs, ghost, picker
<1>17. CASE Retry
  <2>1. todo' \in Seq(Update) /\ todo' # <<>>
    <3> DEFINE two == <<[blocks |-> pendingBlocks, ds |-> {}], [blocks |-> {}, ds |-> pendingDs]>>
    <3>1. two \in Seq(Update) /\ Len(two) = 2
      BY DEF Update
    <3> HIDE DEF two
    <3>2. two \o todo \in Seq(Update) /\ Len(two \o todo) = 2 + Len(todo)
      BY <3>1, TwoBefore
    <3>3. todo' = two \o todo
      BY <1>17 DEF Retry, two
    <3> QED BY <3>2, <3>3, EmptySeq
  <2> QED BY <1>17, <2>1 DEF Retry, ghost, picker, NothingMissing, ClockOrNone
<1>18. CASE Return
  BY <1>18 DEF Return, store, ghost, picker
<1>19. CASE UNCHANGED vars
  BY <1>19 DEF vars, store, picker, ghost
<1> QED
  BY <1>1, <1>2, <1>3, <1>5, <1>6, <1>7, <1>8, <1>9, <1>10, <1>11, <1>12, <1>13,
     <1>14, <1>15, <1>16, <1>17, <1>18, <1>19 DEF Next, Step

(***************************************************************************)
(* The store is closed under dependencies: only Integrate adds to it.      *)
(***************************************************************************)
LEMMA DepsStep == TypeOK /\ DepsIntegrated /\ [Next]_vars => DepsIntegrated'
<1> SUFFICES ASSUME TypeOK, DepsIntegrated, [Next]_vars PROVE DepsIntegrated'
  OBVIOUS
<1>1. CASE Integrate
  <2>1. head \in Units /\ deps[head] \in Seq(Units)
    BY <1>1, HistoriesAssumption DEF Integrate, TypeOK
  <2>2. Range(deps[head]) \subseteq have
    <3> SUFFICES ASSUME NEW i \in DOMAIN deps[head] PROVE deps[head][i] \in have
      BY DEF Range
    <3>1. i \in 1..Len(deps[head])
      BY <2>1
    <3> QED BY <1>1, <3>1 DEF Integrate, Absent
  <2> QED BY <1>1, <2>2 DEF Integrate, DepsIntegrated
<1>2. CASE UNCHANGED <<deps, have>>
  BY <1>2 DEF DepsIntegrated
<1>3. Integrate \/ UNCHANGED <<deps, have>>
  BY DEF Next, Step, Call, Begin, PopStack, PopLatest, NextClient, Exhausted, Fail,
    Switch, GiveUp, Stash, Drained, ApplyDelete, MergePending, ApplyPendingDs, Retry,
    Return, store, vars
<1> QED BY <1>1, <1>2, <1>3

(***************************************************************************)
(* The picker.  Its queues, its stack and the stashed blocks change in few *)
(* actions; one lemma says what each of the others leaves alone.           *)
(***************************************************************************)
PickerStep ==
  Begin \/ PopStack \/ PopLatest \/ NextClient \/ Exhausted \/ Integrate \/ Fail
    \/ Switch \/ GiveUp \/ Stash \/ Drained \/ MergePending

Idles == UNCHANGED <<queue, clients, latest, stack, head, unapplicable>>

LEMMA PickerSteps ==
  ASSUME [Next]_vars
  PROVE  \/ PickerStep
         \/ /\ Idles
            /\ \/ pc' = pc
               \/ pc = "idle" /\ pc' = "begin"
               \/ pc = "deletes" /\ pc' = "merge"
               \/ pc = "pending_ds" /\ pc' = "return"
               \/ pc = "return" /\ pc' \in {"idle", "begin"}
<1>1. CASE UNCHANGED vars
  BY <1>1 DEF vars, picker, Idles
<1>2. ASSUME NEW u \in Updates[deps], Call(u) PROVE Idles /\ pc = "idle" /\ pc' = "begin"
  BY <1>2 DEF Call, picker, Idles
<1>3. CASE ApplyDelete \/ ApplyPendingDs \/ Retry \/ Return
  BY <1>3 DEF ApplyDelete, ApplyPendingDs, Retry, Return, picker, Idles
<1> QED BY <1>1, <1>2, <1>3 DEF Next, Step, PickerStep

\* A block taken from the front of a queue is of that client and no longer queued.
LEMMA PopFrontFacts ==
  ASSUME TypeOK, NEW c \in Clients, PopFront(c)
  PROVE  /\ head' \in queue[c] /\ head'.client = c
         /\ queue'[c] = queue[c] \ {head'}
         /\ \A d \in Clients : d # c => queue'[d] = queue[d]
BY DEF TypeOK, PopFront, Of

LEMMA PopStackFacts ==
  ASSUME TypeOK, PopStack
  PROVE  /\ Len(stack') = Len(stack) - 1
         /\ \A i \in 1..Len(stack') : stack'[i] = stack[i]
<1>1. stack \in Seq(Units) /\ Len(stack) \in Nat /\ Len(stack) # 0
  BY EmptySeq DEF TypeOK, PopStack
<1> DEFINE n == Len(stack) - 1
<1>2. n \in Nat /\ \A i \in 1..n : stack[i] \in Units
  BY <1>1
<1>3. stack' = SubSeq(stack, 1, n)
  BY DEF PopStack
<1> HIDE DEF n
<1>4. /\ Len(stack') = IF 1 <= n THEN n - 1 + 1 ELSE 0
      /\ \A i \in 1..n - 1 + 1 : stack'[i] = stack[1 + i - 1]
  BY <1>2, <1>3, SubSeqProperties
<1>5. Len(stack') = n /\ \A i \in 1..n : stack'[i] = stack[i]
  BY <1>2, <1>4
<1> QED BY <1>5 DEF n

LEMMA PickerInv ==
  TypeOK /\ StashedOnce /\ PickerOwned /\ [Next]_vars => StashedOnce' /\ PickerOwned'
<1> SUFFICES ASSUME TypeOK, StashedOnce, PickerOwned, [Next]_vars
             PROVE  StashedOnce' /\ PickerOwned'
  OBVIOUS
<1> USE DEF StashedOnce, PickerOwned, InPicker, OnStack
<1>0. stack \in Seq(Units) /\ Len(stack) \in Nat
  BY DEF TypeOK
<1>1. CASE Begin
  BY <1>1 DEF Begin, TypeOK, Of
<1>2. CASE PopStack
  <2>1. /\ head = NoUnit /\ Len(stack) \in 1..Len(stack) /\ head' = stack[Len(stack)]
        /\ Len(stack') = Len(stack) - 1
        /\ \A i \in 1..Len(stack') : stack'[i] = stack[i]
    BY <1>0, <1>2, PopStackFacts DEF PopStack, TypeOK
  <2>2. head'.client # NoUnit.client
    BY <2>1, <1>0, NoUnitIsNoUnit
  <2>3. UNCHANGED <<queue, clients, latest, unapplicable>> /\ pc = "next" /\ pc' = "try"
    BY <1>2 DEF PopStack
  <2>4. \A i \in 1..Len(stack') : i \in 1..Len(stack) /\ i # Len(stack)
    BY <2>1, <1>0
  <2>5. (\A i, j \in 1..Len(stack) : stack[i].client = stack[j].client => i = j)'
    BY <2>1, <2>4
  <2>6. (\A i \in 1..Len(stack) : stack[i].client # head.client)'
    BY <2>1, <2>4
  <2>7. (\A c \in Clients : unapplicable[c] # {} => ~InPicker(c))'
    <3> SUFFICES ASSUME NEW c \in Clients, unapplicable[c] # {}, InPicker(c)' PROVE FALSE
      BY <2>3
    <3>1. ~InPicker(c)
      OBVIOUS
    <3>2. queue'[c] = {} /\ \A i \in 1..Len(stack) : stack[i].client # c
      BY <2>3, <3>1
    <3>3. head'.client # c
      BY <2>1, <3>2
    <3>4. PICK i \in 1..Len(stack') : stack'[i].client = c
      BY <3>2, <3>3
    <3> QED BY <2>1, <2>4, <3>2, <3>4
  <2> QED BY <2>3, <2>5, <2>6, <2>7
<1>3. CASE PopLatest
  BY <1>3, PopFrontFacts DEF PopLatest, TypeOK
<1>4. CASE NextClient
  BY <1>4 DEF NextClient, LatestEmpty, TypeOK
<1>5. CASE Exhausted
  BY <1>5, NoUnitIsNoUnit DEF Exhausted, LatestEmpty, TypeOK, picker
<1>6. CASE Integrate
  BY <1>6, NoUnitIsNoUnit DEF Integrate, TypeOK
<1>7. CASE Fail
  BY <1>7, NoUnitIsNoUnit DEF Fail, EmptyPicker, TypeOK
<1>8. CASE Switch
  <2>1. PICK c \in Clients : CanSwitch(c) /\ PopFront(c)
    BY <1>8 DEF Switch
  <2>2. /\ head' \in queue[c] /\ head'.client = c
        /\ queue'[c] = queue[c] \ {head'}
        /\ \A d \in Clients : d # c => queue'[d] = queue[d]
    BY <2>1, PopFrontFacts
  <2>3. /\ stack' = Append(stack, head) /\ pc = "try" /\ pc' = "try"
        /\ UNCHANGED <<clients, latest, unapplicable>>
    BY <1>8 DEF Switch
  <2>4. /\ queue[c] # {} /\ c # head.client
        /\ \A i \in 1..Len(stack) : stack[i].client # c
    BY <2>1 DEF CanSwitch
  <2>5. /\ Len(stack') = Len(stack) + 1 /\ stack'[Len(stack) + 1] = head
        /\ \A i \in 1..Len(stack) : stack'[i] = stack[i]
    BY <1>0, <2>3 DEF TypeOK
  <2>6. (\A i, j \in 1..Len(stack) : stack[i].client = stack[j].client => i = j)'
    BY <1>0, <2>5
  <2>7. (\A i \in 1..Len(stack) : stack[i].client # head.client)'
    BY <1>0, <2>2, <2>4, <2>5
  <2>8. \A d \in Clients : InPicker(d)' => InPicker(d)
    BY <1>0, <2>2, <2>4, <2>5
  <2>9. (\A d \in Clients : unapplicable[d] # {} => ~InPicker(d))'
    BY <2>3, <2>8
  <2>10. (\A d \in Clients : queue[d] # {} => d \in clients \cup {latest})'
    BY <2>2, <2>3, <2>4
  <2> QED BY <2>3, <2>6, <2>7, <2>9, <2>10
<1>9. CASE GiveUp
  BY <1>9, NoUnitIsNoUnit DEF GiveUp, TypeOK
<1>10. CASE Stash
  <2>1. /\ head = NoUnit /\ Len(stack') = Len(stack) - 1
        /\ \A i \in 1..Len(stack') : stack'[i] = stack[i + 1]
        /\ Head(stack) = stack[1] /\ 1 \in 1..Len(stack)
    BY <1>0, <1>10, HeadTailProperties DEF Stash, TypeOK
  <2> DEFINE c == stack[1].client
  <2>2. c \in Clients
    BY <1>0, <2>1, NoUnitIsNoUnit
  <2>3. \A i \in 1..Len(stack') : i + 1 \in 1..Len(stack) /\ i + 1 # 1
    BY <2>1, <1>0
  <2>4. /\ unapplicable' = [unapplicable EXCEPT ![c] = {stack[1]} \cup queue[c]]
        /\ queue' = [queue EXCEPT ![c] = {}]
        /\ UNCHANGED <<pc, clients, latest, head>> /\ pc = "drain"
    BY <1>10, <2>1 DEF Stash
  <2>5. (\A i, j \in 1..Len(stack) : stack[i].client = stack[j].client => i = j)'
    <3> SUFFICES ASSUME NEW i \in 1..Len(stack'), NEW j \in 1..Len(stack'),
                        stack'[i].client = stack'[j].client
                 PROVE  i = j
      OBVIOUS
    <3>1. stack[i + 1].client = stack[j + 1].client
      BY <2>1
    <3>2. i + 1 = j + 1
      BY <3>1, <2>3
    <3> QED BY <3>2
  <2>6. (\A i \in 1..Len(stack) : stack[i].client # head.client)'
    BY <2>1, <2>3, <2>4
  <2>7. (\A d \in Clients : unapplicable[d] # {} => ~InPicker(d))'
    <3> SUFFICES ASSUME NEW d \in Clients, unapplicable'[d] # {}
                 PROVE  /\ queue'[d] = {} /\ head'.client # d
                        /\ \A i \in 1..Len(stack') : stack'[i].client # d
      OBVIOUS
    <3>1. head'.client # d
      BY <2>1, <2>4, NoUnitIsNoUnit
    <3>2. CASE d = c
      <4>1. queue'[d] = {}
        BY <3>2, <2>2, <2>4 DEF TypeOK
      <4>2. \A i \in 1..Len(stack') : stack'[i].client # d
        BY <3>2, <2>1, <2>3
      <4> QED BY <3>1, <4>1, <4>2
    <3>3. CASE d # c
      <4>1. unapplicable'[d] = unapplicable[d] /\ queue'[d] = queue[d]
        BY <3>3, <2>2, <2>4 DEF TypeOK
      <4>2. ~InPicker(d)
        BY <4>1 DEF StashedOnce
      <4>3. queue'[d] = {}
        BY <4>1, <4>2
      <4>4. \A i \in 1..Len(stack') : stack'[i].client # d
        BY <4>2, <2>1, <2>3
      <4> QED BY <3>1, <4>3, <4>4
    <3> QED BY <3>2, <3>3
  <2>8. PickerOwned'
    BY <2>2, <2>4 DEF TypeOK
  <2> QED BY <2>5, <2>6, <2>7, <2>8
<1>11. CASE Drained
  BY <1>11 DEF Drained, TypeOK, picker
<1>12. CASE MergePending
  BY <1>12, NoUnitIsNoUnit DEF MergePending, EmptyPicker, TypeOK
<1>13. ASSUME Idles,
              \/ pc' = pc
              \/ pc = "idle" /\ pc' = "begin"
              \/ pc = "deletes" /\ pc' = "merge"
              \/ pc = "pending_ds" /\ pc' = "return"
              \/ pc = "return" /\ pc' \in {"idle", "begin"}
       PROVE  StashedOnce' /\ PickerOwned'
  BY <1>13 DEF Idles
<1> QED
  BY <1>1, <1>2, <1>3, <1>4, <1>5, <1>6, <1>7, <1>8, <1>9, <1>10, <1>11, <1>12,
     <1>13, PickerSteps DEF PickerStep

(***************************************************************************)
(* Nothing is lost.  Where a block can be, one place at a time.            *)
(***************************************************************************)
Located(u) ==
  \/ u \in have \/ u \in pendingBlocks \/ u = head
  \/ \E c \in Clients : u \in queue[c] \/ u \in unapplicable[c]
  \/ \E i \in 1..Len(stack) : stack[i] = u
  \/ \E i \in 1..Len(todo) : u \in todo[i].blocks

KeptIfLocated == \A u : u \in have \cup pendingBlocks \cup InFlight <=> Located(u)

LEMMA LocatedIsKept == TypeOK => KeptIfLocated
<1> SUFFICES ASSUME TypeOK, NEW u
             PROVE  u \in have \cup pendingBlocks \cup InFlight <=> Located(u)
  BY DEF KeptIfLocated
<1>1. stack \in Seq(Units)
  BY DEF TypeOK
<1>2. u \in Range(stack) <=> \E i \in 1..Len(stack) : stack[i] = u
  BY <1>1 DEF Range
<1>3. u \in Queued \cup Stashed <=> \E c \in Clients : u \in queue[c] \/ u \in unapplicable[c]
  BY DEF Queued, Stashed
<1>4. u \in UNION {todo[i].blocks : i \in 1..Len(todo)}
        <=> \E i \in 1..Len(todo) : u \in todo[i].blocks
  OBVIOUS
<1> QED BY <1>2, <1>3, <1>4 DEF InFlight, Located

\* No step but a failing one lets go of a block: the stashed blocks of a client are
\* replaced only when there are none (StashedOnce), the picker is dropped and
\* refilled only when it is empty (PickerOwned).
LEMMA LocatedStep ==
  ASSUME TypeOK, TypeOK', StashedOnce, PickerOwned, [Next]_vars, ~Fail,
         NEW u \in Units, Located(u)
  PROVE  Located(u)'
<1>0. stack \in Seq(Units) /\ Len(stack) \in Nat /\ todo \in Seq(Update) /\ Len(todo) \in Nat
  BY DEF TypeOK
<1>u. u # NoUnit
  BY NoUnitIsNoUnit
<1>1. ASSUME NEW v \in Updates[deps], Call(v) PROVE Located(u)'
  <2>1. Len(todo) = 0
    BY <1>1 DEF Call, TypeOK
  <2> QED BY <1>1, <2>1, <1>0 DEF Call, Located, store, picker
<1>2. CASE Begin
  <2>1. /\ Len(todo') = Len(todo) - 1
        /\ \A i \in 1..Len(todo') : todo'[i] = todo[i + 1]
        /\ Head(todo) = todo[1] /\ 1 \in 1..Len(todo) /\ todo[1] \in Update
    BY <1>0, <1>2, HeadTailProperties DEF Begin, TypeOK
  <2>2. ASSUME u \in todo[1].blocks PROVE Located(u)'
    <3>1. u \notin have => u \in queue'[u.client] /\ u.client \in Clients
      BY <1>2, <2>1, <2>2, NoUnitIsNoUnit DEF Begin, Of
    <3> QED BY <1>2, <3>1 DEF Begin, Located, store
  <2>3. ASSUME NEW i \in 1..Len(todo), u \in todo[i].blocks, i # 1 PROVE Located(u)'
    <3>1. i - 1 \in 1..Len(todo') /\ todo'[i - 1] = todo[i]
      BY <1>0, <2>1, <2>3
    <3> QED BY <2>3, <3>1 DEF Located
  <2>4. \A c \in Clients : queue[c] = {}
    BY <1>2 DEF Begin, PickerOwned
  <2>5. UNCHANGED <<have, pendingBlocks, head, unapplicable, stack>>
    BY <1>2 DEF Begin, store
  <2> QED BY <2>2, <2>3, <2>4, <2>5 DEF Located
<1>3. CASE PopStack
  <2>1. /\ Len(stack') = Len(stack) - 1
        /\ \A i \in 1..Len(stack') : stack'[i] = stack[i]
    BY <1>3, PopStackFacts
  <2>2. head = NoUnit /\ head' = stack[Len(stack)]
    BY <1>3 DEF PopStack, TypeOK
  <2>3. ASSUME NEW i \in 1..Len(stack), stack[i] = u PROVE Located(u)'
    <3>1. i = Len(stack) \/ i \in 1..Len(stack')
      BY <1>0, <2>1
    <3> QED BY <2>1, <2>2, <2>3, <3>1 DEF Located
  <2>4. UNCHANGED <<have, pendingBlocks, queue, unapplicable, todo>>
    BY <1>3 DEF PopStack, store
  <2> QED BY <1>u, <2>2, <2>3, <2>4 DEF Located
<1>4. CASE PopLatest
  <2>1. latest \in Clients /\ PopFront(latest) /\ head = NoUnit
    BY <1>4 DEF PopLatest, TypeOK
  <2>2. UNCHANGED <<have, pendingBlocks, stack, unapplicable, todo>>
    BY <1>4 DEF PopLatest, store
  <2>3. \A c \in Clients : u \in queue[c] => u \in queue'[c] \/ u = head'
    BY <2>1, PopFrontFacts
  <2> QED BY <1>u, <2>1, <2>2, <2>3 DEF Located
<1>5. CASE NextClient
  BY <1>5 DEF NextClient, store, Located
<1>6. CASE Exhausted
  BY <1>6 DEF Exhausted, store, picker, Located
<1>7. CASE Integrate
  BY <1>7 DEF Integrate, Located
<1>8. CASE Switch
  <2>1. PICK c \in Clients : PopFront(c)
    BY <1>8 DEF Switch
  <2>2. \A d \in Clients : u \in queue[d] => u \in queue'[d] \/ u = head'
    BY <2>1, PopFrontFacts
  <2>3. /\ Len(stack') = Len(stack) + 1 /\ stack'[Len(stack) + 1] = head
        /\ \A i \in 1..Len(stack) : stack'[i] = stack[i]
    BY <1>0, <1>8, AppendProperties DEF Switch, TypeOK
  <2>4. UNCHANGED <<have, pendingBlocks, unapplicable, todo>>
    BY <1>8 DEF Switch, store
  <2>5. ASSUME NEW i \in 1..Len(stack), stack[i] = u PROVE Located(u)'
    BY <1>0, <2>3, <2>5 DEF Located
  <2>6. ASSUME u = head PROVE Located(u)'
    BY <1>0, <2>3, <2>6 DEF Located
  <2> QED BY <2>2, <2>4, <2>5, <2>6 DEF Located
<1>9. CASE GiveUp
  <2>1. /\ Len(stack') = Len(stack) + 1 /\ stack'[Len(stack) + 1] = head
        /\ \A i \in 1..Len(stack) : stack'[i] = stack[i]
    BY <1>0, <1>9, AppendProperties DEF GiveUp, TypeOK
  <2>2. UNCHANGED <<have, pendingBlocks, queue, unapplicable, todo>>
    BY <1>9 DEF GiveUp, store
  <2>3. ASSUME NEW i \in 1..Len(stack), stack[i] = u PROVE Located(u)'
    BY <1>0, <2>1, <2>3 DEF Located
  <2>4. ASSUME u = head PROVE Located(u)'
    BY <1>0, <2>1, <2>4 DEF Located
  <2> QED BY <2>2, <2>3, <2>4 DEF Located
<1>10. CASE Stash
  <2>1. /\ Len(stack') = Len(stack) - 1
        /\ \A i \in 1..Len(stack') : stack'[i] = stack[i + 1]
        /\ Head(stack) = stack[1] /\ 1 \in 1..Len(stack)
    BY <1>0, <1>10, HeadTailProperties DEF Stash
  <2> DEFINE c == stack[1].client
  <2>2. c \in Clients /\ unapplicable[c] = {}
    BY <1>0, <2>1, NoUnitIsNoUnit DEF StashedOnce, InPicker, OnStack
  <2>3. /\ unapplicable' = [unapplicable EXCEPT ![c] = {stack[1]} \cup queue[c]]
        /\ queue' = [queue EXCEPT ![c] = {}]
        /\ UNCHANGED <<have, pendingBlocks, head, todo>>
    BY <1>10, <2>1 DEF Stash, store
  <2>4. ASSUME NEW d \in Clients, u \in queue[d] \/ u \in unapplicable[d]
        PROVE  u \in queue'[d] \/ u \in unapplicable'[d]
    BY <2>2, <2>3, <2>4 DEF TypeOK
  <2>5. ASSUME NEW i \in 1..Len(stack), stack[i] = u PROVE Located(u)'
    <3>1. CASE i = 1
      BY <2>2, <2>3, <2>5, <3>1 DEF Located, TypeOK
    <3>2. CASE i # 1
      <4>1. i - 1 \in 1..Len(stack') /\ stack'[i - 1] = u
        BY <1>0, <2>1, <2>5, <3>2
      <4> QED BY <4>1 DEF Located
    <3> QED BY <3>1, <3>2
  <2> QED BY <2>3, <2>4, <2>5 DEF Located
<1>11. CASE Drained
  BY <1>11 DEF Drained, store, picker, Located
<1>12. CASE ApplyDelete
  BY <1>12 DEF ApplyDelete, picker, Located
<1>13. CASE MergePending
  <2>1. /\ \A c \in Clients : queue[c] = {}
        /\ Len(stack) = 0 /\ head = NoUnit
    BY <1>13 DEF MergePending, PickerOwned, TypeOK
  <2>2. pendingBlocks \cup Stashed \subseteq pendingBlocks'
    BY <1>13 DEF MergePending
  <2>3. \A c \in Clients : u \in unapplicable[c] => u \in pendingBlocks'
    BY <2>2 DEF Stashed
  <2>4. UNCHANGED <<have, todo>>
    BY <1>13 DEF MergePending
  <2> QED BY <1>0, <1>u, <2>1, <2>2, <2>3, <2>4 DEF Located
<1>14. CASE ApplyPendingDs
  BY <1>14 DEF ApplyPendingDs, picker, Located
<1>15. CASE Retry
  <2> DEFINE two == <<[blocks |-> pendingBlocks, ds |-> {}], [blocks |-> {}, ds |-> pendingDs]>>
  <2>1. two \in Seq(Update) /\ Len(two) = 2 /\ two[1].blocks = pendingBlocks
    BY DEF Update, TypeOK
  <2>2. todo' = two \o todo /\ UNCHANGED <<have, picker>>
    BY <1>15 DEF Retry
  <2> HIDE DEF two
  <2>3. /\ Len(todo') = 2 + Len(todo) /\ todo'[1].blocks = pendingBlocks
        /\ \A i \in 1..Len(todo) : todo'[i + 2] = todo[i]
    BY <1>0, <2>1, <2>2, TwoBefore
  <2>4. ASSUME NEW i \in 1..Len(todo), u \in todo[i].blocks PROVE Located(u)'
    <3>1. i + 2 \in 1..Len(todo') /\ u \in todo'[i + 2].blocks
      BY <1>0, <2>3, <2>4
    <3> QED BY <3>1 DEF Located
  <2>5. ASSUME u \in pendingBlocks PROVE Located(u)'
    BY <1>0, <2>3, <2>5 DEF Located
  <2> QED BY <2>2, <2>4, <2>5 DEF Located, picker
<1>16. CASE Return
  BY <1>16 DEF Return, store, picker, Located
<1>17. CASE UNCHANGED vars
  BY <1>17 DEF vars, store, picker, Located
<1> QED
  BY <1>1, <1>2, <1>3, <1>4, <1>5, <1>6, <1>7, <1>8, <1>9, <1>10, <1>11, <1>12,
     <1>13, <1>14, <1>15, <1>16, <1>17 DEF Next, Step

LEMMA LostStep ==
  /\ TypeOK /\ TypeOK' /\ StashedOnce /\ PickerOwned /\ NothingLost /\ [Next]_vars
  => NothingLost'
<1> SUFFICES ASSUME TypeOK, TypeOK', StashedOnce, PickerOwned, NothingLost, [Next]_vars,
                    ~failed', NEW u \in delivered'
             PROVE  u \in have' \cup pendingBlocks' \cup InFlight'
  BY DEF NothingLost
<1>0. KeptIfLocated /\ KeptIfLocated'
  BY LocatedIsKept, PTL
<1>1. u \in Units
  BY DEF TypeOK
<1>2. ~Fail
  BY DEF Fail
<1>3. ~failed
  BY <1>2 DEF Next, Step, Call, Begin, PopStack, PopLatest, NextClient, Exhausted,
    Integrate, Switch, GiveUp, Stash, Drained, ApplyDelete, MergePending, ApplyPendingDs,
    Retry, Return, ghost, vars
<1>4. CASE u \in delivered
  <2>1. Located(u)
    BY <1>0, <1>3, <1>4 DEF NothingLost, KeptIfLocated
  <2>2. Located(u)'
    BY <1>1, <1>2, <2>1, LocatedStep
  <2> QED BY <1>0, <2>2 DEF KeptIfLocated
<1>5. CASE u \notin delivered
  <2>1. PICK v \in Updates[deps] : Call(v)
    BY <1>5 DEF Next, Step, Begin, PopStack, PopLatest, NextClient, Exhausted, Integrate,
      Fail, Switch, GiveUp, Stash, Drained, ApplyDelete, MergePending, ApplyPendingDs,
      Retry, Return, ghost, vars
  <2>2. todo' = <<v>> /\ u \in v.blocks
    BY <1>5, <2>1 DEF Call
  <2>3. 1 \in 1..Len(todo') /\ todo'[1] = v
    BY <2>2
  <2>4. Located(u)'
    BY <2>2, <2>3 DEF Located
  <2> QED BY <1>0, <2>4 DEF KeptIfLocated
<1> QED BY <1>4, <1>5

(***************************************************************************)
(* Deletes.  What is left in `ds` after the first attempt, and what is in  *)
(* `pending_ds` when the call returns, hits no unit of the store that is   *)
(* not deleted, and some unit that is not there.                           *)
(***************************************************************************)
DsIn(d) == d \in pendingDs \/ d \in ds \/ \E i \in 1..Len(todo) : d \in todo[i].ds

Waits(D) == D \cap have \subseteq deleted /\ (D \subseteq have => D = {})

DeletesInv ==
  /\ deleted \subseteq deliveredDs \cap have
  /\ \A d : DsIn(d) => d \in deliveredDs
  /\ ~failed => \A d \in deliveredDs : d \in deleted \/ DsIn(d)
  /\ pc \in {"merge", "pending_ds"} => Waits(ds)
  /\ pc \in {"return", "idle", "begin"} => ds = {}
  /\ pc \in {"return", "idle"} /\ ~failed => Waits(pendingDs)

\* Most steps only move the deletes that wait, or leave them alone.
DsMoves ==
  Begin \/ PopStack \/ PopLatest \/ NextClient \/ Exhausted \/ Integrate \/ Switch
    \/ GiveUp \/ Stash \/ Drained \/ MergePending \/ Retry \/ Return \/ UNCHANGED vars

LEMMA DsMoved == TypeOK /\ DeletesInv /\ DsMoves => \A d : DsIn(d)' <=> DsIn(d)
<1> SUFFICES ASSUME TypeOK, DeletesInv, DsMoves PROVE \A d : DsIn(d)' <=> DsIn(d)
  OBVIOUS
<1>0. todo \in Seq(Update) /\ Len(todo) \in Nat
  BY DEF TypeOK
<1>1. CASE Begin
  <2>1. /\ Len(todo') = Len(todo) - 1
        /\ \A i \in 1..Len(todo') : todo'[i] = todo[i + 1]
        /\ Head(todo) = todo[1] /\ 1 \in 1..Len(todo)
    BY <1>0, <1>1, HeadTailProperties DEF Begin, TypeOK
  <2>2. ds = {} /\ ds' = todo[1].ds /\ pendingDs' = pendingDs
    BY <1>1, <2>1 DEF Begin, DeletesInv, store
  <2>3. ASSUME NEW d, DsIn(d) PROVE DsIn(d)'
    <3>1. ASSUME NEW i \in 1..Len(todo), d \in todo[i].ds PROVE DsIn(d)'
      <4>1. CASE i = 1
        BY <2>2, <3>1, <4>1 DEF DsIn
      <4>2. CASE i # 1
        <5>1. i - 1 \in 1..Len(todo') /\ todo'[i - 1] = todo[i]
          BY <1>0, <2>1, <4>2
        <5> QED BY <3>1, <5>1 DEF DsIn
      <4> QED BY <4>1, <4>2
    <3> QED BY <2>2, <2>3, <3>1 DEF DsIn
  <2>4. ASSUME NEW d, DsIn(d)' PROVE DsIn(d)
    <3>1. ASSUME NEW i \in 1..Len(todo'), d \in todo'[i].ds PROVE DsIn(d)
      <4>1. i + 1 \in 1..Len(todo) /\ todo'[i] = todo[i + 1]
        BY <1>0, <2>1
      <4> QED BY <3>1, <4>1 DEF DsIn
    <3> QED BY <2>1, <2>2, <2>4, <3>1 DEF DsIn
  <2> QED BY <2>3, <2>4
<1>2. CASE Retry
  <2> DEFINE two == <<[blocks |-> pendingBlocks, ds |-> {}], [blocks |-> {}, ds |-> pendingDs]>>
  <2>1. /\ two \in Seq(Update) /\ Len(two) = 2
        /\ two[1].ds = {} /\ two[2].ds = pendingDs
    BY DEF Update, TypeOK
  <2>2. todo' = two \o todo /\ pendingDs' = {} /\ ds' = ds /\ ds = {}
    BY <1>2 DEF Retry, DeletesInv
  <2> HIDE DEF two
  <2>3. /\ Len(todo') = 2 + Len(todo)
        /\ todo'[1].ds = {} /\ todo'[2].ds = pendingDs
        /\ \A i \in 1..Len(todo) : todo'[i + 2] = todo[i]
        /\ \A i \in 1..Len(todo') :
             i \in {1, 2} \/ (i - 2 \in 1..Len(todo) /\ todo'[i] = todo[i - 2])
    BY <1>0, <2>1, <2>2, TwoBefore
  <2>4. ASSUME NEW d, DsIn(d) PROVE DsIn(d)'
    <3>1. ASSUME NEW i \in 1..Len(todo), d \in todo[i].ds PROVE DsIn(d)'
      <4>1. i + 2 \in 1..Len(todo') /\ d \in todo'[i + 2].ds
        BY <1>0, <2>3, <3>1
      <4> QED BY <4>1 DEF DsIn
    <3>2. ASSUME d \in pendingDs PROVE DsIn(d)'
      BY <1>0, <2>3, <3>2 DEF DsIn
    <3> QED BY <2>2, <2>4, <3>1, <3>2 DEF DsIn
  <2>5. ASSUME NEW d, DsIn(d)' PROVE DsIn(d)
    <3>1. ASSUME NEW i \in 1..Len(todo'), d \in todo'[i].ds PROVE DsIn(d)
      <4>1. CASE i \in {1, 2}
        BY <2>3, <3>1, <4>1 DEF DsIn
      <4>2. CASE i \notin {1, 2}
        <5>1. i - 2 \in 1..Len(todo) /\ todo'[i] = todo[i - 2]
          BY <1>0, <2>3, <4>2
        <5> QED BY <3>1, <5>1 DEF DsIn
      <4> QED BY <4>1, <4>2
    <3> QED BY <2>2, <2>5, <3>1 DEF DsIn
  <2> QED BY <2>4, <2>5
<1>3. CASE UNCHANGED <<todo, ds, pendingDs>>
  BY <1>3 DEF DsIn
<1> QED
  BY <1>1, <1>2, <1>3 DEF DsMoves, PopStack, PopLatest, NextClient, Exhausted, Integrate,
    Switch, GiveUp, Stash, Drained, MergePending, Return, store, picker, ghost, vars

LEMMA DeletesStep == TypeOK /\ DeletesInv /\ [Next]_vars => DeletesInv'
<1> SUFFICES ASSUME TypeOK, DeletesInv, [Next]_vars PROVE DeletesInv'
  OBVIOUS
<1>1. ASSUME NEW v \in Updates[deps], Call(v) PROVE DeletesInv'
  <2>1. Len(todo) = 0 /\ Len(todo') = 1 /\ todo'[1] = v
    BY <1>1 DEF Call, TypeOK
  <2>2. \A d : DsIn(d)' <=> DsIn(d) \/ d \in v.ds
    BY <1>1, <2>1 DEF Call, DsIn, store
  <2> QED BY <1>1, <2>2 DEF Call, DeletesInv, Waits, store
<1>2. CASE DsMoves
  <2>1. \A d : DsIn(d)' <=> DsIn(d)
    BY <1>2, DsMoved
  <2>2. CASE Begin
    BY <2>1, <2>2 DEF Begin, DeletesInv, store, ghost
  <2>3. CASE Retry \/ Return
    BY <2>1, <2>3 DEF Retry, Return, DeletesInv, Waits, store, ghost
  <2>4. CASE PopStack \/ PopLatest \/ NextClient \/ Exhausted \/ Switch \/ GiveUp \/ Stash
               \/ Drained
    BY <2>1, <2>4 DEF PopStack, PopLatest, NextClient, Exhausted, Switch, GiveUp, Stash,
      Drained, DeletesInv, store, picker, ghost
  <2>5. CASE Integrate
    BY <2>1, <2>5 DEF Integrate, DeletesInv, ghost
  <2>6. CASE MergePending \/ UNCHANGED vars
    BY <2>1, <2>6 DEF MergePending, DeletesInv, Waits, store, ghost, vars
  <2> QED BY <1>2, <2>2, <2>3, <2>4, <2>5, <2>6 DEF DsMoves
<1>3. CASE Fail
  <2>1. Len(todo') = 0 /\ ds' = {} /\ pendingDs' = pendingDs
    BY <1>3 DEF Fail, store
  <2>2. \A d : DsIn(d)' => DsIn(d)
    BY <2>1 DEF DsIn
  <2> QED BY <1>3, <2>2 DEF Fail, DeletesInv, store
<1>4. CASE ApplyDelete
  <2>1. /\ ds \ have \subseteq ds' /\ ds' \subseteq ds
        /\ ds' \subseteq have => ds' = {}
    BY <1>4, UnappliedFacts DEF ApplyDelete, TypeOK
  <2>2. \A d : DsIn(d)' => DsIn(d)
    BY <1>4, <2>1 DEF ApplyDelete, DsIn
  <2>3. \A d : DsIn(d) => DsIn(d)' \/ d \in deleted'
    BY <1>4, <2>1 DEF ApplyDelete, DsIn
  <2>4. \A d \in ds : DsIn(d)
    BY DEF DsIn
  <2>5. Waits(ds)'
    BY <1>4, <2>1 DEF ApplyDelete, Waits
  <2> QED BY <1>4, <2>2, <2>3, <2>4, <2>5 DEF ApplyDelete, DeletesInv, ghost
<1>5. CASE ApplyPendingDs
  <2> DEFINE left == Unapplied(pendingDs)
  <2>1. /\ pendingDs \ have \subseteq left /\ left \subseteq pendingDs
        /\ left \subseteq have => left = {}
    BY UnappliedFacts DEF TypeOK
  <2>2. /\ pendingDs' = left \cup ds /\ ds' = {}
        /\ UNCHANGED <<have, todo>> /\ deleted' = deleted \cup (pendingDs \cap have)
    BY <1>5 DEF ApplyPendingDs
  <2> HIDE DEF left
  <2>3. \A d : DsIn(d)' => DsIn(d)
    BY <2>1, <2>2 DEF DsIn
  <2>4. \A d : DsIn(d) => DsIn(d)' \/ d \in deleted'
    BY <2>1, <2>2 DEF DsIn
  <2>5. \A d \in pendingDs : DsIn(d)
    BY DEF DsIn
  <2>6. Waits(ds)
    BY <1>5 DEF ApplyPendingDs, DeletesInv
  <2>7. Waits(pendingDs)'
    BY <2>1, <2>2, <2>6 DEF Waits
  <2> QED BY <1>5, <2>2, <2>3, <2>4, <2>5, <2>7 DEF ApplyPendingDs, DeletesInv, ghost
<1> QED
  BY <1>1, <1>2, <1>3, <1>4, <1>5 DEF Next, Step, DsMoves

(***************************************************************************)
(* The theorems.                                                           *)
(***************************************************************************)
Inv ==
  /\ TypeOK /\ DepsIntegrated /\ StashedOnce /\ PickerOwned /\ NothingLost
  /\ DeletesInv

LEMMA InvInit == Init => Inv
<1> SUFFICES ASSUME Init PROVE Inv
  OBVIOUS
<1>1. TypeOK
  BY TypeInit
<1>2. Len(stack) = 0 /\ Len(todo) = 0
  BY DEF Init
<1>3. DepsIntegrated /\ NothingLost
  BY DEF Init, DepsIntegrated, NothingLost
<1>4. StashedOnce /\ PickerOwned
  BY <1>2 DEF Init, StashedOnce, PickerOwned
<1>5. DeletesInv
  BY <1>2 DEF Init, DeletesInv, DsIn, Waits
<1> QED BY <1>1, <1>3, <1>4, <1>5 DEF Inv

LEMMA InvStep == Inv /\ [Next]_vars => Inv'
BY TypeStep, DepsStep, PickerInv, LostStep, DeletesStep DEF Inv

\* The inductive invariant, of which every invariant below is a part.
THEOREM Invariance == Spec => []Inv
<1>1. Init => Inv
  BY InvInit
<1>2. Inv /\ [Next]_vars => Inv'
  BY InvStep
<1> QED BY <1>1, <1>2, PTL DEF Spec

\* Type correctness of Update::integrate, its picker and the store's parking places.
THEOREM TypeCorrect == Spec => []TypeOK
<1>1. Inv => TypeOK
  BY DEF Inv
<1> QED BY <1>1, Invariance, PTL

\* Update::integrate puts no block in the store before what it was created from,
\* for every history, every order of updates and every jump of the picker.
THEOREM DependenciesFirst == Spec => []DepsIntegrated
<1>1. Inv => DepsIntegrated
  BY DEF Inv
<1> QED BY <1>1, Invariance, PTL

\* The picker never has two blocks of one client on its stack, and a client it has
\* given up on does not come back: draining the stack overwrites nothing.
THEOREM StackOncePerClient == Spec => []StashedOnce
<1>1. Inv => StashedOnce
  BY DEF Inv
<1> QED BY <1>1, Invariance, PTL

\* Every queue of the picker has an owner, and nothing is left in it when it returns.
THEOREM PickerEmptied == Spec => []PickerOwned
<1>1. Inv => PickerOwned
  BY DEF Inv
<1> QED BY <1>1, Invariance, PTL

\* No block given to apply_update is lost, unless a call returns an error.
THEOREM NoBlockLost == Spec => []NothingLost
<1>1. Inv => NothingLost
  BY DEF Inv
<1> QED BY <1>1, Invariance, PTL

\* Between calls, the deletes received are in effect if and only if their block is in
\* the store, and parked in pending_ds if it is not.
THEOREM DeletesAreSettled == Spec => []DeletesSettled
<1>1. Inv => DeletesSettled
  <2> SUFFICES ASSUME Inv, pc = "idle", ~failed
               PROVE  /\ deleted = deliveredDs \cap have
                      /\ deliveredDs \ have \subseteq pendingDs /\ pendingDs \subseteq deliveredDs
                      /\ deliveredDs \subseteq have => pendingDs = {}
    BY DEF DeletesSettled
  <2>1. Len(todo) = 0
    BY DEF Inv, TypeOK
  <2>2. \A d : DsIn(d) <=> d \in pendingDs
    BY <2>1 DEF DsIn, Inv, DeletesInv
  <2> QED BY <2>2 DEF Inv, DeletesInv, Waits
<1> QED BY <1>1, Invariance, PTL

(***************************************************************************)
(* No pending block is stranded while the blocks of each client come in    *)
(* their order.  Of the pending blocks one waits for a block that was not  *)
(* given yet, of a client that pendingMissing names, so that the call that *)
(* brings it retries; or nothing is pending, and the running call looks at *)
(* all that is not in the store.  When it gives up for the first time it   *)
(* is for such a block: the blocks that wait on the stack, each of which   *)
(* depends on the next one's client from there on, are a chain, and no     *)
(* history goes round in a circle.                                         *)
(***************************************************************************)
\* u waits for a block that was not given yet, of a client of which sv knows a clock
WaitsFor(u, sv) == \E v \in Range(deps[u]) \ delivered : sv[v.client] # NoClock

\* a depends on a block of b's client, b or a later one
LeadsTo(a, b) == \E v \in Range(deps[a]) : v.client = b.client /\ b.clock <= v.clock

Passing == pc \in {"next", "try", "drain", "deletes", "merge"}
Stacked == {stack[i] : i \in 1..Len(stack)}

\* blocks of a client leave its queue in order, each block on the stack leads to the one above
\* it or to the block in hand, and the lowest one is of the client being read
FrontsTaken == \A u \in Stacked \cup {head} : \A v \in Queued : v.client = u.client => u.clock < v.clock
Chained ==
  /\ FrontsTaken
  /\ \A i, j \in 1..Len(stack) : j = i + 1 => LeadsTo(stack[i], stack[j])
  /\ pc = "try" /\ stack # <<>> => LeadsTo(stack[Len(stack)], head)
  /\ stack # <<>> => stack[1].client = latest
  /\ pc = "try" /\ stack = <<>> => head.client = latest

\* nothing was given up on, or one of what was waits for a block that was not given
PassSound ==
  \/ pc # "drain" /\ Stashed = {} /\ Chained
  \/ \E u \in Stashed : WaitsFor(u, missing)
  \/ pc = "drain" /\ \E u \in Stacked : WaitsFor(u, missing)

\* the update to be looked at next brings what a pending block waits for
Brings(update) ==
  \E u \in pendingBlocks : \E v \in Range(deps[u]) \cap update.blocks :
    pendingMissing[v.client] # NoClock

PendingWaits == \E u \in pendingBlocks : WaitsFor(u, pendingMissing)

\* everything was given, and what is still to be applied is in the first update
GivenInv ==
  /\ \A u \in Units : Located(u) => u \in delivered
  /\ \A i \in 1..Len(todo) : (i = 1 /\ pc = "begin") \/ todo[i].blocks = {}
  /\ ordered => NoGap(delivered)

StrandedInv ==
  ordered /\ ~failed =>
    \/ PendingWaits
    \/ pendingBlocks # {} /\ pc = "begin" /\ Brings(Head(todo))
    \/ pendingBlocks # {} /\ pc \notin {"idle", "begin"} /\ retry
    \/ pendingBlocks = {} /\ (Passing => PassSound)

\* A block is where it was, unless a call has just brought it.
LEMMA BroughtNow ==
  ASSUME TypeOK, [Next]_vars, NEW u \in Units, Located(u)'
  PROVE  Located(u) \/ \E v \in Updates[deps] : Call(v) /\ u \in v.blocks
<1>0. stack \in Seq(Units) /\ Len(stack) \in Nat /\ todo \in Seq(Update) /\ Len(todo) \in Nat
  BY DEF TypeOK
<1>u. u # NoUnit
  BY NoUnitIsNoUnit
<1>1. ASSUME NEW v \in Updates[deps], Call(v) PROVE Located(u) \/ u \in v.blocks
  <2>1. Len(todo') = 1 /\ todo'[1] = v
    BY <1>1 DEF Call
  <2>2. UNCHANGED <<have, pendingBlocks, head, queue, unapplicable, stack>>
    BY <1>1 DEF Call, store, picker
  <2> QED BY <2>1, <2>2 DEF Located
<1>2. CASE Begin
  <2>1. /\ Len(todo') = Len(todo) - 1
        /\ \A i \in 1..Len(todo') : todo'[i] = todo[i + 1]
        /\ Head(todo) = todo[1] /\ 1 \in 1..Len(todo)
    BY <1>0, <1>2, HeadTailProperties DEF Begin, TypeOK
  <2>2. ASSUME NEW c \in Clients, u \in queue'[c] PROVE Located(u)
    <3>1. u \in todo[1].blocks
      BY <1>2, <2>1, <2>2 DEF Begin, Of
    <3> QED BY <2>1, <3>1 DEF Located
  <2>3. ASSUME NEW i \in 1..Len(todo'), u \in todo'[i].blocks PROVE Located(u)
    <3>1. i + 1 \in 1..Len(todo) /\ todo'[i] = todo[i + 1]
      BY <1>0, <2>1
    <3> QED BY <2>3, <3>1 DEF Located
  <2>4. UNCHANGED <<have, pendingBlocks, head, unapplicable, stack>>
    BY <1>2 DEF Begin, store
  <2> QED BY <2>2, <2>3, <2>4 DEF Located
<1>3. CASE PopStack
  <2>1. /\ Len(stack') = Len(stack) - 1 /\ Len(stack) \in 1..Len(stack)
        /\ \A i \in 1..Len(stack') : i \in 1..Len(stack) /\ stack'[i] = stack[i]
    BY <1>0, <1>3, PopStackFacts DEF PopStack
  <2>2. head' = stack[Len(stack)]
    BY <1>3 DEF PopStack
  <2>3. UNCHANGED <<have, pendingBlocks, queue, unapplicable, todo>>
    BY <1>3 DEF PopStack, store
  <2> QED BY <2>1, <2>2, <2>3 DEF Located
<1>4. CASE PopLatest
  <2>1. latest \in Clients /\ PopFront(latest)
    BY <1>4 DEF PopLatest, TypeOK
  <2>2. UNCHANGED <<have, pendingBlocks, stack, unapplicable, todo>>
    BY <1>4 DEF PopLatest, store
  <2>3. \A c \in Clients : u \in queue'[c] => u \in queue[c]
    BY <2>1, PopFrontFacts
  <2>4. head' \in queue[latest]
    BY <2>1, PopFrontFacts
  <2> QED BY <2>1, <2>2, <2>3, <2>4 DEF Located
<1>5. CASE NextClient
  BY <1>5 DEF NextClient, store, Located
<1>6. CASE Exhausted
  BY <1>6 DEF Exhausted, store, picker, Located
<1>7. CASE Integrate
  BY <1>u, <1>7 DEF Integrate, Located
<1>8. CASE Switch
  <2>1. PICK c \in Clients : PopFront(c)
    BY <1>8 DEF Switch
  <2>2. head' \in queue[c] /\ \A d \in Clients : u \in queue'[d] => u \in queue[d]
    BY <2>1, PopFrontFacts
  <2>3. /\ Len(stack') = Len(stack) + 1 /\ stack'[Len(stack) + 1] = head
        /\ \A i \in 1..Len(stack) : stack'[i] = stack[i]
    BY <1>0, <1>8, AppendProperties DEF Switch, TypeOK
  <2>4. UNCHANGED <<have, pendingBlocks, unapplicable, todo>>
    BY <1>8 DEF Switch, store
  <2>5. ASSUME NEW i \in 1..Len(stack'), stack'[i] = u PROVE Located(u)
    <3>1. i \in 1..Len(stack) \/ i = Len(stack) + 1
      BY <1>0, <2>3
    <3> QED BY <2>3, <2>5, <3>1 DEF Located
  <2> QED BY <2>1, <2>2, <2>4, <2>5 DEF Located
<1>9. CASE GiveUp
  <2>1. /\ Len(stack') = Len(stack) + 1 /\ stack'[Len(stack) + 1] = head
        /\ \A i \in 1..Len(stack) : stack'[i] = stack[i]
    BY <1>0, <1>9, AppendProperties DEF GiveUp, TypeOK
  <2>2. UNCHANGED <<have, pendingBlocks, queue, unapplicable, todo>> /\ head' = NoUnit
    BY <1>9 DEF GiveUp, store
  <2>3. ASSUME NEW i \in 1..Len(stack'), stack'[i] = u PROVE Located(u)
    <3>1. i \in 1..Len(stack) \/ i = Len(stack) + 1
      BY <1>0, <2>1
    <3> QED BY <2>1, <2>3, <3>1 DEF Located
  <2> QED BY <1>u, <2>2, <2>3 DEF Located
<1>10. CASE Stash
  <2>1. /\ Len(stack') = Len(stack) - 1
        /\ \A i \in 1..Len(stack') : stack'[i] = stack[i + 1] /\ i + 1 \in 1..Len(stack)
        /\ Head(stack) = stack[1] /\ 1 \in 1..Len(stack)
    BY <1>0, <1>10, HeadTailProperties DEF Stash
  <2> DEFINE c == stack[1].client
  <2>2. c \in Clients
    BY <1>0, <2>1, NoUnitIsNoUnit
  <2>3. /\ unapplicable' = [unapplicable EXCEPT ![c] = {stack[1]} \cup queue[c]]
        /\ queue' = [queue EXCEPT ![c] = {}]
        /\ UNCHANGED <<have, pendingBlocks, head, todo>>
    BY <1>10, <2>1 DEF Stash, store
  <2>4. ASSUME NEW d \in Clients, u \in queue'[d] \/ u \in unapplicable'[d]
        PROVE  u \in queue[d] \/ u \in unapplicable[d] \/ u = stack[1]
    BY <2>2, <2>3, <2>4 DEF TypeOK
  <2> QED BY <2>1, <2>3, <2>4 DEF Located
<1>11. CASE Drained
  BY <1>11 DEF Drained, store, picker, Located
<1>12. CASE ApplyDelete
  BY <1>12 DEF ApplyDelete, picker, Located
<1>13. CASE MergePending
  <2>1. /\ \A c \in Clients : queue'[c] = {} /\ unapplicable'[c] = {}
        /\ Len(stack') = 0 /\ head' = NoUnit /\ UNCHANGED <<have, todo>>
    BY <1>13 DEF MergePending, EmptyPicker
  <2>2. pendingBlocks' \subseteq pendingBlocks \cup Stashed
    BY <1>13 DEF MergePending
  <2> QED BY <1>u, <2>1, <2>2 DEF Located, Stashed
<1>14. CASE ApplyPendingDs
  BY <1>14 DEF ApplyPendingDs, picker, Located
<1>15. CASE Retry
  <2> DEFINE two == <<[blocks |-> pendingBlocks, ds |-> {}], [blocks |-> {}, ds |-> pendingDs]>>
  <2>1. /\ two \in Seq(Update) /\ Len(two) = 2
        /\ two[1].blocks = pendingBlocks /\ two[2].blocks = {}
    BY DEF Update, TypeOK
  <2>2. todo' = two \o todo /\ UNCHANGED <<have, picker>> /\ pendingBlocks' = {}
    BY <1>15 DEF Retry
  <2> HIDE DEF two
  <2>3. /\ todo'[1].blocks = pendingBlocks /\ todo'[2].blocks = {}
        /\ \A i \in 1..Len(todo') :
             i \in {1, 2} \/ (i - 2 \in 1..Len(todo) /\ todo'[i] = todo[i - 2])
    BY <1>0, <2>1, <2>2, TwoBefore
  <2>4. ASSUME NEW i \in 1..Len(todo'), u \in todo'[i].blocks PROVE Located(u)
    <3>1. CASE i \in {1, 2}
      BY <2>3, <2>4, <3>1 DEF Located
    <3>2. CASE i \notin {1, 2}
      BY <2>3, <2>4, <3>2 DEF Located
    <3> QED BY <3>1, <3>2
  <2> QED BY <2>2, <2>4 DEF Located, picker
<1>16. CASE Return
  BY <1>16 DEF Return, store, picker, Located
<1>17. CASE UNCHANGED vars
  BY <1>17 DEF vars, store, picker, Located
<1>18. CASE Fail
  <2>1. /\ \A c \in Clients : queue'[c] = {} /\ unapplicable'[c] = {}
        /\ Len(stack') = 0 /\ head' = NoUnit /\ UNCHANGED <<have, pendingBlocks>>
        /\ Len(todo') = 0
    BY <1>18 DEF Fail, EmptyPicker, store
  <2> QED BY <1>u, <2>1 DEF Located
<1> QED
  BY <1>1, <1>2, <1>3, <1>4, <1>5, <1>6, <1>7, <1>8, <1>9, <1>10, <1>11, <1>12,
     <1>13, <1>14, <1>15, <1>16, <1>17, <1>18 DEF Next, Step

\* Todo's later updates have no blocks, and what is known was given.
LEMMA GivenStep ==
  ASSUME TypeOK, GivenInv, [Next]_vars
  PROVE  GivenInv'
<1>0. todo \in Seq(Update) /\ Len(todo) \in Nat
  BY DEF TypeOK
<1>1. delivered \subseteq delivered' /\ \A v \in Updates[deps] : Call(v) => v.blocks \subseteq delivered'
  BY DEF Next, Step, Call, Begin, PopStack, PopLatest, NextClient, Exhausted, Integrate, Fail,
    Switch, GiveUp, Stash, Drained, ApplyDelete, MergePending, ApplyPendingDs, Retry, Return,
    ghost, vars
<1>2. (\A u \in Units : Located(u) => u \in delivered)'
  <2> SUFFICES ASSUME NEW u \in Units, Located(u)' PROVE u \in delivered'
    OBVIOUS
  <2> QED BY <1>1, BroughtNow DEF GivenInv
<1>3. (ordered => NoGap(delivered))'
  <2>1. ASSUME NEW v \in Updates[deps], Call(v) PROVE (ordered => NoGap(delivered))'
    BY <2>1 DEF Call, NoGap
  <2>2. UNCHANGED <<ordered, delivered>> \/ \E v \in Updates[deps] : Call(v)
    BY DEF Next, Step, Begin, PopStack, PopLatest, NextClient, Exhausted, Integrate, Fail,
      Switch, GiveUp, Stash, Drained, ApplyDelete, MergePending, ApplyPendingDs, Retry, Return,
      ghost, vars
  <2> QED BY <2>1, <2>2 DEF GivenInv, NoGap
<1>4. (\A i \in 1..Len(todo) : (i = 1 /\ pc = "begin") \/ todo[i].blocks = {})'
  <2>1. ASSUME NEW v \in Updates[deps], Call(v) PROVE Len(todo') = 1 /\ pc' = "begin"
    BY <2>1 DEF Call
  <2>2. CASE Begin
    <3>1. /\ Len(todo') = Len(todo) - 1
          /\ \A i \in 1..Len(todo') : todo'[i] = todo[i + 1]
      BY <1>0, <2>2, HeadTailProperties DEF Begin, TypeOK
    <3>2. \A i \in 1..Len(todo') : i + 1 \in 1..Len(todo) /\ i + 1 # 1
      BY <1>0, <3>1
    <3> QED BY <3>1, <3>2 DEF GivenInv
  <2>3. CASE Retry
    <3> DEFINE two == <<[blocks |-> pendingBlocks, ds |-> {}], [blocks |-> {}, ds |-> pendingDs]>>
    <3>1. two \in Seq(Update) /\ Len(two) = 2 /\ two[2].blocks = {}
      BY DEF Update, TypeOK
    <3>2. todo' = two \o todo /\ pc' = "begin" /\ pc = "return"
      BY <2>3 DEF Retry
    <3> HIDE DEF two
    <3>3. /\ todo'[2].blocks = {}
          /\ \A i \in 1..Len(todo') :
               i \in {1, 2} \/ (i - 2 \in 1..Len(todo) /\ todo'[i] = todo[i - 2])
      BY <1>0, <3>1, <3>2, TwoBefore
    <3>4. ASSUME NEW i \in 1..Len(todo'), i # 1 PROVE todo'[i].blocks = {}
      BY <3>2, <3>3, <3>4 DEF GivenInv
    <3> QED BY <3>2, <3>4
  <2>4. CASE Fail
    BY <2>4 DEF Fail
  <2>5. CASE todo' = todo /\ pc # "begin"
    BY <2>5 DEF GivenInv
  <2>6. CASE todo' = todo /\ pc' = pc
    BY <2>6 DEF GivenInv
  <2>7. Retry \/ Fail \/ Begin \/ (\E v \in Updates[deps] : Call(v))
          \/ (todo' = todo /\ pc # "begin") \/ (todo' = todo /\ pc' = pc)
    BY DEF Next, Step, PopStack, PopLatest, NextClient, Exhausted, Integrate,
      Switch, GiveUp, Stash, Drained, ApplyDelete, MergePending, ApplyPendingDs, Return, vars
  <2> QED BY <2>1, <2>2, <2>3, <2>4, <2>5, <2>6, <2>7
<1> QED BY <1>2, <1>3, <1>4 DEF GivenInv

\* A chain of blocks each of which leads to the next does not come back to a client it has
\* been at: a history has no circle.
LEMMA NoCircle ==
  ASSUME NEW dep \in Histories, NEW chain \in Seq(Units), NEW j \in 1..Len(chain),
         \A i, k \in 1..Len(chain) : k = i + 1 =>
           \E v \in Range(dep[chain[i]]) : v.client = chain[k].client /\ chain[k].clock <= v.clock,
         NEW w \in Range(dep[chain[Len(chain)]]), w.client = chain[j].client,
         chain[j].clock <= w.clock
  PROVE  FALSE
<1> DEFINE n == Len(chain)
           S == {x \in Units : \E i \in j..n : x.client = chain[i].client /\ chain[i].clock <= x.clock}
<1>0. n \in Nat /\ j \in 1..n /\ \A i \in j..n : i \in 1..n
  OBVIOUS
<1>1. \A i \in 1..n : chain[i] \in Units
  OBVIOUS
<1>2. \A x \in Units : Range(dep[x]) \subseteq Units
  <2>1. dep \in [Units -> Seq(Units)]
    BY HistoriesAssumption
  <2> QED BY <2>1 DEF Range
<1>3. \A x \in Units : x.clock \in Int /\ x = [client |-> x.client, clock |-> x.clock]
  BY UnitsAssumption, MaxClockAssumption DEF Clocks
<1>4. \A i \in j..n : chain[i] \in S
  <2> SUFFICES ASSUME NEW i \in j..n PROVE chain[i] \in S
    OBVIOUS
  <2>1. chain[i] \in Units /\ chain[i].clock <= chain[i].clock
    BY <1>0, <1>1, <1>3
  <2> QED BY <2>1
<1>5. \A i \in j..n : \E v \in Range(dep[chain[i]]) : v \in S
  <2> SUFFICES ASSUME NEW i \in j..n PROVE \E v \in Range(dep[chain[i]]) : v \in S
    OBVIOUS
  <2>1. CASE i = n
    <3>1. w \in S
      <4>1. w \in Units /\ j \in j..n
        BY <1>0, <1>1, <1>2
      <4> QED BY <4>1
    <3> QED BY <2>1, <3>1
  <2>2. CASE i # n
    <3>1. i + 1 \in j..n /\ i + 1 \in 1..n /\ i \in 1..n
      BY <1>0, <2>2
    <3>2. PICK v \in Range(dep[chain[i]]) :
            v.client = chain[i + 1].client /\ chain[i + 1].clock <= v.clock
      BY <3>1
    <3>3. v \in Units
      BY <1>1, <1>2, <3>1
    <3> QED BY <3>1, <3>2, <3>3
  <2> QED BY <2>1, <2>2
<1>6. S \in SUBSET Units /\ S # {}
  BY <1>0, <1>4
<1>7. PICK x \in S : \A v \in S : v \notin Range(dep[x]) /\ ~(v.client = x.client /\ v.clock < x.clock)
  BY <1>6, HistoriesAssumption DEF Causal
<1>8. PICK i \in j..n : x.client = chain[i].client /\ chain[i].clock <= x.clock
  OBVIOUS
<1>9. chain[i] \in S /\ chain[i] \in Units /\ x \in Units
  BY <1>0, <1>1, <1>4
<1> HIDE DEF S
<1>10. ~(chain[i].clock < x.clock)
  BY <1>7, <1>8, <1>9
<1>11. x.clock = chain[i].clock
  BY <1>3, <1>8, <1>9, <1>10
<1>12. x = chain[i]
  BY <1>3, <1>8, <1>9, <1>11
<1> QED BY <1>5, <1>7, <1>12

\* What a block in hand depends on is of no client on the chain, unless of an earlier clock.
LEMMA OffTheChain ==
  ASSUME TypeOK, Chained, pc = "try", NEW w \in Range(deps[head]),
         NEW u \in Stacked \cup {head}, u.client = w.client, u.clock <= w.clock
  PROVE  FALSE
<1> DEFINE chain == Append(stack, head)
<1>0. stack \in Seq(Units) /\ Len(stack) \in Nat /\ head \in Units /\ deps \in Histories
  BY DEF TypeOK
<1>1. /\ chain \in Seq(Units) /\ Len(chain) = Len(stack) + 1 /\ chain[Len(stack) + 1] = head
      /\ \A i \in 1..Len(stack) : chain[i] = stack[i]
  BY <1>0, AppendProperties
<1> HIDE DEF chain
<1>2. ASSUME NEW i \in 1..Len(chain), NEW k \in 1..Len(chain), k = i + 1
      PROVE  LeadsTo(chain[i], chain[k])
  <2>1. i \in 1..Len(stack) /\ chain[i] = stack[i]
    BY <1>0, <1>1, <1>2
  <2>2. CASE k = Len(stack) + 1
    <3>1. i = Len(stack) /\ stack # <<>>
      BY <1>0, <1>2, <2>1, <2>2
    <3> QED BY <1>1, <2>1, <2>2, <3>1 DEF Chained
  <2>3. CASE k # Len(stack) + 1
    <3>1. k \in 1..Len(stack)
      BY <1>0, <1>1, <2>3
    <3> QED BY <1>1, <1>2, <2>1, <3>1 DEF Chained
  <2> QED BY <2>2, <2>3
<1>3. PICK j \in 1..Len(chain) : u = chain[j]
  <2>1. CASE u = head
    <3>1. Len(stack) + 1 \in 1..Len(chain)
      BY <1>0, <1>1
    <3> QED BY <1>1, <2>1, <3>1
  <2>2. CASE u \in Stacked
    <3>1. PICK i \in 1..Len(stack) : u = stack[i]
      BY <2>2 DEF Stacked
    <3>2. i \in 1..Len(chain)
      BY <1>0, <1>1, <3>1
    <3> QED BY <1>1, <3>1, <3>2
  <2> QED BY <2>1, <2>2
<1>4. w \in Range(deps[chain[Len(chain)]])
  BY <1>1
<1>5. /\ deps \in Histories /\ chain \in Seq(Units) /\ j \in 1..Len(chain)
      /\ w.client = chain[j].client /\ chain[j].clock <= w.clock
      /\ \A i, k \in 1..Len(chain) : k = i + 1 =>
           \E v \in Range(deps[chain[i]]) : v.client = chain[k].client /\ chain[k].clock <= v.clock
  BY <1>0, <1>1, <1>2, <1>3 DEF LeadsTo
<1> QED BY <1>4, <1>5, NoCircle

\* While nothing was given up on, a block that was given and is not in the store is in the
\* picker, when nothing is pending.
LEMMA StillInPicker ==
  ASSUME TypeOK, NothingLost, GivenInv, ~failed, pendingBlocks = {}, Stashed = {}, pc = "try",
         NEW v \in Units, v \in delivered, v \notin have
  PROVE  v \in Stacked \cup {head} \/ v \in queue[v.client]
<1>1. Located(v)
  BY LocatedIsKept DEF NothingLost, KeptIfLocated
<1>2. \A i \in 1..Len(todo) : v \notin todo[i].blocks
  BY DEF GivenInv
<1>3. \A c \in Clients : v \in queue[c] => v.client = c
  BY DEF TypeOK, Of
<1>4. \A c \in Clients : v \notin unapplicable[c]
  BY DEF Stashed
<1> QED BY <1>1, <1>2, <1>3, <1>4 DEF Located, Stacked

\* The dependency of the block in hand that Absent finds first.
LEMMA FirstAbsentFacts ==
  ASSUME TypeOK, pc = "try", NEW c, FirstAbsent(head, c)
  PROVE  \E v \in Range(deps[head]) : v.client = c /\ v \in Units /\ v \notin have
<1>1. head \in Units /\ deps[head] \in Seq(Units)
  BY HistoriesAssumption DEF TypeOK
<1>2. PICK i \in Absent(head) : deps[head][i].client = c
  BY DEF FirstAbsent
<1>3. i \in 1..Len(deps[head]) /\ deps[head][i] \notin have
  BY <1>2 DEF Absent
<1>4. deps[head][i] \in Range(deps[head]) /\ deps[head][i] \in Units
  BY <1>1, <1>3 DEF Range
<1> QED BY <1>2, <1>3, <1>4

\* When the picker gives up for the first time, what the block waits for was not given.
LEMMA GiveUpPasses ==
  ASSUME TypeOK, NothingLost, GivenInv, ~failed, pendingBlocks = {}, Stashed = {}, Chained,
         GiveUp
  PROVE  PassSound'
<1>0. stack \in Seq(Units) /\ Len(stack) \in Nat /\ head \in Units /\ pc = "try"
  BY DEF TypeOK, GiveUp
<1>1. PICK c \in Clients :
        FirstAbsent(head, c) /\ ~CanSwitch(c) /\ missing' = SetMin(missing, c, GetClock(c))
  BY DEF GiveUp
<1>2. PICK v \in Range(deps[head]) : v.client = c /\ v \in Units /\ v \notin have
  BY <1>0, <1>1, FirstAbsentFacts
<1>3. \A x \in Units : x.clock \in Int
  BY UnitsAssumption, MaxClockAssumption DEF Clocks
<1>4. Stacked \subseteq Units
  BY <1>0 DEF Stacked
<1>5. v \notin delivered
  <2> SUFFICES ASSUME v \in delivered PROVE FALSE
    OBVIOUS
  <2>1. v \notin Stacked \cup {head}
    <3>1. v.clock <= v.clock
      BY <1>2, <1>3
    <3> QED BY <1>0, <3>1, OffTheChain
  <2>2. v \in queue[c]
    BY <1>0, <1>2, <2>1, StillInPicker
  <2>3. \E u \in Stacked \cup {head} : u.client = c
    <3>1. c = latest \/ c = head.client \/ OnStack(c)
      BY <1>1, <2>2 DEF CanSwitch
    <3>2. CASE c = latest
      <4>1. CASE stack = <<>>
        BY <1>0, <3>2, <4>1 DEF Chained
      <4>2. CASE stack # <<>>
        <5>1. 1 \in 1..Len(stack)
          BY <1>0, <4>2
        <5> QED BY <3>2, <4>2, <5>1 DEF Chained, Stacked
      <4> QED BY <4>1, <4>2
    <3> QED BY <3>1, <3>2 DEF OnStack, Stacked
  <2>4. PICK u \in Stacked \cup {head} : u.client = c
    BY <2>3
  <2>5. u.clock < v.clock
    BY <1>2, <2>2, <2>4 DEF Chained, FrontsTaken, Queued
  <2>6. u.clock <= v.clock
    BY <1>0, <1>2, <1>3, <1>4, <2>5
  <2> QED BY <1>0, <1>2, <2>4, <2>6, OffTheChain
<1>6. missing'[c] # NoClock
  <2>1. GetClock(c) \in 0..(MaxClock + 1)
    BY GetClockType DEF TypeOK
  <2>2. GetClock(c) # NoClock
    BY <2>1, MaxClockAssumption DEF NoClock
  <2>3. missing \in [Clients -> ClockOrNone]
    BY DEF TypeOK
  <2> QED BY <1>1, <2>2, <2>3 DEF SetMin
<1>7. PICK h : h = head
  OBVIOUS
<1>8. h \in Stacked'
  <2>1. stack' = Append(stack, head)
    BY DEF GiveUp
  <2>2. Len(stack') = Len(stack) + 1 /\ stack'[Len(stack) + 1] = head
    BY <1>0, <2>1
  <2>3. Len(stack) + 1 \in 1..Len(stack')
    BY <1>0, <2>2
  <2> QED BY <1>7, <2>2, <2>3 DEF Stacked
<1>9. pc' = "drain" /\ deps' = deps /\ delivered' = delivered
  BY DEF GiveUp, ghost
<1>10. WaitsFor(h, missing)'
  BY <1>2, <1>5, <1>6, <1>7, <1>9 DEF WaitsFor
<1> QED BY <1>8, <1>9, <1>10 DEF PassSound

\* The picker goes after a block that leads on.
LEMMA SwitchPasses ==
  ASSUME TypeOK, NothingLost, GivenInv, ordered, ~failed, pendingBlocks = {}, Stashed = {},
         Chained, Switch
  PROVE  Chained'
<1>0. stack \in Seq(Units) /\ Len(stack) \in Nat /\ head \in Units /\ pc = "try"
  BY DEF TypeOK, Switch
<1>1. PICK c \in Clients : FirstAbsent(head, c) /\ CanSwitch(c) /\ PopFront(c)
  BY DEF Switch
<1>2. /\ head' \in queue[c] /\ head'.client = c /\ queue'[c] = queue[c] \ {head'}
      /\ \A d \in Clients : d # c => queue'[d] = queue[d]
      /\ \A v \in queue[c] : head'.clock <= v.clock
  BY <1>1, PopFrontFacts DEF PopFront
<1>3. \A x \in Units : x.clock \in Int /\ x = [client |-> x.client, clock |-> x.clock]
  BY UnitsAssumption, MaxClockAssumption DEF Clocks
<1>4. /\ queue \in [Clients -> SUBSET Units] /\ head' \in Units
      /\ \A d \in Clients : \A v \in queue[d] : v.client = d
  BY <1>2 DEF TypeOK, Of
<1>5. /\ stack' = Append(stack, head) /\ pc' = "try"
      /\ deps' = deps /\ latest' = latest
  BY DEF Switch
<1>6. /\ Len(stack') = Len(stack) + 1 /\ stack'[Len(stack) + 1] = head
      /\ \A i \in 1..Len(stack) : stack'[i] = stack[i]
  BY <1>0, <1>5
<1>7. PICK v \in Range(deps[head]) : v.client = c /\ v \in Units /\ v \notin have
  BY <1>0, <1>1, FirstAbsentFacts
<1>8. head'.clock <= v.clock
  <2>1. CASE v \in delivered
    <3>1. v \notin Stacked \cup {head}
      BY <1>1, <1>7 DEF CanSwitch, OnStack, Stacked
    <3> QED BY <1>0, <1>2, <1>7, <2>1, <3>1, StillInPicker
  <2>2. CASE v \notin delivered
    <3>1. Located(head')
      BY <1>2 DEF Located
    <3>2. head' \in delivered /\ NoGap(delivered)
      BY <1>4, <3>1 DEF GivenInv
    <3>3. ~(v.clock < head'.clock)
      BY <1>2, <1>7, <2>2, <3>2 DEF NoGap
    <3> QED BY <1>3, <1>4, <1>7, <3>3
  <2> QED BY <2>1, <2>2
<1>9. FrontsTaken'
  <2>1. Stacked' \cup {head'} \subseteq Stacked \cup {head, head'}
    <3>1. \A i \in 1..Len(stack') : i \in 1..Len(stack) \/ i = Len(stack) + 1
      BY <1>0, <1>6
    <3> QED BY <1>6, <3>1 DEF Stacked
  <2>2. Queued' \subseteq Queued
    BY <1>2 DEF Queued
  <2>3. ASSUME NEW x \in Queued', x.client = head'.client PROVE head'.clock < x.clock
    <3>1. x \in queue[c] \ {head'}
      <4>1. PICK d \in Clients : x \in queue'[d]
        BY <2>3 DEF Queued
      <4>2. x \in queue[d]
        BY <1>2, <4>1
      <4>3. d = c
        BY <1>2, <1>4, <2>3, <4>2
      <4> QED BY <1>2, <4>1, <4>3
    <3>2. x \in Units /\ head'.clock <= x.clock /\ x # head'
      BY <1>2, <1>4, <3>1
    <3> QED BY <1>3, <1>4, <2>3, <3>2
  <2> QED BY <2>1, <2>2, <2>3 DEF Chained, FrontsTaken
<1>10. LeadsTo(head, head')
  BY <1>2, <1>5, <1>7, <1>8 DEF LeadsTo
<1>11. (\A i, j \in 1..Len(stack) : j = i + 1 => LeadsTo(stack[i], stack[j]))'
  <2> SUFFICES ASSUME NEW i \in 1..Len(stack'), NEW j \in 1..Len(stack'), j = i + 1
               PROVE  LeadsTo(stack[i], stack[j])'
    OBVIOUS
  <2>1. i \in 1..Len(stack) /\ stack'[i] = stack[i]
    BY <1>0, <1>6
  <2>2. LeadsTo(stack[i], stack'[j])
    <3>1. CASE j = Len(stack) + 1
      <4>1. i = Len(stack) /\ stack # <<>> /\ stack'[j] = head
        BY <1>0, <1>6, <2>1, <3>1
      <4> QED BY <1>0, <4>1 DEF Chained
    <3>2. CASE j # Len(stack) + 1
      <4>1. j \in 1..Len(stack) /\ stack'[j] = stack[j]
        BY <1>0, <1>6, <3>2
      <4> QED BY <2>1, <4>1 DEF Chained
    <3> QED BY <3>1, <3>2
  <2> QED BY <1>5, <2>1, <2>2 DEF LeadsTo
<1>12. stack' # <<>> /\ stack'[1].client = latest'
  <2>1. CASE stack = <<>>
    BY <1>0, <1>5, <1>6, <2>1 DEF Chained
  <2>2. CASE stack # <<>>
    <3>1. 1 \in 1..Len(stack)
      BY <1>0, <2>2
    <3> QED BY <1>0, <1>5, <1>6, <2>2, <3>1 DEF Chained
  <2> QED BY <2>1, <2>2
<1>13. LeadsTo(stack[Len(stack)], head)'
  BY <1>5, <1>6, <1>10 DEF LeadsTo
<1> QED BY <1>9, <1>11, <1>12, <1>13 DEF Chained

\* What waits goes on waiting while its pass lasts: blocks are only stashed, clocks only added.
LEMMA PassGoesOn ==
  ASSUME TypeOK, StashedOnce, PassSound, ~(pc # "drain" /\ Stashed = {} /\ Chained),
         \/ PopStack \/ PopLatest \/ NextClient \/ Exhausted \/ Integrate \/ Switch \/ GiveUp
         \/ Stash \/ Drained \/ ApplyDelete
  PROVE  PassSound'
<1>0. stack \in Seq(Units) /\ Len(stack) \in Nat
  BY DEF TypeOK
<1>1. deps' = deps /\ delivered' = delivered
  BY DEF PopStack, PopLatest, NextClient, Exhausted, Integrate, Switch, GiveUp, Stash, Drained,
    ApplyDelete, ghost
<1>2. \A c \in Clients : missing[c] # NoClock => missing'[c] # NoClock
  <2>1. CASE GiveUp
    <3>1. PICK c \in Clients : missing' = SetMin(missing, c, GetClock(c))
      BY <2>1 DEF GiveUp
    <3>2. GetClock(c) # NoClock
      BY GetClockType, MaxClockAssumption DEF NoClock, TypeOK
    <3> QED BY <3>1, <3>2 DEF SetMin, TypeOK
  <2>2. CASE ~GiveUp
    BY <2>2 DEF PopStack, PopLatest, NextClient, Exhausted, Integrate, Switch, Stash, Drained,
      ApplyDelete, picker
  <2> QED BY <2>1, <2>2
<1>3. ASSUME NEW u \in Units, WaitsFor(u, missing) PROVE WaitsFor(u, missing)'
  <2>1. PICK v \in Range(deps[u]) \ delivered : missing[v.client] # NoClock
    BY <1>3 DEF WaitsFor
  <2>2. v.client \in Clients
    <3>1. deps[u] \in Seq(Units)
      BY HistoriesAssumption DEF TypeOK
    <3>2. v \in Units
      BY <3>1 DEF Range
    <3> QED BY <3>2, UnitsAssumption
  <2> QED BY <1>1, <1>2, <2>1, <2>2 DEF WaitsFor
<1>4. Stashed \subseteq Stashed' /\ Stashed \subseteq Units /\ Stacked \subseteq Units
  <2>1. Stashed \subseteq Units /\ Stacked \subseteq Units
    BY <1>0 DEF TypeOK, Stashed, Stacked
  <2>2. CASE Stash
    <3> DEFINE c == stack[1].client
    <3>1. 1 \in 1..Len(stack) /\ Head(stack) = stack[1]
      BY <1>0, <2>2 DEF Stash
    <3>2. c \in Clients /\ unapplicable[c] = {}
      BY <1>0, <3>1, NoUnitIsNoUnit DEF StashedOnce, InPicker, OnStack
    <3>3. unapplicable' = [unapplicable EXCEPT ![c] = {stack[1]} \cup queue[c]]
      BY <2>2, <3>1 DEF Stash
    <3> HIDE DEF c
    <3>4. \A d \in Clients : unapplicable[d] \subseteq unapplicable'[d]
      BY <3>2, <3>3 DEF TypeOK
    <3> QED BY <2>1, <3>4 DEF Stashed
  <2>3. CASE ~Stash
    <3>1. unapplicable' = unapplicable
      BY <2>3 DEF PopStack, PopLatest, NextClient, Exhausted, Integrate, Switch, GiveUp, Drained,
        ApplyDelete, picker
    <3> QED BY <2>1, <3>1 DEF Stashed
  <2> QED BY <2>2, <2>3
<1>5. CASE \E u \in Stashed : WaitsFor(u, missing)
  BY <1>3, <1>4, <1>5 DEF PassSound
<1>6. CASE pc = "drain" /\ \E u \in Stacked : WaitsFor(u, missing)
  <2>1. PICK i \in 1..Len(stack) : WaitsFor(stack[i], missing)
    BY <1>6 DEF Stacked
  <2>2. Stash
    <3>1. stack # <<>>
      BY <1>0, <2>1
    <3> QED BY <1>6, <3>1 DEF PopStack, PopLatest, NextClient, Exhausted, Integrate, Switch,
          GiveUp, Drained, ApplyDelete
  <2>3. /\ Len(stack') = Len(stack) - 1
        /\ \A k \in 1..Len(stack') : stack'[k] = stack[k + 1]
        /\ Head(stack) = stack[1] /\ 1 \in 1..Len(stack)
    BY <1>0, <2>2, HeadTailProperties DEF Stash
  <2>4. PICK u \in Units : u = stack[i] /\ WaitsFor(u, missing)'
    BY <1>0, <1>3, <2>1
  <2>5. CASE i = 1
    <3>1. u.client \in Clients
      BY UnitsAssumption
    <3>2. u \in unapplicable'[u.client]
      BY <2>2, <2>3, <2>4, <2>5, <3>1 DEF Stash, TypeOK
    <3> QED BY <2>4, <3>1, <3>2 DEF PassSound, Stashed
  <2>6. CASE i # 1
    <3>1. i - 1 \in 1..Len(stack') /\ stack'[i - 1] = u
      BY <1>0, <2>3, <2>4, <2>6
    <3>2. u \in Stacked'
      BY <3>1 DEF Stacked
    <3>3. pc' = "drain"
      BY <2>2 DEF Stash
    <3> QED BY <2>4, <3>2, <3>3 DEF PassSound
  <2> QED BY <2>5, <2>6
<1> QED BY <1>5, <1>6 DEF PassSound

\* A pass over all that is not in the store gives up for the first time, if ever, for a block
\* that was not given.
LEMMA PassStep ==
  ASSUME TypeOK, StashedOnce, PickerOwned, NothingLost, GivenInv, ordered, ~failed,
         pendingBlocks = {}, PassSound,
         \/ PopStack \/ PopLatest \/ NextClient \/ Exhausted \/ Integrate \/ Switch \/ GiveUp
         \/ Stash \/ Drained \/ ApplyDelete
  PROVE  PassSound'
<1> SUFFICES ASSUME pc # "drain" /\ Stashed = {} /\ Chained PROVE PassSound'
  BY PassGoesOn
<1>0. /\ stack \in Seq(Units) /\ Len(stack) \in Nat /\ deps' = deps
      /\ queue \in [Clients -> SUBSET Units]
      /\ \A d \in Clients : \A v \in queue[d] : v.client = d
  BY DEF TypeOK, Of, PopStack, PopLatest, NextClient, Exhausted, Integrate, Switch, GiveUp,
    Stash, Drained, ApplyDelete
<1>1. \A x \in Units : x.clock \in Int /\ x = [client |-> x.client, clock |-> x.clock]
  BY UnitsAssumption, MaxClockAssumption DEF Clocks
<1>2. \A v \in Queued : v.client # NoUnit.client
  BY <1>0, NoUnitIsNoUnit DEF Queued
<1>3. GiveUp => PassSound'
  BY GiveUpPasses
<1>4. ~GiveUp => pc' # "drain" /\ Stashed' = {}
  BY DEF PopStack, PopLatest, NextClient, Exhausted, Integrate, Switch, Stash, Drained,
    ApplyDelete, picker, Stashed
<1>5. CASE Switch
  BY <1>4, <1>5, SwitchPasses DEF PassSound, Switch, GiveUp
<1>6. CASE PopStack
  <2>1. /\ Len(stack') = Len(stack) - 1 /\ Len(stack) \in 1..Len(stack)
        /\ \A i \in 1..Len(stack') : i \in 1..Len(stack) /\ stack'[i] = stack[i]
    BY <1>0, <1>6, PopStackFacts DEF PopStack
  <2>2. /\ head' = stack[Len(stack)] /\ pc' = "try" /\ queue' = queue /\ latest' = latest
    BY <1>6 DEF PopStack
  <2>3. Stacked' \cup {head'} \subseteq Stacked /\ Queued' = Queued
    BY <2>1, <2>2 DEF Stacked, Queued
  <2>4. FrontsTaken'
    BY <2>3 DEF Chained, FrontsTaken
  <2>5. \A i, j \in 1..Len(stack') : j = i + 1 => LeadsTo(stack'[i], stack'[j])
    BY <2>1 DEF Chained
  <2>6. stack' # <<>> => LeadsTo(stack'[Len(stack')], head') /\ stack'[1].client = latest
    <3> SUFFICES ASSUME Len(stack') > 0
                 PROVE  LeadsTo(stack'[Len(stack')], head') /\ stack'[1].client = latest
      BY <1>0, <2>1, <1>6 DEF PopStack
    <3>1. /\ Len(stack') \in 1..Len(stack) /\ Len(stack) = Len(stack') + 1
          /\ stack'[Len(stack')] = stack[Len(stack)  - 1] /\ Len(stack) - 1 \in 1..Len(stack)
          /\ 1 \in 1..Len(stack') /\ stack # <<>>
      BY <1>0, <2>1
    <3>2. LeadsTo(stack[Len(stack) - 1], stack[Len(stack)])
      BY <2>1, <3>1 DEF Chained
    <3> QED BY <2>1, <2>2, <3>1, <3>2 DEF Chained
  <2>7. stack' = <<>> => head'.client = latest
    <3> SUFFICES ASSUME Len(stack') = 0 PROVE head'.client = latest
      OBVIOUS
    <3>1. Len(stack) = 1 /\ stack # <<>>
      BY <1>0, <2>1
    <3> QED BY <2>2, <3>1 DEF Chained
  <2>8. Chained'
    BY <1>0, <2>2, <2>4, <2>5, <2>6, <2>7 DEF Chained, LeadsTo
  <2> QED BY <1>4, <1>6, <2>2, <2>8 DEF PassSound, PopStack, GiveUp
<1>7. CASE PopLatest
  <2>1. /\ latest \in Clients /\ PopFront(latest) /\ stack = <<>> /\ stack' = <<>>
        /\ latest' = latest /\ pc' = "try" /\ pc = "next"
    BY <1>7 DEF PopLatest, TypeOK
  <2>2. /\ head' \in queue[latest] /\ head'.client = latest
        /\ queue'[latest] = queue[latest] \ {head'}
        /\ \A d \in Clients : d # latest => queue'[d] = queue[d]
        /\ \A v \in queue[latest] : head'.clock <= v.clock
    BY <2>1, PopFrontFacts DEF PopFront
  <2>3. ASSUME NEW x \in Queued', x.client = latest PROVE head'.clock < x.clock
    <3>1. x \in queue[latest] \ {head'}
      BY <1>0, <2>1, <2>2, <2>3 DEF Queued
    <3>2. x \in Units /\ head' \in Units /\ head'.clock <= x.clock /\ x # head'
      BY <1>0, <2>1, <2>2, <3>1
    <3> QED BY <1>1, <2>2, <2>3, <3>2
  <2>4. Stacked' = {}
    BY <2>1 DEF Stacked
  <2>5. Chained'
    BY <2>1, <2>2, <2>3, <2>4 DEF Chained, FrontsTaken
  <2> QED BY <1>4, <2>1, <2>5 DEF PassSound, GiveUp
<1>8. CASE NextClient
  <2>1. /\ stack = <<>> /\ stack' = <<>> /\ pc' = "next" /\ head' = NoUnit /\ queue' = queue
    BY <1>8 DEF NextClient, TypeOK
  <2>2. Stacked' = {} /\ Queued' = Queued
    BY <2>1 DEF Stacked, Queued
  <2>3. Chained'
    BY <1>2, <2>1, <2>2 DEF Chained, FrontsTaken
  <2> QED BY <1>4, <1>8, <2>1, <2>3 DEF PassSound, GiveUp, NextClient
<1>9. CASE Integrate
  <2>1. UNCHANGED <<stack, queue, latest>> /\ pc' = "next" /\ head' = NoUnit
    BY <1>9 DEF Integrate
  <2>2. Stacked' = Stacked /\ Queued' = Queued
    BY <2>1 DEF Stacked, Queued
  <2>3. FrontsTaken'
    BY <1>2, <2>1, <2>2 DEF Chained, FrontsTaken
  <2>4. Chained'
    BY <1>0, <2>1, <2>3 DEF Chained, LeadsTo
  <2> QED BY <1>4, <1>9, <2>1, <2>4, NoUnitIsNoUnit DEF PassSound, GiveUp, Integrate
<1>10. CASE Exhausted \/ ApplyDelete
  <2>1. UNCHANGED <<stack, queue, latest, head>> /\ pc' # "try" /\ pc # "try"
    BY <1>10 DEF Exhausted, ApplyDelete, picker
  <2>2. Stacked' = Stacked /\ Queued' = Queued
    BY <2>1 DEF Stacked, Queued
  <2>3. Chained'
    BY <1>0, <2>1, <2>2 DEF Chained, FrontsTaken, LeadsTo
  <2> QED BY <1>4, <2>1, <2>3 DEF PassSound, GiveUp
<1>11. CASE Stash \/ Drained
  BY <1>11 DEF Stash, Drained
<1> QED BY <1>3, <1>5, <1>6, <1>7, <1>8, <1>9, <1>10, <1>11

\* Every step of the running call keeps what is pending waiting for something not yet given.
LEMMA StrandedStep ==
  ASSUME Inv, GivenInv, StrandedInv, [Next]_vars
  PROVE  StrandedInv'
<1> SUFFICES ASSUME ordered', ~failed'
             PROVE  \/ PendingWaits'
                    \/ pendingBlocks' # {} /\ pc' = "begin" /\ Brings(Head(todo))'
                    \/ pendingBlocks' # {} /\ pc' \notin {"idle", "begin"} /\ retry'
                    \/ pendingBlocks' = {} /\ (Passing => PassSound)'
  BY DEF StrandedInv
<1>0. TypeOK /\ StashedOnce /\ PickerOwned /\ NothingLost
  BY DEF Inv
<1>1. ordered /\ ~failed
  <2>1. ASSUME NEW u \in Updates[deps], Call(u) PROVE ordered /\ ~failed
    BY <2>1 DEF Call
  <2>2. CASE Fail
    BY <2>2 DEF Fail
  <2>3. UNCHANGED <<ordered, failed>> \/ Fail \/ \E u \in Updates[deps] : Call(u)
    BY DEF Next, Step, Begin, PopStack, PopLatest, NextClient, Exhausted, Integrate, Switch,
      GiveUp, Stash, Drained, ApplyDelete, MergePending, ApplyPendingDs, Retry, Return, ghost, vars
  <2>4. CASE UNCHANGED <<ordered, failed>>
    BY <2>4
  <2> QED BY <2>1, <2>2, <2>3, <2>4
<1>2. \/ PendingWaits
      \/ pendingBlocks # {} /\ pc = "begin" /\ Brings(Head(todo))
      \/ pendingBlocks # {} /\ pc \notin {"idle", "begin"} /\ retry
      \/ pendingBlocks = {} /\ (Passing => PassSound)
  BY <1>1 DEF StrandedInv
<1>3. UNCHANGED <<deps, delivered, pendingBlocks, pendingMissing>> => (PendingWaits => PendingWaits')
  BY DEF PendingWaits, WaitsFor
<1>4. ASSUME NEW u \in Updates[deps], Call(u)
      PROVE  \/ PendingWaits'
             \/ pendingBlocks' # {} /\ pc' = "begin" /\ Brings(Head(todo))'
             \/ pendingBlocks' = {} /\ (Passing => PassSound)'
  <2>1. /\ pc = "idle" /\ pc' = "begin" /\ Head(todo') = u /\ delivered' = delivered \cup u.blocks
        /\ UNCHANGED <<deps, pendingBlocks, pendingMissing>>
    BY <1>4 DEF Call, store
  <2>2. CASE pendingBlocks = {}
    BY <2>1, <2>2 DEF Passing
  <2>3. CASE PendingWaits
    <3>1. PICK b \in pendingBlocks : WaitsFor(b, pendingMissing)
      BY <2>3 DEF PendingWaits
    <3>2. PICK v \in Range(deps[b]) \ delivered : pendingMissing[v.client] # NoClock
      BY <3>1 DEF WaitsFor
    <3>3. CASE v \in u.blocks
      BY <2>1, <3>2, <3>3 DEF Brings
    <3>4. CASE v \notin u.blocks
      BY <2>1, <3>2, <3>4 DEF PendingWaits, WaitsFor
    <3> QED BY <3>3, <3>4
  <2> QED BY <1>2, <2>1, <2>2, <2>3
<1>5. CASE Begin
  <2>1. /\ pc = "begin" /\ pc' = "next" /\ todo # <<>>
        /\ UNCHANGED <<deps, delivered, pendingBlocks, pendingMissing, unapplicable, stack, head>>
        /\ retry' = (pendingBlocks # {}
                       /\ \E c \in {b.client : b \in Head(todo).blocks} : pendingMissing[c] # NoClock)
    BY <1>0, <1>5 DEF Begin, store, ghost, TypeOK
  <2>2. CASE pendingBlocks = {}
    <3>1. /\ \A c \in Clients : unapplicable[c] = {}
          /\ stack = <<>> /\ head = NoUnit
      BY <1>0, <2>1 DEF PickerOwned, TypeOK
    <3>2. Stashed' = {} /\ Stacked' = {}
      BY <2>1, <3>1 DEF Stashed, Stacked
    <3>3. \A v \in Queued' : v.client # NoUnit.client
      BY <1>0, <1>5, NoUnitIsNoUnit DEF Begin, Queued, Of
    <3>4. Chained'
      BY <2>1, <3>1, <3>2, <3>3 DEF Chained, FrontsTaken
    <3> QED BY <2>1, <2>2, <3>2, <3>4 DEF PassSound
  <2>3. CASE pendingBlocks # {} /\ Brings(Head(todo))
    BY <2>1, <2>3 DEF Brings
  <2>4. CASE PendingWaits
    BY <1>3, <2>1, <2>4
  <2> QED BY <1>2, <2>1, <2>2, <2>3, <2>4
<1>6. CASE \/ PopStack \/ PopLatest \/ NextClient \/ Exhausted \/ Integrate \/ Switch \/ GiveUp
           \/ Stash \/ Drained \/ ApplyDelete
  <2>1. /\ UNCHANGED <<deps, delivered, pendingBlocks, pendingMissing, retry>>
        /\ Passing /\ pc' \notin {"idle", "begin"}
    BY <1>6 DEF PopStack, PopLatest, NextClient, Exhausted, Integrate, Switch, GiveUp, Stash,
      Drained, ApplyDelete, store, ghost, Passing
  <2>2. pendingBlocks = {} /\ PassSound => PassSound'
    BY <1>0, <1>1, <1>6, PassStep
  <2> QED BY <1>2, <1>3, <2>1, <2>2 DEF Passing
<1>7. CASE MergePending
  <2>1. /\ pc = "merge" /\ pc' = "pending_ds" /\ Passing /\ ~Passing'
        /\ deps' = deps /\ delivered' = delivered
    BY <1>7 DEF MergePending, ghost, Passing
  <2>2. CASE pendingBlocks = {} /\ PassSound
    <3>1. pendingBlocks' = Stashed /\ pendingMissing' = missing
      BY <1>7, <2>2 DEF MergePending
    <3>2. CASE Stashed = {}
      BY <2>1, <3>1, <3>2
    <3>3. CASE \E u \in Stashed : WaitsFor(u, missing)
      BY <2>1, <3>1, <3>3 DEF PendingWaits, WaitsFor
    <3> QED BY <2>1, <2>2, <3>2, <3>3 DEF PassSound
  <2>3. CASE pendingBlocks # {}
    <3>1. /\ pendingBlocks \subseteq pendingBlocks'
          /\ pendingMissing' = MergeMin(pendingMissing, missing)
      BY <1>7, <2>3 DEF MergePending
    <3>2. \A c \in Clients : pendingMissing[c] # NoClock => pendingMissing'[c] # NoClock
      BY <1>0, <3>1 DEF MergeMin, SetMin, TypeOK
    <3>3. CASE PendingWaits
      <4>1. PICK u \in pendingBlocks : WaitsFor(u, pendingMissing)
        BY <3>3 DEF PendingWaits
      <4>2. PICK v \in Range(deps[u]) \ delivered : pendingMissing[v.client] # NoClock
        BY <4>1 DEF WaitsFor
      <4>3. v.client \in Clients
        <5>1. deps[u] \in Seq(Units)
          BY <1>0, HistoriesAssumption DEF TypeOK
        <5>2. v \in Units
          BY <5>1 DEF Range
        <5> QED BY <5>2, UnitsAssumption
      <4>4. v \in Range(deps'[u]) \ delivered' /\ pendingMissing'[v.client] # NoClock
        BY <2>1, <3>2, <4>2, <4>3
      <4>5. WaitsFor(u, pendingMissing)'
        BY <4>4 DEF WaitsFor
      <4>6. PendingWaits'
        BY <3>1, <4>5 DEF PendingWaits
      <4> QED BY <4>6
    <3>4. CASE retry
      <4>1. retry'
        BY <1>7, <2>3, <3>4 DEF MergePending
      <4> QED BY <2>1, <2>3, <3>1, <4>1
    <3> QED BY <1>2, <2>1, <2>3, <3>3, <3>4
  <2> QED BY <1>2, <2>1, <2>2, <2>3 DEF PendingWaits
<1>8. CASE ApplyPendingDs
  BY <1>2, <1>3, <1>8 DEF ApplyPendingDs, ghost, Passing
<1>9. CASE Retry
  BY <1>9 DEF Retry, Passing
<1>10. CASE Return
  BY <1>2, <1>3, <1>10 DEF Return, store, ghost, Passing
<1>11. CASE Fail
  BY <1>11 DEF Fail
<1>12. CASE UNCHANGED vars
  <2>1. UNCHANGED <<deps, store, pc, todo, ds, retry, picker, ghost>>
    BY <1>12 DEF vars
  <2>2. StrandedInv <=> StrandedInv'
    BY <2>1 DEF store, picker, ghost, StrandedInv, PendingWaits, WaitsFor, Brings, Passing,
      PassSound, Stashed, Chained, FrontsTaken, Stacked, Queued, LeadsTo
  <2> QED BY <2>2 DEF StrandedInv
<1> QED
  BY <1>4, <1>5, <1>6, <1>7, <1>8, <1>9, <1>10, <1>11, <1>12 DEF Next, Step

\* Between calls no block is pending that has all it needs, as long as the blocks of each client
\* came in their order and no call failed (TransactionMut::apply_update, the early test of
\* `retry` and Update::integrate's `missing_sv`).
THEOREM NothingStranded == Spec => []NoStrandedInOrder
<1> DEFINE J == GivenInv /\ StrandedInv
<1>1. Init => J
  <2> SUFFICES ASSUME Init PROVE J
    OBVIOUS
  <2>1. Len(stack) = 0 /\ Len(todo) = 0 /\ pc = "idle" /\ pendingBlocks = {}
    BY DEF Init
  <2>2. \A u \in Units : ~Located(u)
    BY <2>1, NoUnitIsNoUnit DEF Init, Located
  <2> QED BY <2>1, <2>2 DEF Init, GivenInv, StrandedInv, NoGap, Passing
<1>2. Inv /\ J /\ [Next]_vars => J'
  BY GivenStep, StrandedStep DEF Inv
<1>3. Inv /\ J => NoStrandedInOrder
  <2> SUFFICES ASSUME Inv, J, ordered, ~failed, pc = "idle",
                      \A u \in pendingBlocks : Range(deps[u]) \subseteq have \cup pendingBlocks,
                      PendingWaits
               PROVE  FALSE
    BY DEF NoStrandedInOrder, NoStranded, StrandedInv
  <2>1. PICK u \in pendingBlocks : \E v \in Range(deps[u]) : v \notin delivered
    BY DEF PendingWaits, WaitsFor
  <2>2. PICK v \in Range(deps[u]) : v \notin delivered
    BY <2>1
  <2>3. v \in Units /\ Located(v)
    BY DEF Inv, TypeOK, Located
  <2> QED BY <2>2, <2>3 DEF GivenInv
<1> HIDE DEF J
<1> QED BY <1>1, <1>2, <1>3, Invariance, PTL DEF Spec
============================================================================
