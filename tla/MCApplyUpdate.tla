--------------------------- MODULE MCApplyUpdate ---------------------------
(***************************************************************************)
(* Instances of ApplyUpdate for TLC.                                       *)
(***************************************************************************)
EXTENDS ApplyUpdate

U(c, k) == [client |-> c, clock |-> k]
Upd(S, D) == [blocks |-> S, ds |-> D]

LargeUnits == {U(1, 0), U(1, 1), U(1, 2), U(2, 0), U(2, 1), U(3, 0), U(3, 1)}

\* every causal history of four units in which a unit depends on at most one other, and
\* every update of those four
SmallUnits == {U(1, 0), U(1, 1), U(2, 0), U(3, 0)}
AtMostOne(S) == {<<>>} \cup {<<u>> : u \in S}
SmallHistories ==
  {dep \in {[u \in LargeUnits |-> IF u \in SmallUnits THEN small[u] ELSE <<>>] :
              small \in [SmallUnits -> AtMostOne(SmallUnits)]} : Causal(dep)}
SmallUpdates == [blocks : SUBSET SmallUnits \ {{}}, ds : {{}}]

\* chains that go back and forth between the clients, units with several
\* dependencies, units independent of their predecessor, and one of which the parent
\* turns out not to be a shared type
OneInvalid == {U(3, 1)}
CrossingHistories == {
  [u \in LargeUnits |->
     CASE u = U(1, 0) -> <<>>          [] u = U(1, 1) -> <<U(2, 0)>>
       [] u = U(1, 2) -> <<U(1, 1)>>   [] u = U(2, 0) -> <<U(1, 0)>>
       [] u = U(2, 1) -> <<U(3, 0), U(1, 2)>>
       [] u = U(3, 0) -> <<U(1, 0)>>
       [] u = U(3, 1) -> <<U(3, 0), U(1, 1)>>],
  [u \in LargeUnits |->
     CASE u = U(1, 0) -> <<>>          [] u = U(1, 1) -> <<>>
       [] u = U(1, 2) -> <<U(3, 0)>>   [] u = U(2, 0) -> <<>>
       [] u = U(2, 1) -> <<U(1, 1), U(1, 2), U(3, 0)>>
       [] u = U(3, 0) -> <<U(2, 0)>>
       [] u = U(3, 1) -> <<U(1, 2)>>]}

\* what peers send: single units, a client's units, the whole document, what a peer
\* that has the first unit sends to one it thinks has it too, and deletes
LargeUpdates ==
  {Upd({u}, {}) : u \in LargeUnits \ OneInvalid} \cup {Upd({U(2, 0), U(3, 1)}, {})}
    \cup {Upd(Of(LargeUnits, c), {}) : c \in {1, 2}}
    \cup {Upd({U(1, 1), U(1, 2), U(2, 0)}, {U(1, 0)}), Upd(LargeUnits \ OneInvalid, {U(3, 0)}),
          Upd({}, {U(1, 1), U(1, 2), U(3, 0)})}

AllHistories == SmallHistories \cup CrossingHistories
AllUpdates ==
  [dep \in AllHistories |-> IF dep \in CrossingHistories THEN LargeUpdates ELSE SmallUpdates]

\* a, then b with origin a, then a's next with origin b: two clients in turns
StrandedUnits == {U(1, 0), U(1, 1), U(2, 0)}
StrandedHistories == {
  [u \in StrandedUnits |->
     CASE u = U(1, 0) -> <<>> [] u = U(2, 0) -> <<U(1, 0)>> [] u = U(1, 1) -> <<U(2, 0)>>]}
StrandedUpdates ==
  [dep \in StrandedHistories |-> {Upd({U(1, 0)}, {}), Upd({U(1, 1), U(2, 0)}, {})}]
============================================================================
