---------------------------- MODULE MCAwareness ----------------------------
(***************************************************************************)
(* A small instance of Awareness: every peer raises the clock of the host, *)
(* which sets its state again and is declared gone by the two others; the  *)
(* guest shows a state of its own beside it, so that updates hold one      *)
(* client or two.                                                          *)
(***************************************************************************)
EXTENDS Awareness, TLC

CONSTANTS host, guest, other, a, b, HostClock, GuestClock

MCMaxClock ==
  [p \in Peers |-> [c \in Clients |->
     IF c = host THEN HostClock ELSE IF p = c THEN GuestClock ELSE 0]]

Symmetry ==
  {f \in Permutations(Peers) : \A c \in Clients : f[c] = c} \cup Permutations(Values)
=============================================================================
