---------------------------- MODULE MCFormatting ----------------------------
(***************************************************************************)
(* Bounds and deltas for Formatting.                                       *)
(***************************************************************************)
EXTENDS Formatting

Inserted(attrs) == [kind |-> "insert", what |-> "string", len |-> 1, attrs |-> attrs]
Retain(attrs) == [kind |-> "retain", len |-> 1, attrs |-> attrs]
Deleted == [kind |-> "delete", len |-> 1]

MCMaxOpen == <<6, 4, 3>>

Unchanged == Retain(<<>>)
Edits == {Inserted(a) : a \in Attrs} \cup {Retain(a) : a \in Attrs}
Symmetry == Permutations(Values)

\* a delta of up to three operations in which nothing follows a deletion
MCDeltas ==
  {<<a, b>> : a \in {Unchanged} \cup {Inserted(c) : c \in Attrs}, b \in Edits}
    \cup {<<Unchanged, a, Deleted>> : a \in Edits} \cup {<<Unchanged, Deleted>>}

\* text is replaced, or the text behind a deletion is formatted
ReplacingDeltas == {<<Unchanged, Deleted, a>> : a \in Edits}
=============================================================================
