----------------------------- MODULE ListSpec -----------------------------
(***************************************************************************)
(* What the functions of list.h promise: a list is a sequence of values,   *)
(* and each function is the sequence operation its comment names.  List    *)
(* implements it with linked nodes; Tlb uses the same operations on its    *)
(* list of line numbers.                                                   *)
(***************************************************************************)
EXTENDS Naturals, SequencesExt

CONSTANT VALUES   \* the values that are stored

VARIABLE values   \* the values of the list, from front to back

Init == values = <<>>

\* Element i of s moved to the end.
MoveBack(s, i) == Append(RemoveAt(s, i), s[i])

PushBack(value) == values' = Append(values, value)
PushFront(value) == values' = <<value>> \o values

\* Taking an element from an empty list leaves it empty.
PopBack == values' = IF values = <<>> THEN <<>> ELSE Front(values)
PopFront == values' = IF values = <<>> THEN <<>> ELSE Tail(values)

MoveToBack == \E i \in DOMAIN values : values' = MoveBack(values, i)

Next ==
  \/ \E value \in VALUES : PushBack(value) \/ PushFront(value)
  \/ PopBack
  \/ PopFront
  \/ MoveToBack

Spec == Init /\ [][Next]_values
===========================================================================
