------------------------------- MODULE List -------------------------------
(***************************************************************************)
(* The doubly linked list of list.c, on a memory of nodes.  One action per *)
(* function; clear_list, whose loop goes on with the next field of a node  *)
(* that pop_front has just freed, is one action per iteration.             *)
(*                                                                         *)
(* A node is an address.  order and kept are auxiliary variables, which no *)
(* guard reads: the nodes of the list from front to back, as the caller of *)
(* the functions sees it, and whether clear_list has found in the nodes it *)
(* had freed what it left in them.                                         *)
(***************************************************************************)
EXTENDS Naturals, SequencesExt

CONSTANTS
  NODES,       \* the addresses at which calloc() may put a node
  VALUES,      \* the values that are stored (list_content_t)
  NULL,        \* the null pointer
  Wild,        \* a pointer read from memory that was overwritten, to no node
  Idle         \* clear_list is not running

ASSUME ListAssumption ==
  /\ NULL # Wild /\ NULL # Idle /\ Wild # Idle
  /\ NODES \cap {NULL, Wild, Idle} = {}

VARIABLES
  front, back,   \* this->front and this->back
  node,          \* node[n]: the fields of the memory at address n
  live,          \* the nodes that are allocated
  order,         \* (auxiliary) the nodes of the list, front to back
  cursor,        \* the loop variable of clear_list, or Idle
  kept,          \* (auxiliary) clear_list has read no overwritten next field
  fault          \* what the process has crashed of, or "none"

vars == <<front, back, node, live, order, cursor, kept, fault>>

Pointer == NODES \cup {NULL}
Node == [value : VALUES, previous : Pointer, next : Pointer]

\* A call of the caller's, which is not in the middle of clear_list.
Call == fault = "none" /\ cursor = Idle

-----------------------------------------------------------------------------
\* init_list on a list_t of the caller's; no node has been allocated yet.
Init ==
  /\ front = NULL
  /\ back = NULL
  /\ node \in [NODES -> {[value |-> v, previous |-> NULL, next |-> NULL] : v \in VALUES}]
  /\ live = {}
  /\ order = <<>>
  /\ cursor = Idle
  /\ kept = TRUE
  /\ fault = "none"

\* new_node: calloc zeroes the two pointers.
NewNode(value) == [value |-> value, previous |-> NULL, next |-> NULL]

\* place_node_at_back, on the memory m that its caller has written.
KeepNext(m, n) == [m EXCEPT ![back].next = n, ![n].previous = back]
ExchangeValues(m, n) ==
  [m EXCEPT ![back].value = m[n].value, ![n].value = m[back].value]
PlaceNodeAtBack(m, n) ==
  [m EXCEPT ![back].next = n, ![n].previous = back, ![n].next = NULL]

PushBack(value) ==
  \E new \in NODES \ live :
    /\ Call
    /\ LET m == [node EXCEPT ![new] = NewNode(value)] IN
         \/ /\ front = NULL
            /\ front' = new
            /\ node' = m
         \/ /\ front # NULL
            /\ node' = PlaceNodeAtBack(m, new)
            /\ UNCHANGED front
    /\ back' = new
    /\ live' = live \cup {new}
    /\ order' = Append(order, new)
    /\ UNCHANGED <<cursor, kept, fault>>

PushFront(value) ==
  \E new \in NODES \ live :
    /\ Call
    /\ LET m == [node EXCEPT ![new] = NewNode(value)] IN
         \/ /\ back = NULL
            /\ back' = new
            /\ node' = m
         \/ /\ back # NULL
            /\ node' = [m EXCEPT ![front].previous = new,
                                 ![new].next = front,
                                 ![new].previous = NULL]
            /\ UNCHANGED back
    /\ front' = new
    /\ live' = live \cup {new}
    /\ order' = <<new>> \o order
    /\ UNCHANGED <<cursor, kept, fault>>

\* calloc() finds no memory: new_node writes through the null pointer
\* before push_back or push_front has looked at it.
CallocFails ==
  /\ Call
  /\ live = NODES
  /\ fault' = "null_write"
  /\ UNCHANGED <<front, back, node, live, order, cursor, kept>>

\* free() of a node; init_list after the last one.
PopLast(n) ==
  /\ front' = NULL
  /\ back' = NULL
  /\ live' = live \ {n}
  /\ UNCHANGED node

CutBack(m) == [m EXCEPT ![back'].next = NULL]

\* pop_back, and pop_front, on a list that is not empty.
PopBackNode ==
  /\ \/ node[back].previous = NULL /\ PopLast(back)
     \/ /\ node[back].previous # NULL
        /\ back' = node[back].previous
        /\ live' = live \ {node[back'].next}
        /\ node' = CutBack(node)
        /\ UNCHANGED front
  /\ order' = Front(order)

PopBack ==
  /\ Call
  /\ back # NULL
  /\ PopBackNode
  /\ UNCHANGED <<cursor, kept, fault>>

PopFrontNode ==
  /\ \/ node[front].next = NULL /\ PopLast(front)
     \/ /\ node[front].next # NULL
        /\ front' = node[front].next
        /\ live' = live \ {node[front'].previous}
        /\ node' = [node EXCEPT ![front'].previous = NULL]
        /\ UNCHANGED back
  /\ order' = Tail(order)

PopFront ==
  /\ Call
  /\ front # NULL
  /\ PopFrontNode
  /\ UNCHANGED <<cursor, kept, fault>>

\* move_back from the middle, and from the front, of a list.
UnlinkMiddle(n) ==
  [node EXCEPT ![node[n].previous].next = node[n].next,
               ![node[n].next].previous = node[n].previous]

UnlinkFront(n) == [node EXCEPT ![node[n].next].previous = NULL]

MoveBack(n) ==
  /\ Call
  /\ n \in live
  /\ \/ /\ node[n].previous # NULL
        /\ node[n].next # NULL
        /\ node' = PlaceNodeAtBack(UnlinkMiddle(n), n)
        /\ back' = n
        /\ UNCHANGED front
     \/ /\ node[n].previous = NULL
        /\ node[n].next # NULL
        /\ front' = node[n].next
        /\ node' = PlaceNodeAtBack(UnlinkFront(n), n)
        /\ back' = n
     \/ /\ node[n].next = NULL
        /\ UNCHANGED <<front, back, node>>
  /\ \E i \in DOMAIN order : order[i] = n /\ order' = Append(RemoveAt(order, i), n)
  /\ UNCHANGED <<live, cursor, kept, fault>>

\* clear_list enters its loop at the front node.
ClearBegin ==
  /\ Call
  /\ front # NULL
  /\ cursor' = front
  /\ kept' = TRUE
  /\ UNCHANGED <<front, back, node, live, order, fault>>

(***************************************************************************)
(* What the loop may read from the next field of node n after a pop_front: *)
(* the field, if n is allocated.  A node that was freed may hold anything  *)
(* by then: what it held, NULL, a pointer of the allocator's to some other *)
(* block, or no pointer.                                                   *)
(***************************************************************************)
NextRead(n) == IF n \in live' THEN {node'[n].next} ELSE Pointer \cup {Wild}

\* An iteration that forgets node = node->next.
StayAtNode ==
  /\ fault = "none"
  /\ cursor \in NODES
  /\ IF front = NULL THEN UNCHANGED <<front, back, node, live, order>>
                     ELSE PopFrontNode
  /\ UNCHANGED <<cursor, kept, fault>>

\* One iteration: pop_front, then node = node->next on what node points to.
ClearStep ==
  /\ fault = "none"
  /\ cursor \in NODES
  /\ IF front = NULL THEN UNCHANGED <<front, back, node, live, order>>
                     ELSE PopFrontNode
  /\ \E next \in NextRead(cursor) :
       /\ cursor' = IF next = NULL THEN Idle ELSE next
       /\ kept' = (kept /\ next = node[cursor].next)
  /\ UNCHANGED fault

\* The loop goes on with a pointer that is none: the next iteration crashes.
ClearWild ==
  /\ fault = "none"
  /\ cursor = Wild
  /\ fault' = "wild_read"
  /\ UNCHANGED <<front, back, node, live, order, cursor, kept>>

Next ==
  \/ \E value \in VALUES : PushBack(value) \/ PushFront(value)
  \/ CallocFails
  \/ PopBack
  \/ PopFront
  \/ \E n \in NODES : MoveBack(n)
  \/ ClearBegin
  \/ ClearStep
  \/ ClearWild

Spec == Init /\ [][Next]_vars

\* A function that has been called runs to its end.
FairSpec == Spec /\ WF_vars(ClearStep \/ ClearWild)

-----------------------------------------------------------------------------
\* Types of the state.
TypeOK ==
  /\ front \in Pointer
  /\ back \in Pointer
  /\ node \in [NODES -> Node]
  /\ live \subseteq NODES
  /\ order \in Seq(NODES)
  /\ cursor \in NODES \cup {Wild, Idle}
  /\ kept \in BOOLEAN
  /\ fault \in {"none", "null_write", "wild_read"}

(***************************************************************************)
(* The pointers are those of a list: reading next from the front, or       *)
(* previous from the back, meets every allocated node once, and ends       *)
(* there.  No node is leaked, none is reached after it was freed           *)
(* (list.c:36-129), and the state keeps its types.                         *)
(***************************************************************************)
Linked ==
  LET n == Len(order) IN
  /\ TypeOK
  /\ IsInjective(order)
  /\ live = ToSet(order)
  /\ front = IF n = 0 THEN NULL ELSE order[1]
  /\ back = IF n = 0 THEN NULL ELSE order[n]
  /\ \A i \in 1..n :
       /\ node[order[i]].next = IF i = n THEN NULL ELSE order[i+1]
       /\ node[order[i]].previous = IF i = 1 THEN NULL ELSE order[i-1]

(***************************************************************************)
(* A pointer the caller holds stays good: an operation on the list neither *)
(* moves a value to another node nor frees a node but one at an end of the *)
(* list (tlb_mng.c:37-41 keeps such a pointer across tlb[] accesses).      *)
(***************************************************************************)
NodesStay ==
  [][/\ \A n \in live \cap live' : node'[n].value = node[n].value
     /\ \E end \in {front, back} : live \ live' \subseteq {end}]_vars

(***************************************************************************)
(* A clear_list that returns has made the list empty (list.h:54) and freed *)
(* what it held, if the allocator has left the next fields of the freed    *)
(* nodes as they were until the loop read them (list.c:22).                *)
(***************************************************************************)
ClearEmpties ==
  [][cursor # Idle /\ cursor' = Idle /\ kept' =>
       front' = NULL /\ back' = NULL /\ live' = {}]_vars

(***************************************************************************)
(* The loop of clear_list ends (list.c:20-26), or it follows a pointer to  *)
(* no node and crashes.  It can go on for ever only in freed nodes that    *)
(* the allocator has overwritten, and not before it has freed the list.    *)
(***************************************************************************)
ClearEnds ==
  (cursor # Idle) ~> (cursor = Idle \/ fault = "wild_read" \/ (~kept /\ live = {}))

\* The list is the sequence of the values of its nodes.
Values == [i \in DOMAIN order |-> node[order[i]].value]

Abstract == INSTANCE ListSpec WITH values <- Values

\* Each function is the sequence operation that list.h names.
SequenceSpec == Abstract!Spec
===========================================================================
