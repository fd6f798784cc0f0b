----------------------------- MODULE LinkedList -----------------------------
(***************************************************************************)
(* xme::LinkedList (container/linked_list.hpp): singly linked lists over   *)
(* one allocator.  A list object holds only its head; head and nodes have  *)
(* a next pointer.  The lists are used by one thread, so what makes them   *)
(* hard is pointer surgery that an exception of an element's constructor   *)
(* or assignment can leave half done: the loops of the operations are      *)
(* steps here, and every one that runs user code may end in a throw.       *)
(*                                                                         *)
(* Ranges given to the operations are not ranges of the list itself.       *)
(***************************************************************************)
EXTENDS Naturals, FiniteSets, SequencesExt

CONSTANTS Node,    \* the addresses the allocator hands out
          List,    \* the list objects
          Value,   \* the elements
          null,    \* nullptr
          MaxLen   \* bound: the length of a range given to an operation

ASSUME NodeAssumption == IsFiniteSet(Node) /\ Node \cap List = {} /\ null \notin Node \cup List
ASSUME NullAssumption == null \notin Value /\ List \cap {"nothing", "destroy"} = {}
ASSUME MaxLenAssumption == MaxLen \in Nat

VARIABLES next,       \* the pointer of every list head and node
          value,      \* the element in every node, null where there is none
          allocated,  \* the nodes not given back to the allocator
          alive,      \* the lists whose construction is complete
          raw,        \* the node create_node has allocated and not filled yet
          op,         \* the operation in progress
          leaked      \* history: nodes lost by constructors that threw
vars == <<next, value, allocated, alive, raw, op, leaked>>

Ranges(len) == UNION {[1 .. n -> Value] : n \in 0 .. len}
None == [do |-> "none"]
Idle == op = None

\* The nodes that follow x by the pointers ptr, up to one more than there are.
Walk(ptr, x) ==
  LET walk[n \in 0 .. Cardinality(Node) + 1] ==
        [y \in List \cup Node |->
           IF n = 0 \/ ptr[y] = null THEN << >> ELSE <<ptr[y]>> \o walk[n - 1][ptr[y]]]
  IN  walk[Cardinality(Node) + 1][x]
After(x) == Walk(next, x)

Nodes(l)    == ToSet(After(l))
Contents(l) == [i \in DOMAIN After(l) |-> value[After(l)[i]]]

\* The positions of a list an iterator may hold, before_begin() among them,
\* and how many elements come before the one after it.
Positions(l) == {l} \cup Nodes(l)
Index(l, pos) == IF pos = l THEN 0 ELSE CHOOSE i \in DOMAIN After(l) : After(l)[i] = pos
Following(pos) == ToSet(After(pos)) \cup {null}

Init == /\ next = [x \in List \cup Node |-> null]
        /\ value = [n \in Node |-> null]
        /\ allocated = {} /\ alive = {} /\ leaked = {}
        /\ raw = null
        /\ op = None

-----------------------------------------------------------------------------
(* Constructors that make nodes, and the insertions: both create one node  *)
(* after another and link it at op.at.                                     *)

Construct(l, range) ==
  /\ Idle /\ l \notin alive
  /\ next' = [next EXCEPT ![l] = null]
  /\ op' = [do |-> "construct", list |-> l, at |-> l, todo |-> range, goal |-> range]
  /\ UNCHANGED <<value, allocated, alive, raw, leaked>>

\* emplace_after, push_front, emplace_front: a range of one element.
insert_after(l, pos, range) ==
  /\ Idle /\ l \in alive
  /\ op' = [do |-> "insert", list |-> l, at |-> pos, todo |-> range,
            goal |-> LET i == Index(l, pos) IN
              SubSeq(Contents(l), 1, i) \o range \o SubSeq(Contents(l), i + 1, Len(Contents(l)))]
  /\ UNCHANGED <<next, value, allocated, alive, raw, leaked>>

Creating == op.do \in {"construct", "insert"}

\* create_node allocates ...
Allocate(n) ==
  /\ Creating /\ op.todo # << >> /\ raw = null
  /\ n \in Node \ allocated
  /\ allocated' = allocated \cup {n}
  /\ raw' = n
  /\ UNCHANGED <<next, value, alive, op, leaked>>

\* mutant: links the new node before it points to what follows
LinkEarly ==
  /\ raw # null
  /\ value' = [value EXCEPT ![raw] = Head(op.todo)]
  /\ next' = [next EXCEPT ![raw] = raw, ![op.at] = raw]
  /\ op' = [op EXCEPT !.at = raw, !.todo = Tail(op.todo)]
  /\ raw' = null
  /\ UNCHANGED <<allocated, alive, leaked>>

\* ... constructs node and element, and the caller links the node.
Link ==
  /\ raw # null
  /\ value' = [value EXCEPT ![raw] = Head(op.todo)]
  /\ next' = [next EXCEPT ![raw] = IF op.do = "insert" THEN next[op.at] ELSE null,
                          ![op.at] = raw]
  /\ op' = [op EXCEPT !.at = raw, !.todo = Tail(op.todo)]
  /\ raw' = null
  /\ UNCHANGED <<allocated, alive, leaked>>

\* mutant: no catch around the construction of the element
CreateThrowsUncaught ==
  /\ Creating /\ op.todo # << >>
  /\ leaked' = IF op.do = "construct" THEN leaked \cup Nodes(op.list) ELSE leaked
  /\ raw' = null
  /\ op' = None
  /\ UNCHANGED <<next, value, allocated, alive>>

\* The allocator or the element's constructor throws.  create_node gives the
\* node back.  Nodes inserted before stay; those of a list under construction
\* are lost, as its destructor does not run.
CreateThrows ==
  /\ Creating /\ op.todo # << >>
  /\ allocated' = allocated \ {raw}
  /\ raw' = null
  /\ leaked' = IF op.do = "construct" THEN leaked \cup Nodes(op.list) ELSE leaked
  /\ op' = None
  /\ UNCHANGED <<next, value, alive>>

\* mutant: the loop over the range stops at its last element
CreatedEarly ==
  /\ Creating /\ Len(op.todo) <= 1
  /\ alive' = alive \cup {op.list}
  /\ op' = None
  /\ UNCHANGED <<next, value, allocated, raw, leaked>>

Created ==
  /\ Creating /\ op.todo = << >>
  /\ alive' = alive \cup {op.list}
  /\ op' = None
  /\ UNCHANGED <<next, value, allocated, raw, leaked>>

\* mutant: the source keeps its nodes
MoveConstructShares(l, m) ==
  /\ Idle /\ l \notin alive /\ m \in alive
  /\ next' = [next EXCEPT ![l] = next[m]]
  /\ alive' = alive \cup {l}
  /\ UNCHANGED <<value, allocated, raw, op, leaked>>

MoveConstruct(l, m) ==
  /\ Idle /\ l \notin alive /\ m \in alive
  /\ next' = [next EXCEPT ![l] = next[m], ![m] = null]
  /\ alive' = alive \cup {l}
  /\ UNCHANGED <<value, allocated, raw, op, leaked>>

-----------------------------------------------------------------------------
(* Erasing: what a loop over the nodes between op.at and op.last does.     *)
(* While it runs op.at points to a node that is gone.                      *)

\* erase_after(pos), pop_front: there must be a node to erase.
erase_after(l, pos) ==
  /\ Idle /\ l \in alive
  /\ next[pos] # null
  /\ next' = [next EXCEPT ![pos] = next[next[pos]], ![next[pos]] = null]
  /\ value' = [value EXCEPT ![next[pos]] = null]
  /\ allocated' = allocated \ {next[pos]}
  /\ UNCHANGED <<alive, raw, op, leaked>>

\* The erasure of the nodes after pos and before last, for what is done then.
Erasure(l, pos, last, then, goal) ==
  [do |-> "erase", list |-> l, at |-> pos, curr |-> next[pos], last |-> last,
   then |-> then, goal |-> goal]

BeginErasure(l, pos, last, then, goal) ==
  /\ Idle /\ l \in alive
  /\ op' = Erasure(l, pos, last, then, goal)
  /\ UNCHANGED <<next, value, allocated, alive, raw, leaked>>

\* clear() is this from before_begin() to null.
erase_range(l, pos, last) ==
  BeginErasure(l, pos, last, "nothing",
    SubSeq(Contents(l), 1, Index(l, pos)) \o
      (IF last = null THEN << >>
       ELSE SubSeq(Contents(l), Index(l, last), Len(Contents(l)))))

Destroy(l)       == BeginErasure(l, l, null, "destroy", << >>)
MoveAssign(l, m) == /\ m \in alive
                    /\ BeginErasure(l, l, null, m, IF l = m THEN << >> ELSE Contents(m))

EraseNext ==
  /\ op.do = "erase" /\ op.curr # op.last
  /\ op' = [op EXCEPT !.curr = next[op.curr]]
  /\ next' = [next EXCEPT ![op.curr] = null]
  /\ value' = [value EXCEPT ![op.curr] = null]
  /\ allocated' = allocated \ {op.curr}
  /\ UNCHANGED <<alive, raw, leaked>>

\* mutant: the node before the erased ones keeps pointing to the first of them
ErasedUnlinked ==
  /\ op.do = "erase" /\ op.curr = op.last
  /\ next' = (IF op.then \in List
              THEN [next EXCEPT ![op.list] = next[op.then], ![op.then] = next[op.list]]
              ELSE next)
  /\ alive' = IF op.then = "destroy" THEN alive \ {op.list} ELSE alive
  /\ op' = None
  /\ UNCHANGED <<value, allocated, raw, leaked>>

\* The node before the erased ones points to the one after them.  Then the
\* destructor is done, or move assignment swaps the heads.
Erased ==
  /\ op.do = "erase" /\ op.curr = op.last
  /\ LET linked == [next EXCEPT ![op.at] = op.last]
     IN  next' = IF op.then \in List
                 THEN [linked EXCEPT ![op.list] = linked[op.then],
                                     ![op.then] = linked[op.list]]
                 ELSE linked
  /\ alive' = IF op.then = "destroy" THEN alive \ {op.list} ELSE alive
  /\ op' = None
  /\ UNCHANGED <<value, allocated, raw, leaked>>

-----------------------------------------------------------------------------
(* assign and copy assignment: elements are overwritten as long as both    *)
(* last, then the rest is inserted or erased.                              *)

assign(l, range) ==
  /\ Idle /\ l \in alive
  /\ op' = [do |-> "assign", list |-> l, at |-> l, curr |-> next[l], todo |-> range,
            goal |-> range]
  /\ UNCHANGED <<next, value, allocated, alive, raw, leaked>>

AssignNext ==
  /\ op.do = "assign" /\ op.curr # null /\ op.todo # << >>
  /\ value' = [value EXCEPT ![op.curr] = Head(op.todo)]
  /\ op' = [op EXCEPT !.at = op.curr, !.curr = next[op.curr], !.todo = Tail(op.todo)]
  /\ UNCHANGED <<next, allocated, alive, raw, leaked>>

\* The assignment of an element throws.
AssignThrows ==
  /\ op.do = "assign" /\ op.curr # null /\ op.todo # << >>
  /\ op' = None
  /\ UNCHANGED <<next, value, allocated, alive, raw, leaked>>

\* mutant: the surplus of a longer list stays
AssignRestKeeps ==
  /\ op.do = "assign" /\ (op.curr = null \/ op.todo = << >>)
  /\ op' = [do |-> "insert", list |-> op.list, at |-> op.at, todo |-> op.todo,
            goal |-> op.goal]
  /\ UNCHANGED <<next, value, allocated, alive, raw, leaked>>

AssignRest ==
  /\ op.do = "assign" /\ (op.curr = null \/ op.todo = << >>)
  /\ op' = IF op.todo = << >>
           THEN Erasure(op.list, op.at, null, "nothing", op.goal)
           ELSE [do |-> "insert", list |-> op.list, at |-> op.at, todo |-> op.todo,
                 goal |-> op.goal]
  /\ UNCHANGED <<next, value, allocated, alive, raw, leaked>>

-----------------------------------------------------------------------------
(* reverse: the node after tail, the former first one, is moved to the     *)
(* front until tail is the last.                                           *)

reverse(l) ==
  /\ Idle /\ l \in alive /\ next[l] # null
  /\ op' = [do |-> "reverse", list |-> l, tail |-> next[l], goal |-> Reverse(Contents(l))]
  /\ UNCHANGED <<next, value, allocated, alive, raw, leaked>>

ReverseNext ==
  /\ op.do = "reverse" /\ next[op.tail] # null
  /\ LET tmp == next[op.tail]
     IN  next' = [next EXCEPT ![op.list] = tmp, ![op.tail] = next[tmp], ![tmp] = next[op.list]]
  /\ UNCHANGED <<value, allocated, alive, raw, op, leaked>>

Reversed ==
  /\ op.do = "reverse" /\ next[op.tail] = null
  /\ op' = None
  /\ UNCHANGED <<next, value, allocated, alive, raw, leaked>>

-----------------------------------------------------------------------------
Step == \/ \E n \in Node : Allocate(n)
        \/ Link \/ CreateThrows \/ Created
        \/ EraseNext \/ Erased
        \/ AssignNext \/ AssignThrows \/ AssignRest
        \/ ReverseNext \/ Reversed

Call == \E l \in List :
  \/ \E r \in Ranges(MaxLen) :
       \/ Construct(l, r)
       \/ assign(l, r)
       \/ \E pos \in Positions(l) : insert_after(l, pos, r)
  \/ \E pos \in Positions(l) :
       \/ erase_after(l, pos)
       \/ \E last \in Following(pos) : erase_range(l, pos, last)
  \/ \E m \in List : MoveConstruct(l, m) \/ MoveAssign(l, m)
  \/ Destroy(l)
  \/ reverse(l)

Next == Step \/ Call

Spec == Init /\ [][Next]_vars
FairSpec == Spec /\ WF_vars(Step)

-----------------------------------------------------------------------------
(* Type invariant. *)
Ref    == Node \cup {null}
Place  == List \cup Node
Insertion == [do : {"construct", "insert"}, list : List, at : Place, todo : Seq(Value),
              goal : Seq(Value)]
Removal   == [do : {"erase"}, list : List, at : Place, curr : Ref, last : Ref,
              then : List \cup {"nothing", "destroy"}, goal : Seq(Value)]
Overwrite == [do : {"assign"}, list : List, at : Place, curr : Ref, todo : Seq(Value),
              goal : Seq(Value)]
Reversal  == [do : {"reverse"}, list : List, tail : Node, goal : Seq(Value)]

TypeOK ==
  /\ next \in [List \cup Node -> Node \cup {null}]
  /\ value \in [Node -> Value \cup {null}]
  /\ allocated \subseteq Node /\ leaked \subseteq Node
  /\ alive \subseteq List
  /\ raw \in Node \cup {null}
  /\ op \in {None} \cup Insertion \cup Removal \cup Overwrite \cup Reversal
  /\ raw # null => op.do \in {"construct", "insert"}

(* The lists whose chains must be whole: not one whose nodes are just      *)
(* being erased.                                                           *)
Whole == {l \in alive : op.do = "erase" => l # op.list}
           \cup (IF op.do = "construct" THEN {op.list} ELSE {})

(* Chains end, hold only allocated nodes with an element in them, and no   *)
(* two lists share a node: at every step of every operation, also of one   *)
(* that just threw.                                                        *)
ChainsSound ==
  /\ \A l \in Whole : /\ Len(After(l)) <= Cardinality(Node)
                      /\ \A n \in Nodes(l) : n \in allocated /\ value[n] # null
  /\ \A l, m \in Whole : l # m => Nodes(l) \cap Nodes(m) = {}

(* Every node is owned: it is in a list, in the hands of create_node, or   *)
(* was lost by a constructor that threw (linked_list.hpp:274 does lose it: *)
(* this property does not count it as a fault); and none of these is given *)
(* back twice.                                                             *)
EveryNodeOwned ==
  LET listed == UNION {Nodes(l) : l \in Whole}
      inHand == IF raw = null THEN {} ELSE {raw}
  IN  IF op.do = "erase"
      THEN /\ listed \cup leaked \subseteq allocated
           /\ op.curr # null => {op.curr} \cup ToSet(After(op.curr)) \subseteq allocated
      ELSE /\ allocated = listed \cup leaked \cup inHand
           /\ leaked \cap (listed \cup inHand) = {}

(* The nodes an operation is about to go through are still there.          *)
CursorsLive ==
  /\ op.do \in {"insert", "assign"} => op.at \in Positions(op.list)
  /\ op.do = "assign" => op.curr = next[op.at]
  /\ op.do = "erase" => op.at = op.list \/ op.at \in allocated
  /\ op.do = "erase" /\ op.curr # op.last =>
       op.curr \in allocated /\ op.last \in ToSet(After(op.curr)) \cup {null}
  /\ op.do = "reverse" => op.tail \in Nodes(op.list)

(* An operation of several steps that ends without a throw leaves in its   *)
(* list what it promised when it was called: copies in order, the erased   *)
(* range gone, everything else untouched, the reversal.  And its steps     *)
(* never change a list it was not called for, unless that is the source of *)
(* a move.  What is one step here, the erasure of a single node, pop_front *)
(* and the move construction, has no goal to compare with.                 *)
GoalReached ==
  [][/\ (Created \/ Erased \/ Reversed) => \A l \in {op.list} : Contents(l)' = op.goal
     /\ Step => \A l \in alive :
          l # op.list /\ ~(op.do = "erase" /\ op.then = l) => Contents(l)' = Contents(l)]_vars

(* Every loop over a list ends. *)
OperationsEnd == ~Idle ~> Idle
=============================================================================
