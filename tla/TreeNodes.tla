------------------------------ MODULE TreeNodes -------------------------------
(* data::mapping::Tree as the program's memory sees it: a node keeps its type *)
(* and a word, which is a number or the address of a container it owns.  The  *)
(* order of a map and of attributes is a list of addresses into the container. *)
EXTENDS Integers, Sequences, FiniteSets, SequencesExt

CONSTANTS Variables,    \* how many trees the program holds in variables
          Keys, AttributeNames,
          Leaves, Kinds, \* the types of nodes that are set: without a container, with one
          MaxContainers,
          MaxSlots      \* children of a container

VARIABLE heap           \* the containers that live, by address, and at 0 the variables

Containers == {"VECTOR", "MAP", "PAIRS"}

ASSUME TreeConstants ==
  /\ Variables \in Nat /\ MaxContainers \in Nat /\ MaxSlots \in Nat
  /\ Leaves \cap Containers = {} /\ Kinds \subseteq Containers

Tree(type, data, attributes) == [type |-> type, data |-> data, attributes |-> attributes]
UndefinedTree == Tree("UNDEFINED", 0, <<>>)

\* A container: its children with their keys, and, in a map, the order: keys with the
\* address and key that the entry points at.
Container(kind) == [kind |-> kind, slots |-> <<>>, order |-> <<>>]
Slot(key, tree) == [key |-> key, tree |-> tree]

-----------------------------------------------------------------------------
(* Places of nodes: a variable, or a child by its container and index.        *)
(* memory is a heap.                                                          *)

Owns(tree) == tree.type \in Containers
Places(memory) == UNION {{id} \X DOMAIN memory[id].slots : id \in DOMAIN memory}
NodeAt(p, memory) == memory[p[1]].slots[p[2]].tree
At(p) == NodeAt(p, heap)

\* The memory with another node at a place.
Stored(p, tree, memory) == [memory EXCEPT ![p[1]].slots[p[2]].tree = tree]

\* The containers that a node owns: its own, those of its children, and so on.
Closed(S, memory) ==
  \A id \in S : \A k \in DOMAIN memory[id].slots :
    Owns(NodeAt(<<id, k>>, memory)) => NodeAt(<<id, k>>, memory).data \in S
Below(tree, memory) ==
  LET owners == {S \in SUBSET DOMAIN memory : tree.data \in S /\ Closed(S, memory)}
  IN IF Owns(tree) THEN {i \in DOMAIN memory : \A S \in owners : i \in S} ELSE {}
PlacesIn(p) ==
  LET below == Below(At(p), heap) IN {p} \cup {q \in Places(heap) : q[1] \in below}

\* deleteValueObject: the node's container goes with all below it.
deleteValueObject(tree, memory) ==
  [id \in DOMAIN memory \ Below(tree, memory) |-> memory[id]]

FreeIds(memory) == 1 .. MaxContainers \ DOMAIN memory

-----------------------------------------------------------------------------
(* Copies.  at says which new address stands for an old one.                  *)

\* Mutant: the copied order still points into the original.
MutReordered(container, id) == container

\* TreeMap::operator=: the entries of the copied order are pointed at the own map.
Reordered(container, id) ==
  [container EXCEPT !.order = [i \in DOMAIN @ |-> [key |-> @[i].key, at |-> <<id, @[i].key>>]]]

Relocated(tree, at) == IF Owns(tree) THEN [tree EXCEPT !.data = at[@]] ELSE tree
RelocatedSlots(slots, at) == [i \in DOMAIN slots |-> Slot(slots[i].key, Relocated(slots[i].tree, at))]

\* setCopy's new containers: every child is copied, each into a container of its own.
CopyOf(container, id, at) ==
  [Reordered(container, id) EXCEPT !.slots = RelocatedSlots(@, at)]

\* Copies and moves are between nodes of which neither is in the other: the code deletes
\* the old value before it looks at the new one.
Apart(p, q) == p \notin PlacesIn(q) /\ q \notin PlacesIn(p)

\* setCopy and setMove: the memory after the call.  The node that was moved is null, its
\* attributes have gone with it.
Allocations(p, q) ==
  {at \in [Below(At(q), heap) -> FreeIds(deleteValueObject(At(p), heap))] :
     \A i, j \in DOMAIN at : at[i] = at[j] => i = j}

AfterCopy(p, q, at) ==
  LET kept == deleteValueObject(At(p), heap)
      copies == {at[i] : i \in DOMAIN at}
  IN Stored(p, Relocated(At(q), at),
            [id \in DOMAIN kept \cup copies |->
               IF id \in copies
               THEN LET old == CHOOSE i \in DOMAIN at : at[i] = id IN CopyOf(heap[old], id, at)
               ELSE kept[id]])

AfterMove(p, q) ==
  Stored(p, At(q), Stored(q, Tree("NULL_VALUE", 0, <<>>), deleteValueObject(At(p), heap)))

-----------------------------------------------------------------------------
TreeInit ==
  heap = [id \in {0} |-> [Container("STACK") EXCEPT
                            !.slots = [v \in 1 .. Variables |-> Slot("", UndefinedTree)]]]

\* setNull, setUndefined, setInteger, setFloat, setString, setPrimitive: the value object
\* is deleted; the attributes stay.
SetLeaf(p) ==
  \E leaf \in Leaves :
    heap' = Stored(p, Tree(leaf, 0, At(p).attributes), deleteValueObject(At(p), heap))

\* setVector, setMap and setPairs with an empty value; getVector, getMap and getPairs do
\* it to a node that is undefined.
SetContainer(p, kind) ==
  LET kept == deleteValueObject(At(p), heap) IN
  \E new \in FreeIds(kept) :
    heap' = Stored(p, Tree(kind, new, At(p).attributes),
                   [id \in DOMAIN kept \cup {new} |->
                      IF id = new THEN Container(kind) ELSE kept[id]])

\* TreeMap::operator[] of an absent key.
NewKey(p, key) ==
  LET id == At(p).data IN
  /\ At(p).type = "MAP"
  /\ Len(heap[id].slots) < MaxSlots
  /\ \A i \in DOMAIN heap[id].slots : heap[id].slots[i].key # key
  /\ heap' = [heap EXCEPT
       ![id].slots = Append(@, Slot(key, UndefinedTree)),
       ![id].order = Append(@, [key |-> key, at |-> <<id, key>>])]

\* A vector grows by an item and a list by a pair: the nodes that are there are moved.
PushBack(p, key) ==
  /\ At(p).type \in {"VECTOR", "PAIRS"} /\ (key = "" <=> At(p).type = "VECTOR")
  /\ Len(heap[At(p).data].slots) < MaxSlots
  /\ heap' = [heap EXCEPT ![At(p).data].slots = Append(@, Slot(key, UndefinedTree))]

SetAttribute(p, key) ==
  /\ key \notin Range(At(p).attributes)
  /\ heap' = Stored(p, [At(p) EXCEPT !.attributes = Append(@, key)], heap)

Copy(p, q) == Apart(p, q) /\ \E at \in Allocations(p, q) : heap' = AfterCopy(p, q, at)
Move(p, q) == Apart(p, q) /\ heap' = AfterMove(p, q)

TreeNext ==
  \E p \in Places(heap) :
    \/ SetLeaf(p)
    \/ \E kind \in Kinds : SetContainer(p, kind)
    \/ \E key \in Keys : NewKey(p, key)
    \/ \E key \in Keys \cup {""} : PushBack(p, key)
    \/ \E key \in AttributeNames : SetAttribute(p, key)
    \/ \E q \in Places(heap) : Copy(p, q) \/ Move(p, q)

TreeSpec == TreeInit /\ [][TreeNext]_heap

-----------------------------------------------------------------------------
Reachable == UNION {PlacesIn(<<0, v>>) : v \in 1 .. Variables}
OwnersOf(id) == {p \in Reachable : Owns(At(p)) /\ At(p).data = id}

\* Every container that lives has one owner in reach, which is of its kind: nothing
\* leaks, and nothing would be deleted twice (deleteValueObject, setCopy, setMove).
OneOwner ==
  /\ \A id \in DOMAIN heap \ {0} :
       Cardinality(OwnersOf(id)) = 1 /\ \A p \in OwnersOf(id) : At(p).type = heap[id].kind
  /\ \A p \in Reachable : Owns(At(p)) => At(p).data \in DOMAIN heap

\* A map has no key twice, and its order names each of its keys once and points at its
\* own nodes, also after copies and moves (TreeMap).
OrderIsOwn ==
  \A id \in DOMAIN heap : heap[id].kind = "MAP" =>
    /\ Len(heap[id].order) = Len(heap[id].slots)
    /\ \A i, j \in DOMAIN heap[id].slots :
         heap[id].slots[i].key = heap[id].slots[j].key => i = j
    /\ \A i \in DOMAIN heap[id].slots :
         \E j \in DOMAIN heap[id].order :
           heap[id].order[j] = [key |-> heap[id].slots[i].key,
                                at |-> <<id, heap[id].slots[i].key>>]

\* Two nodes say the same when their values, and their containers' one by one, differ in
\* nothing but addresses: f leads from the containers of one to those of the other.  A map
\* is read in its order, through the addresses.
SameContainer(one, other, f) ==
  /\ other.kind = one.kind
  /\ other.slots = RelocatedSlots(one.slots, f)
  /\ Len(other.order) = Len(one.order)
  /\ \A i \in DOMAIN one.order :
       /\ one.order[i].at[1] \in DOMAIN f
       /\ other.order[i] = [key |-> one.order[i].key,
                            at |-> <<f[one.order[i].at[1]], one.order[i].at[2]>>]
SayTheSame(tree, memory, other, otherMemory) ==
  \E f \in [Below(tree, memory) -> Below(other, otherMemory)] :
    /\ other = Relocated(tree, f)
    /\ \A i \in DOMAIN f : SameContainer(memory[i], otherMemory[f[i]], f)

\* After a call that has assigned the node at q to the one at p, p says what q said, and so
\* do the variables that have no part in it.
SaysStill(p, memory) == SayTheSame(NodeAt(p, memory), memory, At(p), heap)
Assigned(p, q, memory) ==
  /\ SayTheSame(NodeAt(p, memory), memory, At(q), heap)
  /\ \A v \in 1 .. Variables :
       {p, q} \cap PlacesIn(<<0, v>>) = {} => SaysStill(<<0, v>>, memory)

\* Whenever a node is assigned: a copy says what its original says, which keeps saying it,
\* a node that is moved says it in its new place, and the variables that have no part in
\* it say what they said (Tree::setCopy, Tree::setMove, TreeMap::operator=).
AssignmentsTakeValues ==
  \A p, q \in Reachable : Apart(p, q) =>
    /\ \A at \in Allocations(p, q) :
         Assigned(p, q, AfterCopy(p, q, at)) /\ SaysStill(q, AfterCopy(p, q, at))
    /\ Assigned(p, q, AfterMove(p, q))

\* Trees own their values, keep their order and take what they are assigned
\* (data/mapping/Tree.cpp).
TreesOwnValues == OneOwner /\ OrderIsOwn /\ AssignmentsTakeValues
=============================================================================
