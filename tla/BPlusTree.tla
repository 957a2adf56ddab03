----------------------------- MODULE BPlusTree -----------------------------
(***************************************************************************)
(* The index over the metadata table (metaStruct.cpp): hashed names to     *)
(* slots, kept in a B+ tree that is saved at a shutdown and loaded at the  *)
(* next start.                                                             *)
(*                                                                         *)
(* A node holds its children, so parent pointers are implicit; nextLeaf is *)
(* left out, since it is saved and loaded but never followed.  The whole   *)
(* tree fits the block it is saved in.  A key is inserted only while it is *)
(* absent, and no two names have the same hash.  One operation at a time.  *)
(***************************************************************************)
EXTENDS Integers, Sequences, FiniteSets, SequencesExt

CONSTANTS
  Order,        \* ORDER
  Keys,         \* the hashes of the names
  Removable,    \* the keys that are removed, moved or renamed away
  Slots,        \* indices of the metadata table
  NoSlot,       \* -1, the answer when a key is not found
  MaxNodes,     \* bound on the node counter: no insert starts beyond it
  MaxRestarts   \* bound on the restarts

ASSUME BPlusTreeAssumption ==
  /\ Order \in Nat /\ Order >= 3
  /\ Keys \subseteq Nat /\ Removable \subseteq Keys
  /\ NoSlot \notin Slots
  /\ MaxNodes \in Nat /\ MaxRestarts \in 0..2

VARIABLES
  root,        \* the tree
  nodes,       \* the counter node numbers are taken from
  index,       \* history: the slot last given for each key
  rebalanced,  \* history: handleInternalUnderflow has touched a node below
               \* the root
  restarts
vars == <<root, nodes, index, rebalanced, restarts>>

Leaf(id, keys, values)    == [id |-> id, leaf |-> TRUE, keys |-> keys, values |-> values]
Inner(id, keys, children) == [id |-> id, leaf |-> FALSE, keys |-> keys, children |-> children]

\* A pointer to a node that was deleted, or one that leads back to its own path.
Freed == Leaf(0, << >>, << >>)

Init ==
  /\ root = Leaf(1, << >>, << >>) /\ nodes = 1
  /\ index = [k \in Keys |-> NoSlot]
  /\ rebalanced = FALSE /\ restarts = 0

-----------------------------------------------------------------------------
(* Paths of child positions from a node, and what std::upper_bound and     *)
(* std::lower_bound count.                                                 *)

\* Mutant: a key that is in an inner node is looked for on its left.
UpTo_Strict(keys, key) == Cardinality({i \in DOMAIN keys : keys[i] < key})

UpTo(keys, key)  == Cardinality({i \in DOMAIN keys : keys[i] <= key})
Below(keys, key) == Cardinality({i \in DOMAIN keys : keys[i] < key})

RECURSIVE At(_, _)
At(n, path) == IF path = << >> THEN n ELSE At(n.children[Head(path)], Tail(path))

RECURSIVE With(_, _, _)
With(n, path, m) ==
  IF path = << >> THEN m
  ELSE [n EXCEPT !.children[Head(path)] = With(@, Tail(path), m)]

RECURSIVE NodesIn(_)
NodesIn(n) ==
  {n} \union (IF n.leaf THEN {} ELSE UNION {NodesIn(c) : c \in ToSet(n.children)})

RECURSIVE findLeafNode(_, _)
findLeafNode(n, key) ==
  IF n.leaf THEN << >>
  ELSE LET i == UpTo(n.keys, key) + 1 IN <<i>> \o findLeafNode(n.children[i], key)

LeafOf(key) == At(root, findLeafNode(root, key))
searchFile(key) ==
  LET leaf == LeafOf(key)
      at == {i \in DOMAIN leaf.keys : leaf.keys[i] = key}
  IN IF at = {} THEN NoSlot ELSE leaf.values[CHOOSE i \in at : TRUE]

-----------------------------------------------------------------------------
(* insert.  A tree under change is the pair of its root and the counter.   *)

\* Mutant: the middle key of a leaf stays on the left.
Halves_KeepMiddle(n, id) ==
  LET mid == Len(n.keys) \div 2
      rest(s, i) == SubSeq(s, i, Len(s))
  IN IF n.leaf
     THEN [left  |-> Leaf(n.id, SubSeq(n.keys, 1, mid + 1), SubSeq(n.values, 1, mid + 1)),
           key   |-> n.keys[mid + 1],
           right |-> Leaf(id, rest(n.keys, mid + 2), rest(n.values, mid + 2))]
     ELSE [left  |-> Inner(n.id, SubSeq(n.keys, 1, mid), SubSeq(n.children, 1, mid + 1)),
           key   |-> n.keys[mid + 1],
           right |-> Inner(id, rest(n.keys, mid + 2), rest(n.children, mid + 2))]

\* The two halves of a full node: a leaf keeps the middle key on the right,
\* an inner node gives it away.
Halves(n, id) ==
  LET mid == Len(n.keys) \div 2
      rest(s, i) == SubSeq(s, i, Len(s))
  IN IF n.leaf
     THEN [left  |-> Leaf(n.id, SubSeq(n.keys, 1, mid), SubSeq(n.values, 1, mid)),
           key   |-> n.keys[mid + 1],
           right |-> Leaf(id, rest(n.keys, mid + 1), rest(n.values, mid + 1))]
     ELSE [left  |-> Inner(n.id, SubSeq(n.keys, 1, mid), SubSeq(n.children, 1, mid + 1)),
           key   |-> n.keys[mid + 1],
           right |-> Inner(id, rest(n.keys, mid + 2), rest(n.children, mid + 2))]

\* splitLeafNode, insertInternal and splitInternalNode, from path upwards.
RECURSIVE Split(_, _, _)
Split(tree, count, path) ==
  LET n == At(tree, path)
      half == Halves(n, count + 1)
      parent == At(tree, Front(path))
      i == UpTo(parent.keys, half.key)
      above == Inner(parent.id, InsertAt(parent.keys, i + 1, half.key),
                     InsertAt([parent.children EXCEPT ![Last(path)] = half.left],
                              i + 2, half.right))
  IN IF Len(n.keys) < Order THEN <<tree, count>>
     ELSE IF path = << >>
     THEN <<Inner(count + 2, <<half.key>>, <<half.left, half.right>>), count + 2>>
     ELSE Split(With(tree, Front(path), above), count + 1, Front(path))

-----------------------------------------------------------------------------
(* Underflow.  The result is the root and whether an inner node below the  *)
(* root was rebalanced.                                                    *)

\* The fewest keys of a node below the root.
Least == (Order + 1) \div 2 - 1

\* handleInternalUnderflow.  Neither a borrow nor a merge passes the key
\* between the two siblings through the parent, and a merge to the right
\* deletes the node it merges into.
RECURSIVE InternalUnderflow(_, _)
InternalUnderflow(tree, path) ==
  LET node == At(tree, path)
      up == Front(path)
      i == Last(path)
      parent == At(tree, up)
      left == parent.children[i - 1]
      right == parent.children[i + 1]
      Spare(sibling) == Len(sibling.keys) > Least
      Merged(p) ==
        IF Len(p.keys) < Least THEN <<InternalUnderflow(With(tree, up, p), up)[1], TRUE>>
        ELSE <<With(tree, up, p), TRUE>>
  IN IF path = << >>
     THEN <<IF node.keys = << >> /\ Len(node.children) = 1 THEN node.children[1]
            ELSE node, FALSE>>
     ELSE IF i > 1 /\ Spare(left)
     THEN <<With(tree, up,
              [parent EXCEPT
                 !.children[i] = Inner(node.id, <<Last(left.keys)>> \o node.keys,
                                       <<Last(left.children)>> \o node.children),
                 !.children[i - 1] = Inner(left.id, Front(left.keys), Front(left.children)),
                 !.keys[i - 1] = Last(left.keys)]), TRUE>>
     ELSE IF i < Len(parent.children) /\ Spare(right)
     THEN <<With(tree, up,
              [parent EXCEPT
                 !.children[i] = Inner(node.id, Append(node.keys, Head(right.keys)),
                                       Append(node.children, Head(right.children))),
                 !.children[i + 1] = Inner(right.id, Tail(right.keys), Tail(right.children)),
                 !.keys[i] = right.keys[2]]), TRUE>>
     ELSE IF i > 1
     THEN Merged(Inner(parent.id, RemoveAt(parent.keys, i - 1),
                       RemoveAt([parent.children EXCEPT ![i - 1] =
                                   Inner(left.id, left.keys \o node.keys,
                                         left.children \o node.children)], i)))
     ELSE Merged(Inner(parent.id, RemoveAt(parent.keys, i),
                       RemoveAt([parent.children EXCEPT ![i] = Freed], i + 1)))

\* handleLeafUnderflow and mergeLeafNodes.  A merge with the right sibling
\* moves its keys here and then deletes this leaf, which the parent keeps.
LeafUnderflow(tree, path) ==
  LET leaf == At(tree, path)
      up == Front(path)
      i == Last(path)
      parent == At(tree, up)
      left == parent.children[i - 1]
      right == parent.children[i + 1]
      Spare(sibling) == Len(sibling.keys) > Least
      Merged(p) ==
        IF Len(p.keys) < Least THEN InternalUnderflow(With(tree, up, p), up)
        ELSE <<With(tree, up, p), FALSE>>
  IN IF path = << >> THEN <<tree, FALSE>>
     ELSE IF i > 1 /\ Spare(left)
     THEN <<With(tree, up,
              [parent EXCEPT
                 !.children[i] = Leaf(leaf.id, <<Last(left.keys)>> \o leaf.keys,
                                      <<Last(left.values)>> \o leaf.values),
                 !.children[i - 1] = Leaf(left.id, Front(left.keys), Front(left.values)),
                 !.keys[i - 1] = Last(left.keys)]), FALSE>>
     ELSE IF i < Len(parent.children) /\ Spare(right)
     THEN <<With(tree, up,
              [parent EXCEPT
                 !.children[i] = Leaf(leaf.id, Append(leaf.keys, Head(right.keys)),
                                      Append(leaf.values, Head(right.values))),
                 !.children[i + 1] = Leaf(right.id, Tail(right.keys), Tail(right.values)),
                 !.keys[i] = right.keys[2]]), FALSE>>
     ELSE IF i > 1
     THEN Merged(Inner(parent.id, RemoveAt(parent.keys, i - 1),
                       RemoveAt([parent.children EXCEPT ![i - 1] =
                                   Leaf(left.id, left.keys \o leaf.keys,
                                        left.values \o leaf.values)], i)))
     ELSE Merged(Inner(parent.id, RemoveAt(parent.keys, i),
                       RemoveAt([parent.children EXCEPT ![i] = Freed], i + 1)))

-----------------------------------------------------------------------------
(* The operations of the index.  After a node was freed that the tree still *)
(* reaches, anything may happen; after an inner node was rebalanced, the    *)
(* tree is no search tree; after a second load, two parents may share a     *)
(* child.  The model stops at all three.                                    *)

Intact == Freed \notin NodesIn(root)
Usable == Intact /\ ~rebalanced /\ restarts < 2

Changed(result) ==
  /\ root' = result[1]
  /\ rebalanced' = (rebalanced \/ result[2])

\* insert; the leaf that was split is refilled from its siblings when its half
\* is small.
insert(key, slot) ==
  LET path == findLeafNode(root, key)
      leaf == At(root, path)
      i == Below(leaf.keys, key) + 1
      grown == Leaf(leaf.id, InsertAt(leaf.keys, i, key), InsertAt(leaf.values, i, slot))
      split == Split(With(root, path, grown), nodes, path)
      first == findLeafNode(split[1], grown.keys[1])
  IN /\ Usable /\ index[key] = NoSlot /\ nodes < MaxNodes
     /\ nodes' = split[2]
     /\ Changed(IF Len(At(split[1], first).keys) < (Order + 1) \div 2
                THEN LeafUnderflow(split[1], first) ELSE <<split[1], FALSE>>)
     /\ index' = [index EXCEPT ![key] = slot]
     /\ UNCHANGED restarts

\* update, when the table was renumbered; nothing happens for an absent key.
update(key, slot) ==
  LET path == findLeafNode(root, key)
  IN /\ Usable /\ searchFile(key) # NoSlot
     /\ root' = With(root, path,
                  [At(root, path) EXCEPT !.values =
                     [j \in DOMAIN @ |-> IF At(root, path).keys[j] = key THEN slot ELSE @[j]]])
     /\ index' = [index EXCEPT ![key] = slot]
     /\ UNCHANGED <<nodes, rebalanced, restarts>>

\* The parent's copy of a removed first key becomes the next key; the loop
\* stops before the last child.
Lowered(tree, path) ==
  LET up == Front(path)
      i == Last(path)
      keys == At(tree, path).keys
  IN IF path # << >> /\ i > 1 /\ keys # << >> /\ i <= Len(At(tree, up).keys)
     THEN With(tree, up, [At(tree, up) EXCEPT !.keys[i - 1] = keys[1]])
     ELSE tree

\* Mutant: a leaf that runs low is left alone.
remove_NoRefill(key) ==
  LET path == findLeafNode(root, key)
      leaf == At(root, path)
      i == Below(leaf.keys, key) + 1
      shrunk == With(root, path, Leaf(leaf.id, RemoveAt(leaf.keys, i),
                                      RemoveAt(leaf.values, i)))
  IN /\ Usable /\ searchFile(key) # NoSlot
     /\ Changed(<<IF i = 1 THEN Lowered(shrunk, path) ELSE shrunk, FALSE>>)
     /\ index' = [index EXCEPT ![key] = NoSlot]
     /\ UNCHANGED <<nodes, restarts>>

remove(key) ==
  LET path == findLeafNode(root, key)
      leaf == At(root, path)
      i == Below(leaf.keys, key) + 1
      shrunk == With(root, path, Leaf(leaf.id, RemoveAt(leaf.keys, i),
                                      RemoveAt(leaf.values, i)))
      lowered == IF i = 1 THEN Lowered(shrunk, path) ELSE shrunk
      filled == IF path # << >> /\ Len(leaf.keys) - 1 < Least
                THEN LeafUnderflow(lowered, path) ELSE <<lowered, FALSE>>
      top == filled[1]
  IN /\ Usable /\ searchFile(key) # NoSlot
     /\ Changed(<<IF top.keys = << >> /\ ~top.leaf THEN top.children[1] ELSE top, filled[2]>>)
     /\ index' = [index EXCEPT ![key] = NoSlot]
     /\ UNCHANGED <<nodes, restarts>>

-----------------------------------------------------------------------------
(* A shutdown and the next start.                                          *)

\* saveBPlusTree: the nodes in breadth-first order, one for each number.
RECURSIVE Saved(_, _)
Saved(queue, visited) ==
  IF queue = << >> THEN << >>
  ELSE LET n == Head(queue)
       IN IF n.id \in visited THEN Saved(Tail(queue), visited)
          ELSE <<n>> \o Saved(Tail(queue) \o (IF n.leaf THEN << >> ELSE n.children),
                              visited \union {n.id})

\* loadBPlusTree: a child is whatever node has its number now.  Since the save
\* wrote the first node of a number, only descent can lead back.
RECURSIVE Loaded(_, _, _)
Loaded(disk, n, above) ==
  IF n.id \in above THEN Freed
  ELSE IF n.leaf THEN n
  ELSE Inner(n.id, n.keys,
         [i \in DOMAIN n.children |->
            LET m == CHOOSE m \in ToSet(disk) : m.id = n.children[i].id
            IN Loaded(disk, m, above \union {n.id})])

\* The constructor numbers its own root 1, and the load does not restore the
\* counter.
Restart ==
  /\ Usable /\ restarts < MaxRestarts
  /\ LET disk == Saved(<<root>>, {}) IN root' = Loaded(disk, Head(disk), {})
  /\ nodes' = 1 /\ restarts' = restarts + 1
  /\ UNCHANGED <<index, rebalanced>>

Next ==
  \/ \E key \in Keys, slot \in Slots : insert(key, slot)
  \/ \E key \in Removable : remove(key) \/ \E slot \in Slots : update(key, slot)
  \/ Restart

Spec == Init /\ [][Next]_vars

-----------------------------------------------------------------------------
(* Properties.                                                             *)

InnerNodes == {n \in NodesIn(root) : ~n.leaf}

\* Every node has as many values as keys, or one child more; no node is full.
TypeOK ==
  /\ nodes \in Nat /\ restarts \in 0..MaxRestarts /\ rebalanced \in BOOLEAN
  /\ index \in [Keys -> Slots \union {NoSlot}]
  /\ Usable => \A n \in NodesIn(root) :
       /\ n.id \in Nat /\ n.keys \in Seq(Keys) /\ Len(n.keys) < Order
       /\ IF n.leaf THEN n.values \in Seq(Slots) /\ Len(n.values) = Len(n.keys)
          ELSE Len(n.children) = Len(n.keys) + 1

\* As long as no inner node was rebalanced and no node was freed, the search
\* answers for every name with the slot it was last given, over splits,
\* borrows, merges and a restart.
UsableIsRight == Usable => \A key \in Keys : searchFile(key) = index[key]

\* The keys of a child lie between the keys of its parent beside it.
Separated ==
  Usable => \A n \in InnerNodes : \A i \in DOMAIN n.children :
    \A m \in NodesIn(n.children[i]) : \A j \in DOMAIN m.keys :
      /\ i > 1 => n.keys[i - 1] <= m.keys[j]
      /\ i <= Len(n.keys) => m.keys[j] < n.keys[i]

RECURSIVE Depths(_)
Depths(n) == IF n.leaf THEN {0} ELSE {d + 1 : d \in UNION {Depths(c) : c \in ToSet(n.children)}}

\* All leaves are equally deep, and none below an inner node runs empty.
Balanced ==
  Usable => /\ Cardinality(Depths(root)) = 1
            /\ \A n \in InnerNodes : \A c \in ToSet(n.children) : Len(c.keys) >= Least

\* The claim without the condition: the index finds what was put into it.
SearchFinds == \A key \in Keys : searchFile(key) = index[key]
=============================================================================
