------------------------------- MODULE RbTree -------------------------------
(* The red-black tree below the timers, the caches and the limits:               *)
(* core/ngx_rbtree.c.                                                            *)
(*                                                                               *)
(* Insertion and deletion are one step for the change of the binary tree and one *)
(* for each iteration of the loop that balances it.  The code writes each        *)
(* iteration twice, for the two sides: here the side is a parameter.  Keys are   *)
(* words that wrap, compared by the sign of their difference, as timers are.     *)
EXTENDS Integers, Sequences, FiniteSets

CONSTANTS
  TreeNodes,   \* the nodes, 1..n
  Sentinel,    \* the leaf of the tree
  Word,        \* 2^w: keys are taken modulo Word
  KeyOf        \* node -> its key

ASSUME TreeAssumption == Sentinel \notin TreeNodes /\ Word \in Nat \ {0}

VARIABLES
  rb,    \* [root, child, parent, red]
  inTree,    \* the nodes the caller has put in
  fixing   \* <<the loop that runs, its node>>

treeVars == <<rb, inTree, fixing>>

Left == "left"
Right == "right"
Other(side) == IF side = Left THEN Right ELSE Left

Settled == <<"settled", Sentinel>>

Links == TreeNodes \cup {Sentinel}

TreeInit ==
  /\ rb = [root |-> Sentinel, child |-> [side \in {Left, Right} |-> [n \in Links |-> Sentinel]],
             parent |-> [n \in Links |-> Sentinel], red |-> {}]
  /\ inTree = {} /\ fixing = Settled

Child(t, side, n) == t.child[side][n]
SideOf(t, n) == IF n = Child(t, Left, t.parent[n]) THEN Left ELSE Right
IsRed(t, n) == n \in t.red
Black(t, n) == [t EXCEPT !.red = @ \ {n}]
Red(t, n) == [t EXCEPT !.red = @ \cup {n}]
CopyColor(t, to, from) == IF IsRed(t, from) THEN Red(t, to) ELSE Black(t, to)

\* t with the link to node replaced by one to temp
Replaced(t, node, temp) ==
  IF node = t.root THEN [t EXCEPT !.root = temp]
  ELSE [t EXCEPT !.child[SideOf(t, node)][t.parent[node]] = temp]

\* the parent of a sentinel is left alone
Adopted(t, n, parent) == IF n = Sentinel THEN t ELSE [t EXCEPT !.parent[n] = parent]

\* ngx_rbtree_left_rotate(), and with the sides exchanged ngx_rbtree_right_rotate()
Hung(t, side, node, temp) ==
  [t EXCEPT !.child[side][temp] = node, !.parent[node] = temp]
Lifted(t, side, node, temp) ==
  Hung(Replaced([Adopted([t EXCEPT !.child[Other(side)][node] = Child(t, side, temp)],
                         Child(t, side, temp), node)
                   EXCEPT !.parent[temp] = t.parent[node]],
                node, temp),
       side, node, temp)
Rotate(t, side, node) == Lifted(t, side, node, Child(t, Other(side), node))

----------------------------------------------------------------------------
(* Insertion.                                                                    *)

\* the comparison of ngx_rbtree_insert_timer_value(): the sign of the difference of
\* two words; ngx_rbtree_insert_value() compares keys that do not wrap
Before(a, b) == (KeyOf[a] - KeyOf[b]) % Word >= Word \div 2

\* where the node belongs: the last node of the descent
RECURSIVE Descend(_, _, _)
Turn(node, temp) == IF Before(node, temp) THEN Left ELSE Right
Descend(t, temp, node) ==
  IF Child(t, Turn(node, temp), temp) = Sentinel THEN temp
  ELSE Descend(t, Child(t, Turn(node, temp), temp), node)

Leaf(t, node) ==
  [t EXCEPT !.child[Left][node] = Sentinel, !.child[Right][node] = Sentinel]

InsertedAt(t, temp, node) ==
  [Red(Leaf(t, node), node) EXCEPT !.child[Turn(node, temp)][temp] = node, !.parent[node] = temp]

Insert(node) ==
  /\ fixing = Settled /\ node \notin inTree
  /\ inTree' = inTree \cup {node}
  /\ \/ /\ rb.root = Sentinel
        /\ rb' = [Black(Leaf(rb, node), node) EXCEPT !.root = node, !.parent[node] = Sentinel]
        /\ UNCHANGED fixing
     \/ /\ rb.root # Sentinel
        /\ rb' = InsertedAt(rb, Descend(rb, rb.root, node), node)
        /\ fixing' = <<"insert", node>>

\* the uncle is red: the colours move up
Recolored(t, parent, uncle) == Red(Black(Black(t, parent), uncle), t.parent[parent])

\* the uncle is black: the node on the inner side is first turned to the outer one
\* MUTANT: it is not
TurnedNever(t, side, node) == t
Turned(t, side, node) == IF SideOf(t, node) = side THEN t ELSE Rotate(t, side, t.parent[node])
TopOf(t, side, node) == IF SideOf(t, node) = side THEN t.parent[node] ELSE node
Raised(t, side, parent, grandparent) ==
  Rotate(Red(Black(t, parent), grandparent), Other(side), grandparent)

RebalanceInsert ==
  \E node \in TreeNodes :
    /\ fixing = <<"insert", node>>
    /\ \/ /\ node = rb.root \/ ~IsRed(rb, rb.parent[node])
          /\ rb' = Black(rb, rb.root)
          /\ fixing' = Settled
       \/ /\ node # rb.root /\ IsRed(rb, rb.parent[node])
          /\ \E parent \in {rb.parent[node]} :
               \E side \in {SideOf(rb, parent)}, grandparent \in {rb.parent[parent]} :
                 \E uncle \in {Child(rb, Other(side), grandparent)} :
                   \/ /\ IsRed(rb, uncle)
                      /\ rb' = Recolored(rb, parent, uncle)
                      /\ fixing' = <<"insert", grandparent>>
                   \/ /\ ~IsRed(rb, uncle)
                      /\ rb' = Raised(Turned(rb, side, node), side,
                                        TopOf(rb, side, node), grandparent)
                      /\ fixing' = <<"insert", IF SideOf(rb, node) = side THEN node ELSE parent>>
    /\ UNCHANGED inTree

----------------------------------------------------------------------------
(* Deletion.                                                                     *)

RECURSIVE MinBelow(_, _)
MinBelow(t, n) == IF Child(t, Left, n) = Sentinel THEN n ELSE MinBelow(t, Child(t, Left, n))

\* the node that leaves its place, and the one that takes the place it leaves
Subst(t, node) ==
  IF Child(t, Left, node) = Sentinel \/ Child(t, Right, node) = Sentinel THEN node
  ELSE MinBelow(t, Child(t, Right, node))
Temp(t, subst) ==
  IF Child(t, Left, subst) = Sentinel THEN Child(t, Right, subst) ELSE Child(t, Left, subst)

\* subst in the place, with the links and the colour, of the node
Placed(t, node, subst) ==
  CopyColor([t EXCEPT !.child[Left][subst] = Child(t, Left, node),
                      !.child[Right][subst] = Child(t, Right, node),
                      !.parent[subst] = t.parent[node]],
            subst, node)
InPlace(t, node, subst) ==
  Adopted(Adopted(Replaced(Placed(t, node, subst), node, subst),
                  Child(t, Left, node), subst),
          Child(t, Right, node), subst)

\* subst cut out: its child, the sentinel too, has a new parent
CutOut(t, node, subst, temp) ==
  [[t EXCEPT !.child[SideOf(t, subst)][t.parent[subst]] = temp]
     EXCEPT !.parent[temp] =
       IF subst # node /\ t.parent[subst] = node THEN subst ELSE t.parent[subst]]

Without(t, node, subst, temp) ==
  IF subst = node THEN CutOut(t, node, subst, temp)
  ELSE InPlace(CutOut(t, node, subst, temp), node, subst)

\* the links and the key of the node are cleared
Cleared(t, node) ==
  [t EXCEPT !.child[Left][node] = Sentinel, !.child[Right][node] = Sentinel,
            !.parent[node] = Sentinel, !.red = @ \ {node}]

Delete(node) ==
  /\ fixing = Settled /\ node \in inTree
  /\ inTree' = inTree \ {node}
  /\ \E subst \in {Subst(rb, node)} : \E temp \in {Temp(rb, subst)} :
       \/ /\ subst = rb.root
          /\ rb' = Cleared(Black([rb EXCEPT !.root = temp], temp), node)
          /\ UNCHANGED fixing
       \/ /\ subst # rb.root
          /\ rb' = Cleared(Without(rb, node, subst, temp), node)
          /\ fixing' = IF IsRed(rb, subst) THEN Settled ELSE <<"delete", temp>>

\* the sibling of temp, made black by a rotation if it is red
WithBlackSibling(t, side, temp, w) ==
  IF IsRed(t, w) THEN Rotate(Red(Black(t, w), t.parent[temp]), side, t.parent[temp]) ELSE t
\* its child on the far side, made red by a rotation if it is black
WithRedFar(t, side, w) ==
  IF IsRed(t, Child(t, Other(side), w)) THEN t
  ELSE Rotate(Red(Black(t, Child(t, side, w)), w), Other(side), w)
LastTurn(t, side, parent, w) ==
  Rotate(Black(Black(CopyColor(t, w, parent), parent), Child(t, Other(side), w)), side, parent)

Sibling(t, temp, side) == Child(t, Other(side), t.parent[temp])

RebalanceDelete ==
  \E temp \in Links :
    /\ fixing = <<"delete", temp>>
    /\ \/ /\ temp = rb.root \/ IsRed(rb, temp)
          /\ rb' = Black(rb, temp)
          /\ fixing' = Settled
       \/ /\ temp # rb.root /\ ~IsRed(rb, temp)
          /\ \E side \in {SideOf(rb, temp)} :
               \E t \in {WithBlackSibling(rb, side, temp, Sibling(rb, temp, side))} :
                 \E w \in {Sibling(t, temp, side)} :
                   \/ /\ ~IsRed(t, Child(t, Left, w)) /\ ~IsRed(t, Child(t, Right, w))
                      /\ rb' = Red(t, w)
                      /\ fixing' = <<"delete", t.parent[temp]>>
                   \/ /\ IsRed(t, Child(t, Left, w)) \/ IsRed(t, Child(t, Right, w))
                      /\ \E u \in {WithRedFar(t, side, w)} :
                           rb' = LastTurn(u, side, u.parent[temp], Sibling(u, temp, side))
                      /\ fixing' = <<"delete", rb'.root>>
    /\ UNCHANGED inTree

TreeNext ==
  \/ \E node \in TreeNodes : Insert(node) \/ Delete(node)
  \/ RebalanceInsert \/ RebalanceDelete

----------------------------------------------------------------------------
(* What the users of the tree rely on.                                           *)

RECURSIVE InOrder(_, _)
InOrder(t, n) ==
  IF n = Sentinel THEN <<>>
  ELSE InOrder(t, Child(t, Left, n)) \o <<n>> \o InOrder(t, Child(t, Right, n))

\* the number of black nodes on every way down, -1 when they differ
RECURSIVE BlackHeight(_, _)
BlackHeight(t, n) ==
  IF n = Sentinel THEN 0
  ELSE IF BlackHeight(t, Child(t, Left, n)) # BlackHeight(t, Child(t, Right, n)) THEN -1
  ELSE IF BlackHeight(t, Child(t, Left, n)) = -1 THEN -1
  ELSE BlackHeight(t, Child(t, Left, n)) + IF IsRed(t, n) THEN 0 ELSE 1

\* After any insertions and deletions (ngx_rbtree_insert(), ngx_rbtree_delete()) the
\* tree holds the nodes that were put in and not taken out, each once, in the order of
\* their keys also when the keys have wrapped, with the links to the parents right and
\* the sentinel black; and it is balanced: no red node has a red child, and every way
\* from the root to a leaf has the same number of black nodes.
TreeSound ==
  fixing = Settled =>
    /\ \E order \in {InOrder(rb, rb.root)} :
         /\ Len(order) = Cardinality(inTree)
         /\ {order[i] : i \in DOMAIN order} = inTree
         /\ \A i \in 1..(Len(order) - 1) : ~Before(order[i + 1], order[i])
    /\ \A n \in inTree, side \in {Left, Right} :
         Child(rb, side, n) # Sentinel =>
           /\ rb.parent[Child(rb, side, n)] = n
           /\ IsRed(rb, n) => ~IsRed(rb, Child(rb, side, n))
    /\ ~IsRed(rb, Sentinel) /\ ~IsRed(rb, rb.root)
    /\ BlackHeight(rb, rb.root) # -1
=============================================================================
