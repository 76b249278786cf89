-------------------------- MODULE AccessibilityTree --------------------------
(***************************************************************************)
(* CdpAccessibilityTree::from_response of crates/tg-network/src/cdp.rs:    *)
(* the nodes Chrome answers with are accepted only as a forest of bounded  *)
(* depth.  The code climbs from each node to one whose depth is known,     *)
(* marking what it passes, and numbers the climbed chain on the way back.  *)
(*                                                                         *)
(* A node is its index, and its parent the index its parentId stands for.  *)
(* What Chrome sent is chosen where the code first reads it.               *)
(***************************************************************************)
EXTENDS Sequences, Integers

CONSTANTS
  MaxNodes,  \* max_accessibility_nodes
  MaxDepth   \* max_accessibility_depth

ASSUME LimitsAssumption == MaxNodes \in Nat /\ MaxDepth \in Nat

VARIABLES
  pc,      \* the loop the code is in, or its result
  count,   \* nodes.len()
  parent,  \* the parent of each node read so far
  node,    \* the node a loop is at: start in the traversal
  depths,
  traversal_marks,
  current,
  chain,
  depth

numbering == <<depths, traversal_marks, current, chain, depth>>
vars == <<pc, count, parent, node, numbering>>

Nodes   == 1..count
Root    == 0
Unknown == count + 1

Init ==
  /\ pc = "count"
  /\ count \in 0 .. MaxNodes + 1
  /\ parent = << >>
  /\ node = 1
  /\ depths = [n \in Nodes |-> 0]
  /\ traversal_marks = [n \in Nodes |-> 0]
  /\ current = 0
  /\ chain = << >>
  /\ depth = 0

-----------------------------------------------------------------------------
(* Reading and checking the nodes. *)

CountNodes ==
  /\ pc = "count"
  /\ pc' = CASE count = 0 -> "invalid" [] count > MaxNodes -> "NodeLimit" [] OTHER -> "parse"
  /\ UNCHANGED <<count, parent, node, numbering>>

\* A node that is malformed, or has the id of an earlier one.
ParseFails ==
  /\ pc = "parse"
  /\ pc' = "invalid"
  /\ UNCHANGED <<count, parent, node, numbering>>

ParseNode ==
  /\ pc = "parse"
  /\ \E p \in Root .. Unknown : parent' = Append(parent, p)
  /\ pc' = IF Len(parent) + 1 = count THEN "check" ELSE "parse"
  /\ UNCHANGED <<count, node, numbering>>

ParentKnown == parent[node] # Unknown /\ parent[node] # node

\* Each child is listed once, and calls this node its parent.  Not every child
\* needs to be listed.
ChildrenAgree(children) ==
  /\ \A i \in DOMAIN children : children[i] \in Nodes /\ parent[children[i]] = node
  /\ \A i, j \in DOMAIN children : children[i] = children[j] => i = j

\* childIds, of up to two nodes.
ChildLists == {<< >>} \cup {<<a>> : a \in 1..Unknown} \cup {<<a, b>> : a, b \in 1..Unknown}

CheckNode ==
  /\ pc = "check"
  /\ \E children \in ChildLists :
       IF ParentKnown /\ ChildrenAgree(children)
       THEN /\ pc' = IF node = count THEN "scan" ELSE "check"
            /\ node' = IF node = count THEN 1 ELSE node + 1
       ELSE pc' = "invalid" /\ UNCHANGED node
  /\ UNCHANGED <<count, parent, numbering>>

-----------------------------------------------------------------------------
(* Numbering them. *)

Accept ==
  /\ pc = "scan"
  /\ node > count
  /\ pc' = "accepted"
  /\ UNCHANGED <<count, parent, node, numbering>>

SkipNumbered ==
  /\ pc = "scan"
  /\ node \in Nodes
  /\ depths[node] # 0
  /\ node' = node + 1
  /\ UNCHANGED <<pc, count, parent, numbering>>

StartClimb ==
  /\ pc = "scan"
  /\ node \in Nodes
  /\ depths[node] = 0
  /\ pc' = "climb"
  /\ current' = node
  /\ chain' = << >>
  /\ UNCHANGED <<count, parent, node, depths, traversal_marks, depth>>

\* A node numbered by an earlier climb.
ReachNumbered ==
  /\ pc = "climb"
  /\ depths[current] # 0
  /\ pc' = "number"
  /\ depth' = depths[current]
  /\ UNCHANGED <<count, parent, node, depths, traversal_marks, current, chain>>

Mut_FindCycle ==
  /\ pc = "climb"
  /\ depths[current] = 0
  /\ traversal_marks[current] = node
  /\ current = node
  /\ pc' = "cycle"
  /\ UNCHANGED <<count, parent, node, numbering>>

\* A node this climb has passed.
FindCycle ==
  /\ pc = "climb"
  /\ depths[current] = 0
  /\ traversal_marks[current] = node
  /\ pc' = "cycle"
  /\ UNCHANGED <<count, parent, node, numbering>>

Pass ==
  /\ depths[current] = 0
  /\ traversal_marks[current] # node
  /\ traversal_marks' = [traversal_marks EXCEPT ![current] = node]
  /\ chain' = Append(chain, current)

Climb ==
  /\ pc = "climb"
  /\ Pass
  /\ parent[current] # Root
  /\ current' = parent[current]
  /\ UNCHANGED <<pc, count, parent, node, depths, depth>>

ReachRoot ==
  /\ pc = "climb"
  /\ Pass
  /\ parent[current] = Root
  /\ pc' = "number"
  /\ depth' = 0
  /\ UNCHANGED <<count, parent, node, depths, current>>

Last == chain[Len(chain)]

Mut_Number ==
  /\ pc = "number"
  /\ chain # << >>
  /\ depth < MaxDepth
  /\ depths' = [depths EXCEPT ![Head(chain)] = depth + 1]
  /\ depth' = depth + 1
  /\ chain' = Tail(chain)
  /\ UNCHANGED <<pc, count, parent, node, traversal_marks, current>>

Number ==
  /\ pc = "number"
  /\ chain # << >>
  /\ depth < MaxDepth
  /\ depths' = [depths EXCEPT ![Last] = depth + 1]
  /\ depth' = depth + 1
  /\ chain' = SubSeq(chain, 1, Len(chain) - 1)
  /\ UNCHANGED <<pc, count, parent, node, traversal_marks, current>>

ExceedDepth ==
  /\ pc = "number"
  /\ chain # << >>
  /\ depth >= MaxDepth
  /\ pc' = "DepthLimit"
  /\ UNCHANGED <<count, parent, node, numbering>>

\* The whole chain is numbered: on to the next node.
EndClimb ==
  /\ pc = "number"
  /\ chain = << >>
  /\ pc' = "scan"
  /\ node' = node + 1
  /\ UNCHANGED <<count, parent, numbering>>

-----------------------------------------------------------------------------

Read   == CountNodes \/ ParseFails \/ ParseNode \/ CheckNode
Scan   == Accept \/ SkipNumbered \/ StartClimb
Ascend == ReachNumbered \/ FindCycle \/ Climb \/ ReachRoot
Return == Number \/ ExceedDepth \/ EndClimb

Next == Read \/ Scan \/ Ascend \/ Return

Spec == Init /\ [][Next]_vars

\* The function runs: it awaits nothing.
FairSpec == Spec /\ WF_vars(Next)

-----------------------------------------------------------------------------

\* The state has its declared shape.
TypeOK ==
  /\ pc \in {"count", "parse", "check", "scan", "climb", "number",
             "invalid", "NodeLimit", "cycle", "DepthLimit", "accepted"}
  /\ count \in Nat
  /\ parent \in Seq(Root .. Unknown)
  /\ node \in 1 .. Unknown
  /\ depths \in [Nodes -> 0 .. MaxDepth]
  /\ traversal_marks \in [Nodes -> 0 .. count]
  /\ current \in 0 .. count
  /\ chain \in Seq(Nodes)
  /\ depth \in 0 .. MaxDepth

\* rank numbers a set of nodes with all their ancestors, roots with one.
Ranks(rank, set) ==
  \A n \in set :
    IF parent[n] = Root THEN rank[n] = 1
    ELSE parent[n] \in set /\ rank[n] = rank[parent[n]] + 1

\* The nodes are a forest of the depth the limit allows.
IsForest == \E rank \in [Nodes -> 1 .. MaxDepth] : Ranks(rank, Nodes)

\* Some nodes have no way to a root: every parent of theirs is one of them.
HasCycle == \E set \in SUBSET Nodes : set # {} /\ \A n \in set : parent[n] \in set

\* Some node with all its ancestors is deeper than the limit.
IsTooDeep ==
  \E set \in SUBSET Nodes : \E rank \in [set -> 1 .. MaxDepth + 1] :
    Ranks(rank, set) /\ \E n \in set : rank[n] = MaxDepth + 1

\* The verdict is right, wherever the climbs started and whatever earlier ones
\* had marked and numbered: what is accepted is a forest within the depth limit,
\* what is refused as a cycle has one, and what is refused as too deep is.
VerdictIsRight ==
  /\ pc = "accepted" => IsForest
  /\ pc = "cycle" => HasCycle
  /\ pc = "DepthLimit" => IsTooDeep

\* No climb goes round for ever, and every response gets a verdict.
ValidationEnds == <>(pc \in {"invalid", "NodeLimit", "cycle", "DepthLimit", "accepted"})
=============================================================================
