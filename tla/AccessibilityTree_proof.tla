------------------------ MODULE AccessibilityTree_proof ------------------------
(***************************************************************************)
(* Proofs about AccessibilityTree, for every number of nodes and both      *)
(* limits: what the traversal accepts is a forest within the depth limit,  *)
(* and what it refuses as a cycle or as too deep is one.                   *)
(***************************************************************************)
EXTENDS AccessibilityTree, SequenceTheorems, TLAPS

Reading    == {"count", "parse", "check"}
Traversing == {"scan", "climb", "number", "accepted", "cycle", "DepthLimit"}
Climbing   == {"climb", "number", "cycle", "DepthLimit"}

\* The nodes are read in order, then checked in order: from then on every parent
\* is another node or the root.
Place ==
  /\ pc = "count" => parent = << >> /\ node = 1
  /\ pc = "parse" => Len(parent) < count /\ node = 1
  /\ pc \in {"check"} \cup Traversing => Len(parent) = count
  /\ pc \in {"check"} \cup Climbing => node \in Nodes
  /\ pc = "climb" => current \in Nodes

Known ==
  /\ pc = "check" => \A n \in Nodes : n < node => parent[n] \in 0 .. count
  /\ pc \in Traversing => \A n \in Nodes : parent[n] \in 0 .. count

\* Nothing is numbered or marked before the traversal, and an earlier start is
\* numbered by the time the next one is looked at.
Untouched == pc \in Reading => \A n \in Nodes : depths[n] = 0 /\ traversal_marks[n] = 0

Scanned == pc \in Traversing => \A n \in Nodes : n < node => depths[n] # 0

\* A numbered node hangs from a root or from a node numbered one less.
Hangs(n) ==
  \/ parent[n] = 0 /\ depths[n] = 1
  \/ parent[n] # 0 /\ depths[parent[n]] # 0 /\ depths[n] = depths[parent[n]] + 1

Numbered == pc \in Traversing => \A n \in Nodes : depths[n] # 0 => Hangs(n)

\* A mark that is this climb's own was left by this climb.
Marks ==
  /\ pc = "scan" => \A n \in Nodes : traversal_marks[n] < node
  /\ pc \in Climbing => \A n \in Nodes : traversal_marks[n] <= node

\* What this climb marked leads to what it marked, or to where it is.
Trail ==
  /\ pc \in {"climb", "cycle"} =>
       \A n \in Nodes : traversal_marks[n] = node =>
         parent[n] # 0 /\ (traversal_marks[parent[n]] = node \/ parent[n] = current)
  /\ pc = "cycle" => current \in Nodes /\ traversal_marks[current] = node

\* The chain is the way from the start up, each node the parent of the one
\* before, none of them numbered yet; while it grows, all of them marked.
Chain ==
  pc \in {"climb", "number", "DepthLimit"} =>
    /\ \A i \in 1 .. Len(chain) : depths[chain[i]] = 0
    /\ \A i, j \in 1 .. Len(chain) : chain[i] = chain[j] => i = j
    /\ \A i \in 1 .. Len(chain) - 1 : parent[chain[i]] = chain[i + 1]
    /\ Len(chain) > 0 => chain[1] = node

Growing ==
  pc = "climb" =>
    /\ \A i \in 1 .. Len(chain) : traversal_marks[chain[i]] = node
    /\ Len(chain) > 0 => parent[chain[Len(chain)]] = current
    /\ Len(chain) = 0 => current = node

\* On the way back depth is that of the parent of the chain's last node.
Shrinking ==
  pc \in {"number", "DepthLimit"} =>
    /\ Len(chain) > 0 =>
         \/ parent[chain[Len(chain)]] = 0 /\ depth = 0
         \/ parent[chain[Len(chain)]] # 0 /\ depth # 0 /\ depths[parent[chain[Len(chain)]]] = depth
    /\ Len(chain) = 0 => depths[node] # 0

AtLimit == pc = "DepthLimit" => Len(chain) > 0 /\ depth = MaxDepth

Ended == pc = "accepted" => node > count

IInv ==
  /\ TypeOK
  /\ Place
  /\ Known
  /\ Untouched
  /\ Scanned
  /\ Numbered
  /\ Marks
  /\ Trail
  /\ Chain
  /\ Growing
  /\ Shrinking
  /\ AtLimit
  /\ Ended

-----------------------------------------------------------------------------
(* The initial states. *)

LEMMA InitInv == Init => IInv
<1> SUFFICES ASSUME Init PROVE IInv
  OBVIOUS
<1> USE LimitsAssumption DEF Init, Nodes, Unknown, Root
<1>1. TypeOK
  BY DEF TypeOK
<1>2. Place /\ Known /\ Untouched /\ Scanned /\ Numbered /\ Ended
  BY DEF Place, Known, Untouched, Scanned, Numbered, Ended, Traversing, Climbing, Reading
<1>3. Marks /\ Trail /\ Chain /\ Growing /\ Shrinking /\ AtLimit
  BY DEF Marks, Trail, Chain, Growing, Shrinking, AtLimit, Climbing
<1> QED
  BY <1>1, <1>2, <1>3 DEF IInv

-----------------------------------------------------------------------------
(* The steps.  Each lemma is one part of the invariant. *)

LEMMA SameNodes == Next => count' = count
BY DEF Next, Read, Scan, Ascend, Return, CountNodes, ParseFails, ParseNode, CheckNode, Accept,
       SkipNumbered, StartClimb, ReachNumbered, FindCycle, Climb, ReachRoot, Number, ExceedDepth, EndClimb

\* What the chain is after one more node, and after one less.
LEMMA Longer ==
  ASSUME NEW S, NEW s \in Seq(S), NEW e \in S
  PROVE  /\ Append(s, e) \in Seq(S)
         /\ Len(Append(s, e)) = Len(s) + 1
         /\ \A i \in 1 .. Len(s) : Append(s, e)[i] = s[i]
         /\ Append(s, e)[Len(s) + 1] = e
BY AppendProperties

LEMMA Shorter ==
  ASSUME NEW S, NEW s \in Seq(S), s # << >>
  PROVE  /\ SubSeq(s, 1, Len(s) - 1) \in Seq(S)
         /\ Len(s) > 0
         /\ Len(SubSeq(s, 1, Len(s) - 1)) = Len(s) - 1
         /\ \A i \in 1 .. Len(s) - 1 : SubSeq(s, 1, Len(s) - 1)[i] = s[i]
         /\ s[Len(s)] \in S
<1>1. Len(s) \in Nat \ {0}
  BY EmptySeq, LenProperties
<1>2. \A i \in 1 .. Len(s) : s[i] \in S
  BY ElementOfSeq
<1> DEFINE n == Len(s) - 1
           short == SubSeq(s, 1, n)
<1>3. n \in Nat /\ \A i \in 1 .. n : s[i] \in S
  BY <1>1, <1>2
<1>4. /\ short \in Seq(S)
      /\ Len(short) = IF 1 <= n THEN n - 1 + 1 ELSE 0
      /\ \A i \in 1 .. n - 1 + 1 : short[i] = s[1 + i - 1]
  <2> HIDE DEF n
  <2> QED
    BY <1>3, SubSeqProperties
<1>5. Len(short) = n /\ \A i \in 1 .. n : short[i] = s[i]
  <2> HIDE DEF n, short
  <2> QED
    BY <1>3, <1>4
<1>6. s[Len(s)] \in S
  BY <1>1, <1>2
<1> QED
  BY <1>1, <1>4, <1>5, <1>6

\* What checking a node does, whatever its children: the node is refused, or its
\* parent is another node or the root.
LEMMA Checked ==
  CheckNode =>
    /\ pc = "check"
    /\ \/ pc' = "invalid" /\ node' = node
       \/ ParentKnown /\ node = count /\ pc' = "scan" /\ node' = 1
       \/ ParentKnown /\ node # count /\ pc' = "check" /\ node' = node + 1
    /\ UNCHANGED <<count, parent, numbering>>
<1> SUFFICES ASSUME CheckNode
    PROVE /\ pc = "check"
          /\ \/ pc' = "invalid" /\ node' = node
             \/ ParentKnown /\ node = count /\ pc' = "scan" /\ node' = 1
             \/ ParentKnown /\ node # count /\ pc' = "check" /\ node' = node + 1
          /\ UNCHANGED <<count, parent, numbering>>
  OBVIOUS
<1>1. PICK children \in ChildLists :
        IF ParentKnown /\ ChildrenAgree(children)
        THEN /\ pc' = IF node = count THEN "scan" ELSE "check"
             /\ node' = IF node = count THEN 1 ELSE node + 1
        ELSE pc' = "invalid" /\ UNCHANGED node
  BY DEF CheckNode
<1>2. pc = "check" /\ UNCHANGED <<count, parent, numbering>>
  BY DEF CheckNode
<1> QED
  BY <1>1, <1>2

LEMMA TypeStep == ASSUME IInv, Next PROVE TypeOK'
<1> USE LimitsAssumption DEF IInv
<1>0. count' = count
  BY SameNodes
<1>1. CASE CountNodes
  BY <1>1 DEF CountNodes, TypeOK, Nodes, Unknown, Root, numbering
<1>2. CASE ParseFails
  BY <1>2 DEF ParseFails, TypeOK, Nodes, Unknown, Root, numbering
<1>3. CASE ParseNode
  <2>1. PICK p \in Root .. Unknown : parent' = Append(parent, p)
    BY <1>3 DEF ParseNode
  <2>2. parent' \in Seq(Root .. Unknown)
    BY <2>1, Longer DEF TypeOK
  <2> QED
    BY <1>3, <2>2 DEF ParseNode, TypeOK, Nodes, Unknown, Root, numbering
<1>4. CASE CheckNode
  <2>1. pc = "check" /\ UNCHANGED <<count, parent, depths, traversal_marks, current, chain, depth>>
    BY <1>4, Checked DEF numbering
  <2>2. pc' \in {"invalid", "scan", "check"} /\ node' \in {node, 1, node + 1}
    BY <1>4, Checked
  <2>3. node' \in 1 .. Unknown
    BY <2>1, <2>2 DEF TypeOK, Place, Nodes, Unknown
  <2> QED
    BY <2>1, <2>2, <2>3 DEF TypeOK, Nodes, Unknown, Root
<1>5. CASE Accept
  BY <1>5 DEF Accept, TypeOK, Nodes, Unknown, Root, numbering
<1>6. CASE SkipNumbered
  BY <1>6 DEF SkipNumbered, TypeOK, Nodes, Unknown, Root, numbering
<1>7. CASE StartClimb
  BY <1>7 DEF StartClimb, TypeOK, Nodes, Unknown, Root
<1>8. CASE ReachNumbered
  BY <1>8 DEF ReachNumbered, TypeOK, Place, Nodes, Unknown, Root
<1>9. CASE FindCycle
  BY <1>9 DEF FindCycle, TypeOK, Nodes, Unknown, Root, numbering
<1>10. CASE Climb
  <2>1. chain' \in Seq(Nodes)
    BY <1>10, Longer DEF Climb, Pass, TypeOK, Place
  <2> QED
    BY SMTT(30), <1>10, <2>1 DEF Climb, Pass, TypeOK, Place, Known, Traversing, Climbing, Nodes, Unknown, Root
<1>11. CASE ReachRoot
  <2>1. chain' \in Seq(Nodes)
    BY <1>11, Longer DEF ReachRoot, Pass, TypeOK, Place
  <2> QED
    BY SMTT(30), <1>11, <2>1 DEF ReachRoot, Pass, TypeOK, Place, Climbing, Nodes, Unknown, Root
<1>12. CASE Number
  <2>1. chain' \in Seq(Nodes)
    BY <1>12, Shorter DEF Number, TypeOK
  <2>2. depth + 1 \in 0 .. MaxDepth
    BY <1>12 DEF Number, TypeOK
  <2>3. depths' \in [Nodes -> 0 .. MaxDepth]
    BY <1>12, <2>2 DEF Number, TypeOK
  <2>4. depth' \in 0 .. MaxDepth /\ UNCHANGED <<pc, count, parent, node, traversal_marks, current>>
    BY <1>12, <2>2 DEF Number
  <2> QED
    BY <2>1, <2>3, <2>4 DEF TypeOK, Nodes, Unknown, Root
<1>13. CASE ExceedDepth
  BY <1>13 DEF ExceedDepth, TypeOK, Nodes, Unknown, Root, numbering
<1>14. CASE EndClimb
  BY <1>14 DEF EndClimb, TypeOK, Place, Climbing, Nodes, Unknown, Root, numbering
<1> QED
  BY <1>1, <1>2, <1>3, <1>4, <1>5, <1>6, <1>7, <1>8, <1>9, <1>10, <1>11, <1>12, <1>13, <1>14
  DEF Next, Read, Scan, Ascend, Return

LEMMA TypeFacts ==
  TypeOK => /\ count \in Nat
            /\ parent \in Seq(0 .. count + 1) /\ Len(parent) \in Nat
            /\ node \in 1 .. count + 1
            /\ depths \in [Nodes -> 0 .. MaxDepth]
            /\ traversal_marks \in [Nodes -> 0 .. count]
            /\ chain \in Seq(Nodes) /\ Len(chain) \in Nat
            /\ depth \in 0 .. MaxDepth
BY LenProperties DEF TypeOK, Root, Unknown

\* The node read last brings the others one nearer to being all there.
LEMMA PlaceStep == ASSUME IInv, Next PROVE Place'
<1> USE DEF Place, Traversing, Climbing, Nodes
<1>0. Place /\ count \in Nat /\ node \in 1 .. count + 1 /\ Len(parent) \in Nat
  BY TypeFacts DEF IInv
<1>a. count # 0 => 0 < count
  <2>1. count \in Nat
    BY TypeFacts DEF IInv
  <2> QED
    BY <2>1
<1>1. CASE Read
  <2>1. CASE CountNodes
    <3>1. Len(<< >>) = 0 /\ parent = << >> /\ node = 1 /\ UNCHANGED <<count, parent, node>>
      BY <1>0, <2>1 DEF CountNodes
    <3>2. pc' \in {"invalid", "NodeLimit"} \/ (pc' = "parse" /\ count # 0)
      BY <2>1 DEF CountNodes
    <3>3. Len(parent') = 0 /\ count' = count
      BY <3>1
    <3>4. pc' = "parse" => Len(parent') < count'
      BY <1>a, <3>2, <3>3
    <3> HIDE DEF Nodes
    <3> QED
      BY <3>1, <3>2, <3>4
  <2>2. CASE ParseFails
    BY <1>0, <2>2 DEF ParseFails
  <2>3. CASE ParseNode
    <3>1. PICK p \in 0 .. count + 1 : parent' = Append(parent, p)
      BY <2>3 DEF ParseNode, Root, Unknown
    <3>2. parent \in Seq(0 .. count + 1)
      BY TypeFacts DEF IInv
    <3>3. Len(parent') = Len(parent) + 1
      BY <3>1, <3>2, Longer
    <3> QED
      BY <1>0, <2>3, <3>3 DEF ParseNode
  <2>4. CASE CheckNode
    <3>1. /\ pc = "check" /\ UNCHANGED <<count, parent>>
          /\ \/ pc' = "invalid"
             \/ pc' = "scan"
             \/ node # count /\ pc' = "check" /\ node' = node + 1
      BY <2>4, Checked
    <3>2. pc' = "check" => node' \in Nodes'
      BY <1>0, <3>1
    <3>3. Len(parent') = count'
      BY <1>0, <3>1
    <3> HIDE DEF Nodes
    <3> QED
      BY <3>1, <3>2, <3>3
  <2> QED
    BY <1>1, <2>1, <2>2, <2>3, <2>4 DEF Read
<1>2. CASE Scan
  BY <1>0, <1>2 DEF Scan, Accept, SkipNumbered, StartClimb
<1>3. CASE Ascend
  <2>1. CASE Climb
    <3>1. parent[current] \in Nodes
      BY <1>0, <2>1 DEF IInv, Climb, Known, Root
    <3> QED
      BY <1>0, <2>1, <3>1 DEF Climb
  <2>2. CASE ReachNumbered \/ FindCycle \/ ReachRoot
    BY <1>0, <2>2 DEF ReachNumbered, FindCycle, ReachRoot
  <2> QED
    BY <1>3, <2>1, <2>2 DEF Ascend
<1>4. CASE Return
  BY <1>0, <1>4 DEF Return, Number, ExceedDepth, EndClimb
<1> QED
  BY <1>1, <1>2, <1>3, <1>4 DEF Next

\* What the check lets by is what the traversal relies on.
LEMMA KnownStep == ASSUME IInv, Next PROVE Known'
<1>a. Known /\ Place
  BY DEF IInv
<1>b. count' = count
  BY SameNodes
<1>c. count \in Nat /\ node \in 1 .. count + 1
  BY TypeFacts DEF IInv
<1> USE DEF Known, Traversing
<1>1. CASE CountNodes
  BY <1>1 DEF CountNodes
<1>d. CASE ParseFails
  BY <1>d DEF ParseFails
<1>2. CASE ParseNode
  <2>1. pc' \in {"check", "parse"}
    BY <1>2 DEF ParseNode
  <2>2. node' = 1
    BY <1>2, <1>a DEF ParseNode, Place
  <2>3. \A n \in Nodes' : ~(n < node')
    BY <1>b, <1>c, <2>2 DEF Nodes
  <2> QED
    BY <2>1, <2>3
<1>3. CASE CheckNode
  <2>1. parent \in Seq(0 .. count + 1) /\ node \in 1 .. Len(parent)
    BY <1>a, <1>c, <1>3, Checked, TypeFacts DEF Place, Nodes, IInv
  <2>2. parent[node] \in 0 .. count + 1
    BY <2>1, ElementOfSeq
  <2>3. ParentKnown => parent[node] \in 0 .. count
    BY <1>c, <2>2 DEF ParentKnown, Unknown
  <2>4. /\ pc = "check" /\ parent' = parent
        /\ \/ pc' = "invalid"
           \/ ParentKnown /\ node = count /\ pc' = "scan"
           \/ ParentKnown /\ pc' = "check" /\ node' = node + 1
    BY <1>3, Checked
  <2>5. \A n \in Nodes : n < node => parent[n] \in 0 .. count
    BY <1>a, <2>4
  <2>6. \A n \in Nodes : n < node + 1 => n < node \/ n = node
    BY <1>c DEF Nodes
  <2>7. ASSUME ParentKnown, node = count, pc' = "scan"
        PROVE  Known'
    <3>1. \A n \in Nodes : n < node + 1
      BY <1>c, <2>7 DEF Nodes
    <3> QED
      BY <1>b, <2>3, <2>4, <2>5, <2>6, <2>7, <3>1 DEF Nodes
  <2>8. ASSUME ParentKnown, pc' = "check", node' = node + 1
        PROVE  Known'
    BY <1>b, <2>3, <2>4, <2>5, <2>6, <2>8 DEF Nodes
  <2> QED
    BY <2>4, <2>7, <2>8
<1>4. CASE Scan
  BY <1>a, <1>b, <1>4 DEF Scan, Accept, SkipNumbered, StartClimb, Nodes
<1>5. CASE Ascend
  BY <1>a, <1>b, <1>5 DEF Ascend, ReachNumbered, FindCycle, Climb, ReachRoot, Nodes
<1>6. CASE Return
  BY <1>a, <1>b, <1>6 DEF Return, Number, ExceedDepth, EndClimb, Nodes
<1> QED
  BY <1>1, <1>d, <1>2, <1>3, <1>4, <1>5, <1>6 DEF Next, Read

\* Reading numbers and marks nothing.
LEMMA UntouchedStep == ASSUME IInv, Next PROVE Untouched'
<1> USE DEF Untouched, Reading, Nodes
<1>0. Untouched /\ count' = count
  BY SameNodes DEF IInv
<1>1. CASE Read
  <2>1. UNCHANGED numbering /\ pc \in Reading
    BY <1>1, Checked DEF Read, CountNodes, ParseFails, ParseNode
  <2> QED
    BY <1>0, <2>1 DEF numbering
<1>2. CASE Scan \/ Ascend \/ Return
  BY <1>2 DEF Scan, Accept, SkipNumbered, StartClimb, Ascend, ReachNumbered, FindCycle, Climb, ReachRoot,
    Return, Number, ExceedDepth, EndClimb
<1> QED
  BY <1>1, <1>2 DEF Next

\* What passing a node does: it is new to the chain, and marked.
LEMMA PassFacts ==
  ASSUME IInv, pc = "climb", Pass
  PROVE  /\ current \in Nodes /\ depths[current] = 0 /\ traversal_marks[current] # node
         /\ Len(chain) \in Nat /\ Len(chain') = Len(chain) + 1
         /\ \A i \in 1 .. Len(chain) : chain'[i] = chain[i]
         /\ chain'[Len(chain) + 1] = current
         /\ \A i \in 1 .. Len(chain) : chain[i] \in Nodes /\ chain[i] # current
         /\ traversal_marks'[current] = node
         /\ \A n \in Nodes : n # current => traversal_marks'[n] = traversal_marks[n]
<1>1. current \in Nodes
  BY DEF IInv, Place
<1>2. chain \in Seq(Nodes) /\ Len(chain) \in Nat /\ traversal_marks \in [Nodes -> 0 .. count]
  BY TypeFacts DEF IInv
<1>3. /\ depths[current] = 0 /\ traversal_marks[current] # node
      /\ chain' = Append(chain, current)
      /\ traversal_marks' = [traversal_marks EXCEPT ![current] = node]
  BY DEF Pass
<1>4. \A i \in 1 .. Len(chain) : traversal_marks[chain[i]] = node
  BY DEF IInv, Growing
<1>5. \A i \in 1 .. Len(chain) : chain[i] \in Nodes
  BY <1>2, ElementOfSeq
<1>6. /\ Len(chain') = Len(chain) + 1
      /\ \A i \in 1 .. Len(chain) : chain'[i] = chain[i]
      /\ chain'[Len(chain) + 1] = current
  BY <1>1, <1>2, <1>3, Longer
<1>7. \A i \in 1 .. Len(chain) : chain[i] # current
  BY <1>3, <1>4
<1>8. /\ traversal_marks'[current] = node
      /\ \A n \in Nodes : n # current => traversal_marks'[n] = traversal_marks[n]
  BY <1>1, <1>2, <1>3
<1> QED
  BY <1>1, <1>2, <1>3, <1>5, <1>6, <1>7, <1>8

\* What numbering the chain's last node does.
LEMMA NumberFacts ==
  ASSUME IInv, Number
  PROVE  /\ Last \in Nodes /\ depths[Last] = 0 /\ depths'[Last] = depth + 1
         /\ \A n \in Nodes : n # Last => depths'[n] = depths[n]
         /\ depth \in Nat /\ depth' = depth + 1
         /\ Len(chain) \in Nat /\ Len(chain) > 0 /\ Len(chain') = Len(chain) - 1
         /\ \A i \in 1 .. Len(chain) - 1 : chain'[i] = chain[i] /\ chain[i] \in Nodes /\ chain[i] # Last
         /\ pc = "number" /\ UNCHANGED <<pc, count, parent, node, traversal_marks, current>>
<1>1. /\ chain \in Seq(Nodes) /\ Len(chain) \in Nat
      /\ depths \in [Nodes -> 0 .. MaxDepth] /\ depth \in 0 .. MaxDepth
  BY TypeFacts DEF IInv
<1>2. /\ chain # << >> /\ depths' = [depths EXCEPT ![Last] = depth + 1] /\ depth' = depth + 1
      /\ chain' = SubSeq(chain, 1, Len(chain) - 1)
      /\ pc = "number" /\ UNCHANGED <<pc, count, parent, node, traversal_marks, current>>
  BY DEF Number
<1>3. /\ Len(chain) > 0 /\ Len(chain') = Len(chain) - 1
      /\ \A i \in 1 .. Len(chain) - 1 : chain'[i] = chain[i]
      /\ Last \in Nodes
  BY <1>1, <1>2, Shorter DEF Last
<1>4. /\ depths'[Last] = depth + 1
      /\ \A n \in Nodes : n # Last => depths'[n] = depths[n]
  BY <1>1, <1>2, <1>3
<1>5. /\ \A i \in 1 .. Len(chain) : depths[chain[i]] = 0
      /\ \A i, j \in 1 .. Len(chain) : chain[i] = chain[j] => i = j
  BY <1>2 DEF IInv, Chain
<1>6. depths[Last] = 0
  BY <1>1, <1>3, <1>5 DEF Last
<1>7. \A i \in 1 .. Len(chain) - 1 : chain[i] # Last
  BY <1>1, <1>3, <1>5 DEF Last
<1>8. \A i \in 1 .. Len(chain) : chain[i] \in Nodes
  BY <1>1, ElementOfSeq
<1>9. depth \in Nat
  BY <1>1, LimitsAssumption
<1> QED
  BY <1>1, <1>2, <1>3, <1>4, <1>6, <1>7, <1>8, <1>9

\* A climb ends by numbering its start.
LEMMA ScannedStep == ASSUME IInv, Next PROVE Scanned'
<1>a. Scanned
  BY DEF IInv
<1>b. Nodes' = Nodes
  BY SameNodes DEF Nodes
<1>c. count \in Nat /\ node \in 1 .. count + 1
  BY TypeFacts DEF IInv
<1>d. \A n \in Nodes : n < node + 1 => n < node \/ n = node
  BY <1>c DEF Nodes
<1> USE DEF Scanned, Traversing
<1>1. CASE CountNodes \/ ParseFails
  BY <1>1 DEF CountNodes, ParseFails
<1>2. CASE ParseNode
  BY <1>2 DEF ParseNode
<1>3. CASE CheckNode
  <2>1. pc' \in {"check", "invalid"} \/ node' = 1
    BY <1>3, Checked
  <2>2. \A n \in Nodes : ~(n < 1)
    BY <1>c DEF Nodes
  <2> QED
    BY <1>b, <2>1, <2>2
<1>4. CASE Accept \/ StartClimb
  BY <1>a, <1>b, <1>4 DEF Accept, StartClimb, numbering
<1>5. CASE SkipNumbered
  <2>1. pc = "scan" /\ depths[node] # 0 /\ node' = node + 1 /\ depths' = depths
    BY <1>5 DEF SkipNumbered, numbering
  <2> QED
    BY <1>a, <1>b, <1>d, <2>1
<1>6. CASE Ascend
  BY <1>a, <1>b, <1>6 DEF Ascend, ReachNumbered, FindCycle, Climb, ReachRoot, numbering
<1>7. CASE Number
  <2>1. depths'[Last] # 0
    BY <1>7, NumberFacts
  <2> QED
    BY <1>a, <1>b, <1>7, <2>1, NumberFacts
<1>8. CASE ExceedDepth
  BY <1>a, <1>b, <1>8 DEF ExceedDepth, numbering
<1>9. CASE EndClimb
  <2>1. depths[node] # 0
    BY <1>9 DEF EndClimb, IInv, Shrinking
  <2>2. pc = "number" /\ node' = node + 1 /\ depths' = depths
    BY <1>9 DEF EndClimb, numbering
  <2> QED
    BY <1>a, <1>b, <1>d, <2>1, <2>2
<1> QED
  BY <1>1, <1>2, <1>3, <1>4, <1>5, <1>6, <1>7, <1>8, <1>9 DEF Next, Read, Scan, Return

\* A node is numbered one more than its parent, which keeps its number.
LEMMA NumberedStep == ASSUME IInv, Next PROVE Numbered'
<1>a. Numbered
  BY DEF IInv
<1>b. Nodes' = Nodes
  BY SameNodes DEF Nodes
<1> USE DEF Numbered, Traversing
<1>1. CASE Read
  <2>1. Untouched /\ UNCHANGED numbering /\ pc \in Reading
    BY <1>1, Checked DEF Read, CountNodes, ParseFails, ParseNode, Reading, IInv
  <2> QED
    BY <1>b, <2>1 DEF Untouched, numbering
<1>2. CASE Scan
  BY <1>a, <1>b, <1>2 DEF Scan, Accept, SkipNumbered, StartClimb, numbering, Hangs
<1>3. CASE Ascend
  BY <1>a, <1>b, <1>3 DEF Ascend, ReachNumbered, FindCycle, Climb, ReachRoot, numbering, Hangs
<1>4. CASE Number
  <2>0. PICK last \in Nodes : last = Last
    BY <1>4, NumberFacts
  <2>1. /\ depths[last] = 0 /\ depths'[last] = depth + 1
        /\ \A n \in Nodes : n # last => depths'[n] = depths[n]
        /\ depth \in Nat /\ Len(chain) > 0 /\ pc = "number" /\ parent' = parent
    BY <1>4, <2>0, NumberFacts
  <2>2. \/ parent[last] = 0 /\ depth = 0
        \/ parent[last] # 0 /\ depth # 0 /\ depths[parent[last]] = depth
    BY <2>0, <2>1 DEF IInv, Shrinking, Last
  <2>3. \A n \in Nodes : parent[n] # 0 => parent[n] \in Nodes
    <3>1. \A n \in Nodes : parent[n] \in 0 .. count
      BY <2>1 DEF IInv, Known
    <3>2. count \in Nat
      BY TypeFacts DEF IInv
    <3> QED
      BY <3>1, <3>2 DEF Nodes
  <2>4. Hangs(last)'
    <3>1. CASE parent[last] = 0 /\ depth = 0
      BY <2>1, <3>1 DEF Hangs
    <3>2. CASE parent[last] # 0 /\ depth # 0 /\ depths[parent[last]] = depth
      BY <2>1, <2>3, <3>2 DEF Hangs
    <3> QED
      BY <2>2, <3>1, <3>2
  <2>5. ASSUME NEW n \in Nodes, n # last, depths'[n] # 0
        PROVE  Hangs(n)'
    <3>1. depths[n] # 0 /\ depths'[n] = depths[n]
      BY <2>1, <2>5
    <3>2. Hangs(n)
      BY <1>a, <2>1, <3>1
    <3> QED
      BY <2>1, <2>3, <3>1, <3>2 DEF Hangs
  <2> QED
    BY <1>b, <2>4, <2>5
<1>5. CASE ExceedDepth \/ EndClimb
  BY <1>a, <1>b, <1>5 DEF ExceedDepth, EndClimb, numbering, Hangs
<1> QED
  BY <1>1, <1>2, <1>3, <1>4, <1>5 DEF Next, Return

\* Every mark is that of a start no later than this one.
LEMMA MarksStep == ASSUME IInv, Next PROVE Marks'
<1>a. Marks
  BY DEF IInv
<1>b. Nodes' = Nodes
  BY SameNodes DEF Nodes
<1>c. \A n \in Nodes : traversal_marks[n] \in Nat
  BY TypeFacts DEF IInv
<1>d. node \in Nat /\ node >= 1
  BY TypeFacts DEF IInv
<1> USE DEF Marks, Climbing
<1>1. CASE Read
  <2>1. Untouched /\ UNCHANGED numbering /\ pc \in Reading /\ ~(pc' \in Climbing)
    BY <1>1, Checked DEF Read, CountNodes, ParseFails, ParseNode, Reading, IInv
  <2>2. pc' = "scan" => node' = 1
    BY <1>1, Checked DEF Read, CountNodes, ParseFails, ParseNode
  <2>3. \A n \in Nodes' : traversal_marks'[n] = 0
    BY <1>b, <2>1 DEF Untouched, numbering
  <2>4. \A n \in Nodes' : traversal_marks'[n] < 1
    BY <2>3
  <2>5. ~(pc' \in Climbing)
    BY <2>1
  <2> HIDE DEF Climbing
  <2> QED
    BY <2>2, <2>4, <2>5
<1>2. CASE Accept
  BY <1>2 DEF Accept
<1>3. CASE SkipNumbered
  <2>1. pc = "scan" /\ node' = node + 1 /\ traversal_marks' = traversal_marks /\ pc' = pc
    BY <1>3 DEF SkipNumbered, numbering
  <2> QED
    BY <1>a, <1>b, <1>c, <1>d, <2>1
<1>4. CASE StartClimb
  <2>1. pc = "scan" /\ node' = node /\ traversal_marks' = traversal_marks /\ pc' = "climb"
    BY <1>4 DEF StartClimb
  <2> QED
    BY <1>a, <1>b, <1>c, <1>d, <2>1
<1>5. CASE ReachNumbered \/ FindCycle \/ ExceedDepth
  BY <1>a, <1>b, <1>5 DEF ReachNumbered, FindCycle, ExceedDepth, numbering
<1>6. CASE Climb \/ ReachRoot
  <2>1. pc = "climb" /\ Pass /\ node' = node /\ pc' \in {"climb", "number"}
    BY <1>6 DEF Climb, ReachRoot
  <2>2. /\ traversal_marks'[current] = node
        /\ \A n \in Nodes : n # current => traversal_marks'[n] = traversal_marks[n]
    BY <2>1, PassFacts
  <2>3. \A n \in Nodes : traversal_marks[n] <= node
    BY <1>a, <2>1
  <2>4. \A n \in Nodes : traversal_marks'[n] <= node
    BY <1>d, <2>2, <2>3
  <2> QED
    BY <1>b, <2>1, <2>4
<1>7. CASE Number
  BY <1>a, <1>b, <1>7 DEF Number
<1>8. CASE EndClimb
  <2>1. pc = "number" /\ node' = node + 1 /\ traversal_marks' = traversal_marks /\ pc' = "scan"
    BY <1>8 DEF EndClimb, numbering
  <2> QED
    BY <1>a, <1>b, <1>c, <1>d, <2>1
<1> QED
  BY <1>1, <1>2, <1>3, <1>4, <1>5, <1>6, <1>7, <1>8 DEF Next, Scan, Ascend, Return

\* A node is left by its parent, so what has been passed leads on.
LEMMA TrailStep == ASSUME IInv, Next PROVE Trail'
<1>a. Trail
  BY DEF IInv
<1>b. Nodes' = Nodes
  BY SameNodes DEF Nodes
<1> USE DEF Trail
<1>1. CASE Read \/ Return
  BY <1>1, Checked DEF Read, CountNodes, ParseFails, ParseNode, Return, Number, ExceedDepth, EndClimb
<1>2. CASE Accept \/ SkipNumbered \/ ReachNumbered \/ ReachRoot
  BY <1>2 DEF Accept, SkipNumbered, ReachNumbered, ReachRoot
<1>3. CASE StartClimb
  <2>1. pc = "scan" /\ node' = node /\ traversal_marks' = traversal_marks /\ pc' = "climb"
    BY <1>3 DEF StartClimb
  <2>2. \A n \in Nodes : traversal_marks[n] < node /\ traversal_marks[n] \in Nat
    BY <2>1, TypeFacts DEF IInv, Marks
  <2>3. \A n \in Nodes : traversal_marks[n] # node
    BY <2>2, TypeFacts DEF IInv
  <2> QED
    BY <1>b, <2>1, <2>3
<1>4. CASE FindCycle
  <2>1. current \in Nodes /\ traversal_marks[current] = node
    BY <1>4 DEF FindCycle, IInv, Place
  <2> QED
    BY <1>a, <1>b, <1>4, <2>1 DEF FindCycle, numbering
<1>5. CASE Climb
  <2>1. /\ pc = "climb" /\ Pass /\ node' = node /\ parent' = parent /\ pc' = "climb"
        /\ parent[current] # 0 /\ current' = parent[current]
    BY <1>5 DEF Climb, Root
  <2>2. /\ current \in Nodes /\ traversal_marks'[current] = node
        /\ \A n \in Nodes : n # current => traversal_marks'[n] = traversal_marks[n]
    BY <2>1, PassFacts
  <2>3. \A n \in Nodes : parent[n] # 0 => parent[n] \in Nodes
    <3>1. \A n \in Nodes : parent[n] \in 0 .. count
      BY <2>1 DEF IInv, Known, Traversing
    <3>2. count \in Nat
      BY TypeFacts DEF IInv
    <3> QED
      BY <3>1, <3>2 DEF Nodes
  <2>4. ASSUME NEW n \in Nodes, traversal_marks'[n] = node
        PROVE  parent[n] # 0 /\ (traversal_marks'[parent[n]] = node \/ parent[n] = current')
    <3>1. CASE n = current
      BY <2>1, <3>1
    <3>2. CASE n # current
      <4>1. parent[n] # 0 /\ (traversal_marks[parent[n]] = node \/ parent[n] = current)
        BY <1>a, <2>1, <2>2, <2>4, <3>2
      <4> QED
        BY <2>2, <2>3, <4>1
    <3> QED
      BY <3>1, <3>2
  <2> QED
    BY <1>b, <2>1, <2>4
<1> QED
  BY <1>1, <1>2, <1>3, <1>4, <1>5 DEF Next, Scan, Ascend

\* The chain grows at its end by a node it does not hold, and shrinks there.
LEMMA ChainStep == ASSUME IInv, Next PROVE Chain'
<1>a. Chain
  BY DEF IInv
<1> USE DEF Chain
<1>1. CASE Read
  BY <1>1, Checked DEF Read, CountNodes, ParseFails, ParseNode
<1>2. CASE Accept \/ SkipNumbered \/ EndClimb
  BY <1>2 DEF Accept, SkipNumbered, EndClimb
<1>3. CASE StartClimb
  <2>1. chain' = << >>
    BY <1>3 DEF StartClimb
  <2>2. Len(chain') = 0
    BY <2>1
  <2>3. 1 .. Len(chain') = {} /\ 1 .. Len(chain') - 1 = {} /\ ~(Len(chain') > 0)
    BY <2>2
  <2> QED
    BY <2>3
<1>4. CASE ReachNumbered \/ ExceedDepth
  BY <1>a, <1>4 DEF ReachNumbered, ExceedDepth, numbering
<1>5. CASE FindCycle
  BY <1>5 DEF FindCycle
<1>6. CASE Climb \/ ReachRoot
  <2>1. pc = "climb" /\ Pass /\ UNCHANGED <<node, parent, depths>>
    BY <1>6 DEF Climb, ReachRoot
  <2>2. /\ depths[current] = 0
        /\ Len(chain) \in Nat /\ Len(chain') = Len(chain) + 1
        /\ \A i \in 1 .. Len(chain) : chain'[i] = chain[i] /\ chain[i] # current
        /\ chain'[Len(chain) + 1] = current
    BY <2>1, PassFacts
  <2>3. /\ \A i \in 1 .. Len(chain) : depths[chain[i]] = 0
        /\ \A i, j \in 1 .. Len(chain) : chain[i] = chain[j] => i = j
        /\ \A i \in 1 .. Len(chain) - 1 : parent[chain[i]] = chain[i + 1]
        /\ Len(chain) > 0 => chain[1] = node
        /\ Len(chain) > 0 => parent[chain[Len(chain)]] = current
        /\ Len(chain) = 0 => current = node
    BY <1>a, <2>1 DEF IInv, Growing
  <2> DEFINE k == Len(chain)
  <2>4. k \in Nat /\ \A i \in 1 .. k + 1 : i \in 1 .. k \/ i = k + 1
    BY <2>2
  <2>5. \A i \in 1 .. k + 1 : depths[chain'[i]] = 0
    BY <2>2, <2>3, <2>4
  <2>6. \A i, j \in 1 .. k + 1 : chain'[i] = chain'[j] => i = j
    BY <2>2, <2>3, <2>4
  <2>7. ASSUME NEW i \in 1 .. k
        PROVE  parent[chain'[i]] = chain'[i + 1]
    <3>1. CASE i = k
      BY <2>2, <2>3, <3>1
    <3>2. CASE i # k
      <4>1. i \in 1 .. k - 1 /\ i + 1 \in 1 .. k
        BY <2>4, <3>2
      <4> QED
        BY <2>2, <2>3, <4>1
    <3> QED
      BY <3>1, <3>2
  <2>8. chain'[1] = node
    BY <2>2, <2>3, <2>4
  <2>9. Len(chain') = k + 1 /\ Len(chain') - 1 = k
    BY <2>2
  <2> HIDE DEF k
  <2> QED
    BY <2>1, <2>5, <2>6, <2>7, <2>8, <2>9
<1>7. CASE Number
  <2>0. PICK last \in Nodes : last = Last
    BY <1>7, NumberFacts
  <2>1. /\ \A n \in Nodes : n # last => depths'[n] = depths[n]
        /\ Len(chain) \in Nat /\ Len(chain) > 0 /\ Len(chain') = Len(chain) - 1
        /\ \A i \in 1 .. Len(chain) - 1 : chain'[i] = chain[i] /\ chain[i] \in Nodes /\ chain[i] # last
        /\ pc = "number" /\ UNCHANGED <<parent, node>>
    BY <1>7, <2>0, NumberFacts
  <2>2. /\ \A i \in 1 .. Len(chain) : depths[chain[i]] = 0
        /\ \A i, j \in 1 .. Len(chain) : chain[i] = chain[j] => i = j
        /\ \A i \in 1 .. Len(chain) - 1 : parent[chain[i]] = chain[i + 1]
        /\ chain[1] = node
    BY <1>a, <2>1
  <2> DEFINE k == Len(chain) - 1
  <2>3. k \in Nat /\ Len(chain') = k /\ \A i \in 1 .. k : i \in 1 .. Len(chain)
    BY <2>1
  <2>4. \A i \in 1 .. k : chain'[i] = chain[i] /\ depths'[chain[i]] = 0
    BY <2>1, <2>2, <2>3
  <2>5. \A i, j \in 1 .. k : chain'[i] = chain'[j] => i = j
    BY <2>2, <2>3, <2>4
  <2>6. \A i \in 1 .. k - 1 : parent[chain'[i]] = chain'[i + 1]
    <3>1. \A i \in 1 .. k - 1 : i \in 1 .. k /\ i + 1 \in 1 .. k
      BY <2>3
    <3>2. \A i \in 1 .. k : parent[chain[i]] = chain[i + 1]
      BY <2>2
    <3> HIDE DEF k
    <3> QED
      BY <2>4, <3>1, <3>2
  <2>7. k > 0 => chain'[1] = node
    BY <2>2, <2>3, <2>4
  <2> HIDE DEF k
  <2> QED
    BY <2>1, <2>3, <2>4, <2>5, <2>6, <2>7
<1> QED
  BY <1>1, <1>2, <1>3, <1>4, <1>5, <1>6, <1>7 DEF Next, Scan, Ascend, Return

\* A climb is at its start, or at the parent of what it passed last.
LEMMA GrowingStep == ASSUME IInv, Next PROVE Growing'
<1> USE DEF Growing
<1>1. CASE Read \/ Return
  BY <1>1, Checked DEF Read, CountNodes, ParseFails, ParseNode, Return, Number, ExceedDepth, EndClimb
<1>2. CASE Accept \/ SkipNumbered \/ ReachNumbered \/ FindCycle \/ ReachRoot
  BY <1>2 DEF Accept, SkipNumbered, ReachNumbered, FindCycle, ReachRoot
<1>3. CASE StartClimb
  <2>1. chain' = << >> /\ current' = node /\ node' = node
    BY <1>3 DEF StartClimb
  <2>2. Len(chain') = 0
    BY <2>1
  <2> QED
    BY <2>1, <2>2
<1>4. CASE Climb
  <2>1. pc = "climb" /\ Pass /\ UNCHANGED <<node, parent>> /\ current' = parent[current]
    BY <1>4 DEF Climb
  <2>2. /\ Len(chain) \in Nat /\ Len(chain') = Len(chain) + 1
        /\ \A i \in 1 .. Len(chain) : chain'[i] = chain[i] /\ chain[i] \in Nodes /\ chain[i] # current
        /\ chain'[Len(chain) + 1] = current
        /\ traversal_marks'[current] = node
        /\ \A n \in Nodes : n # current => traversal_marks'[n] = traversal_marks[n]
    BY <2>1, PassFacts
  <2>3. \A i \in 1 .. Len(chain) : traversal_marks[chain[i]] = node
    BY <2>1 DEF IInv
  <2>4. \A i \in 1 .. Len(chain) + 1 : i \in 1 .. Len(chain) \/ i = Len(chain) + 1
    BY <2>2
  <2>5. \A i \in 1 .. Len(chain) + 1 : traversal_marks'[chain'[i]] = node
    BY <2>2, <2>3, <2>4
  <2>6. parent[chain'[Len(chain')]] = current' /\ Len(chain') # 0
    BY <2>1, <2>2
  <2> QED
    BY <2>1, <2>2, <2>5, <2>6
<1> QED
  BY <1>1, <1>2, <1>3, <1>4 DEF Next, Scan, Ascend

\* On the way back the last node's parent has the depth at hand: it is the node
\* the climb stopped at, or the one just numbered.
LEMMA ShrinkingStep == ASSUME IInv, Next PROVE Shrinking'
<1> USE DEF Shrinking
<1>1. CASE Read \/ Scan
  BY <1>1, Checked DEF Read, CountNodes, ParseFails, ParseNode, Scan, Accept, SkipNumbered, StartClimb
<1>2. CASE FindCycle \/ Climb \/ EndClimb
  BY <1>2 DEF FindCycle, Climb, EndClimb
<1>3. CASE ReachNumbered
  <2>1. /\ pc = "climb" /\ depths[current] # 0 /\ depth' = depths[current]
        /\ UNCHANGED <<parent, node, depths, chain>>
    BY <1>3 DEF ReachNumbered
  <2>2. /\ Len(chain) > 0 => parent[chain[Len(chain)]] = current
        /\ Len(chain) = 0 => current = node
    BY <2>1 DEF IInv, Growing
  <2>3. current # 0
    <3>1. current \in Nodes /\ count \in Nat
      BY <2>1, TypeFacts DEF IInv, Place
    <3> QED
      BY <3>1 DEF Nodes
  <2> QED
    BY <2>1, <2>2, <2>3
<1>4. CASE ReachRoot
  <2>1. pc = "climb" /\ Pass /\ parent[current] = 0 /\ depth' = 0 /\ UNCHANGED <<parent, node, depths>>
    BY <1>4 DEF ReachRoot, Root
  <2>2. Len(chain) \in Nat /\ Len(chain') = Len(chain) + 1 /\ chain'[Len(chain')] = current
    BY <2>1, PassFacts
  <2>3. Len(chain') # 0
    BY <2>2
  <2> QED
    BY <2>1, <2>2, <2>3
<1>5. CASE Number
  <2>0. PICK last \in Nodes : last = Last
    BY <1>5, NumberFacts
  <2>1. /\ depths'[last] = depth + 1 /\ depth \in Nat /\ depth' = depth + 1
        /\ Len(chain) \in Nat /\ Len(chain) > 0 /\ Len(chain') = Len(chain) - 1
        /\ \A i \in 1 .. Len(chain) - 1 : chain'[i] = chain[i] /\ chain[i] \in Nodes /\ chain[i] # last
        /\ pc = "number" /\ UNCHANGED <<parent, node>>
    BY <1>5, <2>0, NumberFacts
  <2>2. /\ \A i \in 1 .. Len(chain) - 1 : parent[chain[i]] = chain[i + 1]
        /\ chain[1] = node
    BY <2>1 DEF IInv, Chain
  <2>3. last = chain[Len(chain)] /\ last # 0 /\ depth + 1 # 0
    <3>1. count \in Nat
      BY TypeFacts DEF IInv
    <3>2. last # 0
      BY <3>1 DEF Nodes
    <3> QED
      BY <2>0, <2>1, <3>2 DEF Last
  <2>4. CASE Len(chain) = 1
    <3>1. Len(chain') = 0 /\ depths'[node'] # 0
      BY <2>1, <2>2, <2>3, <2>4
    <3>2. ~(Len(chain') > 0)
      BY <3>1
    <3> QED
      BY <3>1, <3>2
  <2>5. CASE Len(chain) # 1
    <3> DEFINE k == Len(chain')
    <3>1. k \in 1 .. Len(chain) - 1 /\ k + 1 = Len(chain) /\ k # 0
      BY <2>1, <2>5
    <3>2. chain'[k] = chain[k] /\ parent[chain[k]] = last
      BY <2>1, <2>2, <2>3, <3>1
    <3> HIDE DEF k
    <3>3. parent'[chain'[k]] # 0 /\ depth' # 0 /\ depths'[parent'[chain'[k]]] = depth'
      BY <2>1, <2>3, <3>2
    <3>4. ~(Len(chain') = 0)
      BY <3>1 DEF k
    <3>5. parent'[chain'[Len(chain')]] # 0 /\ depth' # 0 /\ depths'[parent'[chain'[Len(chain')]]] = depth'
      BY <3>3 DEF k
    <3> QED
      BY <3>4, <3>5
  <2> QED
    BY <2>4, <2>5
<1>6. CASE ExceedDepth
  BY <1>6 DEF ExceedDepth, numbering, IInv
<1> QED
  BY <1>1, <1>2, <1>3, <1>4, <1>5, <1>6 DEF Next, Ascend, Return

LEMMA EndsStep == ASSUME IInv, Next PROVE AtLimit' /\ Ended'
<1>1. Ended'
  <2>1. CASE Accept
    BY <2>1 DEF Accept, Ended
  <2>2. CASE Read \/ SkipNumbered \/ StartClimb \/ Ascend \/ Return
    BY <2>2, Checked DEF Ended, Read, CountNodes, ParseFails, ParseNode, SkipNumbered, StartClimb,
      Ascend, ReachNumbered, FindCycle, Climb, ReachRoot, Return, Number, ExceedDepth, EndClimb
  <2> QED
    BY <2>1, <2>2 DEF Next, Scan
<1>2. AtLimit'
  <2>1. CASE ExceedDepth
    <3>1. /\ chain # << >> /\ depth >= MaxDepth /\ chain' = chain /\ depth' = depth
      BY <2>1 DEF ExceedDepth, numbering
    <3>2. chain \in Seq(Nodes) /\ depth \in 0 .. MaxDepth
      BY TypeFacts DEF IInv
    <3>3. Len(chain) > 0
      BY <3>1, <3>2, Shorter
    <3>4. depth = MaxDepth
      BY <3>1, <3>2, LimitsAssumption
    <3> QED
      BY <3>1, <3>3, <3>4 DEF AtLimit
  <2>2. CASE Read \/ Scan \/ Ascend \/ Number \/ EndClimb
    BY <2>2, Checked DEF AtLimit, Read, CountNodes, ParseFails, ParseNode, Scan, Accept, SkipNumbered,
      StartClimb, Ascend, ReachNumbered, FindCycle, Climb, ReachRoot, Number, EndClimb
  <2> QED
    BY <2>1, <2>2 DEF Next, Return
<1> QED
  BY <1>1, <1>2

LEMMA StutterStep == ASSUME IInv, UNCHANGED vars PROVE IInv'
<1>1. /\ pc' = pc /\ count' = count /\ parent' = parent /\ node' = node /\ depths' = depths
      /\ traversal_marks' = traversal_marks /\ current' = current /\ chain' = chain /\ depth' = depth
  BY DEF vars, numbering
<1>2. Nodes' = Nodes /\ Unknown' = Unknown /\ Root' = Root
  BY <1>1 DEF Nodes, Unknown, Root
<1>3. TypeOK' /\ Place' /\ Known' /\ Untouched'
  BY <1>1, <1>2, Zenon DEF IInv, TypeOK, Place, Known, Untouched
<1>4. Scanned' /\ Numbered' /\ Marks' /\ Trail'
  BY <1>1, <1>2, Zenon DEF IInv, Scanned, Numbered, Hangs, Marks, Trail
<1>5. Chain' /\ Growing' /\ Shrinking' /\ AtLimit' /\ Ended'
  BY <1>1, Zenon DEF IInv, Chain, Growing, Shrinking, AtLimit, Ended
<1> QED
  BY <1>3, <1>4, <1>5 DEF IInv

LEMMA StepInv == IInv /\ [Next]_vars => IInv'
<1> SUFFICES ASSUME IInv, [Next]_vars PROVE IInv'
  OBVIOUS
<1>1. CASE Next
  <2>1. TypeOK' /\ Place' /\ Known' /\ Untouched'
    BY <1>1, TypeStep, PlaceStep, KnownStep, UntouchedStep
  <2>2. Scanned' /\ Numbered' /\ Marks' /\ Trail'
    BY <1>1, ScannedStep, NumberedStep, MarksStep, TrailStep
  <2>3. Chain' /\ Growing' /\ Shrinking' /\ AtLimit' /\ Ended'
    BY <1>1, ChainStep, GrowingStep, ShrinkingStep, EndsStep
  <2> QED
    BY <2>1, <2>2, <2>3 DEF IInv
<1>2. CASE UNCHANGED vars
  BY <1>2, StutterStep
<1> QED
  BY <1>1, <1>2

-----------------------------------------------------------------------------
(* The theorems. *)

\* The parts of the invariant that the verdicts follow from hold of every state.
THEOREM Inductive == Spec => []IInv
<1> QED
  BY InitInv, StepInv, PTL DEF Spec

\* Every reachable state of the validation has its declared shape, for any limits
\* and any answer: no index of from_response is out of range.
THEOREM TypeCorrect == Spec => []TypeOK
<1>1. IInv => TypeOK
  BY DEF IInv
<1> QED
  BY <1>1, Inductive, PTL

\* Accepted: the numbers the climbs left are the depths of a forest.
LEMMA AcceptedIsForest == ASSUME IInv, pc = "accepted" PROVE IsForest
<1>1. count \in Nat /\ depths \in [Nodes -> 0 .. MaxDepth] /\ node \in 1 .. count + 1
  BY TypeFacts DEF IInv
<1>2. \A n \in Nodes : n < node
  <2>1. node > count
    BY DEF IInv, Ended
  <2> QED
    BY <1>1, <2>1 DEF Nodes
<1>3. \A n \in Nodes : depths[n] # 0 /\ Hangs(n)
  BY <1>2 DEF IInv, Scanned, Numbered, Traversing
<1>4. depths \in [Nodes -> 1 .. MaxDepth]
  <2>1. \A n \in Nodes : depths[n] \in 1 .. MaxDepth
    BY <1>1, <1>3, LimitsAssumption
  <2> QED
    BY <1>1, <2>1
<1>5. \A n \in Nodes : parent[n] # 0 => parent[n] \in Nodes
  <2>1. \A n \in Nodes : parent[n] \in 0 .. count
    BY DEF IInv, Known, Traversing
  <2> QED
    BY <1>1, <2>1 DEF Nodes
<1>6. Ranks(depths, Nodes)
  BY <1>3, <1>5 DEF Ranks, Hangs, Root
<1> QED
  BY <1>4, <1>6 DEF IsForest

\* Refused as a cycle: what the climb has passed has no way to a root.
LEMMA RefusedHasCycle == ASSUME IInv, pc = "cycle" PROVE HasCycle
<1> DEFINE passed == {n \in Nodes : traversal_marks[n] = node}
<1>1. current \in passed /\ current \in Nodes
  BY DEF IInv, Trail
<1>2. \A n \in Nodes : parent[n] # 0 => parent[n] \in Nodes
  <2>1. \A n \in Nodes : parent[n] \in 0 .. count
    BY DEF IInv, Known, Traversing
  <2>2. count \in Nat
    BY TypeFacts DEF IInv
  <2> QED
    BY <2>1, <2>2 DEF Nodes
<1>3. \A n \in passed : parent[n] \in passed
  <2> TAKE n \in passed
  <2>1. parent[n] # 0 /\ (traversal_marks[parent[n]] = node \/ parent[n] = current)
    BY DEF IInv, Trail
  <2> QED
    BY <1>1, <1>2, <2>1
<1>4. passed \in SUBSET Nodes /\ passed # {}
  BY <1>1
<1> HIDE DEF passed
<1> QED
  BY <1>3, <1>4 DEF HasCycle

\* Refused as too deep: the chain's last node would be numbered beyond the limit.
LEMMA RefusedIsTooDeep == ASSUME IInv, pc = "DepthLimit" PROVE IsTooDeep
<1>1. /\ count \in Nat /\ depths \in [Nodes -> 0 .. MaxDepth] /\ chain \in Seq(Nodes)
  BY TypeFacts DEF IInv
<1>2. Len(chain) \in 1 .. Len(chain)
  <2>1. Len(chain) \in Nat
    BY <1>1, LenProperties
  <2>2. Len(chain) > 0
    BY DEF IInv, AtLimit
  <2> QED
    BY <2>1, <2>2
<1>3. PICK last \in Nodes : last = chain[Len(chain)]
  BY <1>1, <1>2, ElementOfSeq
<1>4. \/ parent[last] = 0 /\ MaxDepth = 0
      \/ parent[last] # 0 /\ MaxDepth # 0 /\ depths[parent[last]] = MaxDepth
  <2>1. depth = MaxDepth /\ Len(chain) > 0
    BY DEF IInv, AtLimit
  <2> QED
    BY <1>3, <2>1 DEF IInv, Shrinking
<1> DEFINE set  == {n \in Nodes : depths[n] # 0} \cup {last}
           rank == [n \in set |-> IF n = last THEN MaxDepth + 1 ELSE depths[n]]
<1>5. depths[last] = 0
  BY <1>2, <1>3 DEF IInv, Chain
<1>6. set \in SUBSET Nodes /\ last \in set
  OBVIOUS
<1>7. rank \in [set -> 1 .. MaxDepth + 1]
  <2>1. \A n \in set : rank[n] \in 1 .. MaxDepth + 1
    <3>1. \A n \in Nodes : depths[n] \in 0 .. MaxDepth
      BY <1>1
    <3>2. \A d \in 0 .. MaxDepth : d # 0 => d \in 1 .. MaxDepth + 1
      BY LimitsAssumption
    <3>3. MaxDepth + 1 \in 1 .. MaxDepth + 1
      BY LimitsAssumption
    <3> QED
      BY <3>1, <3>2, <3>3
  <2> QED
    BY <2>1
<1>8. \A n \in Nodes : parent[n] # 0 => parent[n] \in Nodes
  <2>1. \A n \in Nodes : parent[n] \in 0 .. count
    BY DEF IInv, Known, Traversing
  <2>2. count \in Nat
    BY TypeFacts DEF IInv
  <2> HIDE DEF set, rank
  <2> QED
    BY <2>1, <2>2 DEF Nodes
<1>9. Ranks(rank, set)
  <2>1. ASSUME NEW n \in set, n = last
        PROVE  IF parent[n] = 0 THEN rank[n] = 1
               ELSE parent[n] \in set /\ rank[n] = rank[parent[n]] + 1
    <3>1. rank[n] = MaxDepth + 1
      BY <2>1
    <3>2. CASE parent[n] = 0
      <4>1. MaxDepth = 0
        BY <1>4, <2>1, <3>2
      <4> HIDE DEF set, rank
      <4> QED
        BY <3>1, <3>2, <4>1
    <3>3. CASE parent[n] # 0
      <4>1. parent[n] \in Nodes /\ depths[parent[n]] = MaxDepth /\ MaxDepth # 0
        BY <1>4, <1>8, <2>1, <3>3
      <4>2. parent[n] \in set /\ parent[n] # last
        BY <1>5, <4>1
      <4> QED
        BY <3>1, <3>3, <4>1, <4>2
    <3> QED
      BY <3>2, <3>3
  <2>2. ASSUME NEW n \in set, n # last
        PROVE  IF parent[n] = 0 THEN rank[n] = 1
               ELSE parent[n] \in set /\ rank[n] = rank[parent[n]] + 1
    <3>1. depths[n] # 0 /\ n \in Nodes /\ rank[n] = depths[n]
      BY <2>2
    <3>2. Hangs(n)
      BY <3>1 DEF IInv, Numbered, Traversing
    <3>3. CASE parent[n] = 0
      BY <3>1, <3>2, <3>3 DEF Hangs
    <3>4. CASE parent[n] # 0
      <4>1. depths[parent[n]] # 0 /\ depths[n] = depths[parent[n]] + 1 /\ parent[n] \in Nodes
        BY <1>8, <3>1, <3>2, <3>4 DEF Hangs
      <4>2. parent[n] \in set /\ parent[n] # last
        BY <1>5, <4>1
      <4> QED
        BY <3>1, <3>4, <4>1, <4>2
    <3> QED
      BY <3>3, <3>4
  <2> HIDE DEF set, rank
  <2> QED
    BY <2>1, <2>2 DEF Ranks, Root
<1>10. rank[last] = MaxDepth + 1
  BY <1>6
<1> HIDE DEF set, rank
<1> QED
  BY <1>6, <1>7, <1>9, <1>10 DEF IsTooDeep

\* The verdict of from_response is right, for every answer and any limits: what
\* it accepts is a forest within the depth limit, and each refusal of the
\* traversal gives its true reason.
THEOREM VerdictsAreRight == Spec => []VerdictIsRight
<1>1. IInv => VerdictIsRight
  BY AcceptedIsForest, RefusedHasCycle, RefusedIsTooDeep DEF VerdictIsRight
<1> QED
  BY <1>1, Inductive, PTL
=============================================================================
