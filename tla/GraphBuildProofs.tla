-------------------------- MODULE GraphBuildProofs ---------------------------
(***************************************************************************)
(* Theorems about GraphBuild, for every set of ids, every number of edges  *)
(* and of callers: the order BuildTopology stores is what LogicGraph       *)
(* assumes of it, a cycle is reported exactly when there is one, and the   *)
(* two critical sections of GetOrAddInputNode never list an input twice.   *)
(***************************************************************************)
EXTENDS GraphBuild, FiniteSetTheorems, WellFoundedInduction, TLAPS

(* A step only adds: ids stay, and so do the edges already there. *)
LEMMA Grows ==
  ASSUME TypeOK, [Next]_vars
  PROVE  /\ nodes \subseteq nodes'
         /\ edges' \in Seq(nodes \X nodes)
         /\ Len(edges) <= Len(edges')
         /\ \A k \in 1..Len(edges) : To(k)' = To(k) /\ From(k)' = From(k)
<1>1. CASE UNCHANGED <<kind, edges>>
  BY <1>1 DEF nodes, To, From, TypeOK
<1>2. ASSUME NEW n \in Node, NEW k \in Kind, NEW who, Insert(n, k, who)
      PROVE  nodes \subseteq nodes' /\ edges' = edges
  BY <1>2 DEF Insert, nodes, Exists, TypeOK
<1>3. ASSUME NEW f \in Node, NEW t \in Node, AddEdge(f, t)
      PROVE  nodes' = nodes /\ f \in nodes /\ t \in nodes /\ edges' = Append(edges, <<f, t>>)
  BY <1>3 DEF AddEdge, nodes, Exists
<1>4. CASE nodes \subseteq nodes' /\ edges' = edges
  BY <1>4 DEF To, From, TypeOK
<1>5. CASE \E f, t \in Node : AddEdge(f, t)
  <2>1. PICK f \in Node, t \in Node : AddEdge(f, t)
    BY <1>5
  <2>2. /\ edges \in Seq(nodes \X nodes) /\ <<f, t>> \in nodes \X nodes
        /\ edges' = Append(edges, <<f, t>>) /\ nodes' = nodes
    BY <2>1, <1>3 DEF TypeOK
  <2>3. \A k \in 1..Len(edges) : edges'[k] = edges[k]
    BY <2>2
  <2> QED BY <2>2, <2>3 DEF To, From
<1>6. CASE \E n \in Node, k \in Kind : AddNode(n, k)
  BY <1>2, <1>4, <1>6 DEF AddNode
<1>7. CASE \E c \in Caller : AddAbsent(c)
  <2>1. PICK c \in Caller : AddAbsent(c)
    BY <1>7
  <2>2. id[c] \in Node
    BY <2>1 DEF AddAbsent, TypeOK
  <2> QED BY <2>1, <2>2, <1>2, <1>4 DEF AddAbsent, Kind
<1> QED
  BY <1>1, <1>5, <1>6, <1>7
     DEF Next, vars, graphVars, BeginSort, EmptyGraph, Pop, EndSort,
         StoreOrder, LookUp, LoseRace, Return
-----------------------------------------------------------------------------
LEMMA TypeInit == Init => TypeOK
BY DEF Init, TypeOK, nodes

LEMMA TypeNext == TypeOK /\ [Next]_vars => TypeOK'
<1> SUFFICES ASSUME TypeOK, [Next]_vars PROVE TypeOK'
  OBVIOUS
<1>0. /\ nodes \subseteq nodes' /\ edges' \in Seq(nodes \X nodes)
      /\ Len(edges) <= Len(edges') /\ Len(edges) \in Nat
  BY Grows DEF TypeOK
<1>1. edges' \in Seq(nodes' \X nodes')
  BY <1>0
<1>2. ASSUME UNCHANGED <<phase, pending, ready, result, err, sortedFrom, topoOrder>>
      PROVE  /\ topoOrder' \in Seq(nodes') /\ result' \in Seq(nodes')
             /\ pending' \subseteq DOMAIN edges' /\ ready' \subseteq nodes'
             /\ sortedFrom' \in [nodes : SUBSET nodes', edges : 0..Len(edges')]
  BY <1>0, <1>2 DEF TypeOK
<1>3. CASE \E n \in Node, k \in Kind : AddNode(n, k)
  BY <1>1, <1>2, <1>3 DEF TypeOK, AddNode, Insert, sortVars, callVars, Kind
<1>4. CASE \E f, t \in Node : AddEdge(f, t)
  BY <1>1, <1>2, <1>4 DEF TypeOK, AddEdge, sortVars, callVars
<1>5. CASE BeginSort
  BY <1>5 DEF TypeOK, BeginSort, graphVars, callVars, nodes
<1>6. CASE EmptyGraph
  BY <1>6 DEF TypeOK, EmptyGraph, graphVars, callVars, nodes
<1>7. CASE \E n \in Node : Pop(n)
  <2>1. PICK n \in Node : Pop(n)
    BY <1>7
  <2>2. n \in nodes /\ nodes' = nodes /\ result' \in Seq(nodes)
    BY <2>1 DEF Pop, TypeOK, graphVars, nodes
  <2> QED BY <2>1, <2>2 DEF TypeOK, Pop, graphVars, callVars, Released
<1>8. CASE EndSort
  BY <1>8 DEF TypeOK, EndSort, graphVars, callVars, nodes
<1>9. CASE StoreOrder
  BY <1>9 DEF TypeOK, StoreOrder, graphVars, callVars, nodes
<1>10. CASE \E c \in Caller, n \in Node : LookUp(c, n)
  BY <1>1, <1>2, <1>10 DEF TypeOK, LookUp, Found, graphVars, sortVars
<1>11. CASE \E c \in Caller : AddAbsent(c)
  <2>1. PICK c \in Caller : AddAbsent(c)
    BY <1>11
  <2>2. id[c] \in Node /\ UNCHANGED id
    BY <2>1 DEF AddAbsent, TypeOK
  <2>3. /\ kind' \in [Node -> Kind \union {"none"}]
        /\ inputNodes' \in Seq(Node)
        /\ adder' \in [Node -> Caller \union {"loader", "none"}]
    BY <2>1, <2>2 DEF TypeOK, AddAbsent, Insert, Kind
  <2>4. /\ pc' \in [Caller -> {"idle", "absent", "ok", "notInput", "alreadyExists"}]
        /\ \A d \in Caller : pc'[d] # "idle" => id'[d] \in Node
    BY <2>1, <2>2 DEF TypeOK, AddAbsent
  <2> QED BY <1>1, <1>2, <2>1, <2>2, <2>3, <2>4 DEF TypeOK, AddAbsent, sortVars
<1>12. CASE \E c \in Caller : LoseRace(c) \/ Return(c)
  BY <1>1, <1>2, <1>12 DEF TypeOK, LoseRace, Return, graphVars, sortVars
<1>13. CASE UNCHANGED vars
  BY <1>1, <1>2, <1>13 DEF TypeOK, vars, graphVars, sortVars, callVars
<1> QED
  BY <1>3, <1>4, <1>5, <1>6, <1>7, <1>8, <1>9, <1>10, <1>11, <1>12, <1>13
     DEF Next

(* Every variable of the builder keeps its type. *)
THEOREM TypeCorrect == Spec => []TypeOK
BY TypeInit, TypeNext, PTL DEF Spec
-----------------------------------------------------------------------------
(* A sequence of distinct members of a finite set lists the whole set      *)
(* exactly when it is as long as the set is large: the test TopologicalSort *)
(* makes (dag.go:174).                                                     *)
LEMMA FullLength ==
  ASSUME NEW S, IsFiniteSet(S), NEW s \in Seq(S),
         \A i, j \in DOMAIN s : s[i] = s[j] => i = j
  PROVE  Len(s) = Cardinality(S) <=> Listed(s) = S
<1>1. s \in [1..Len(s) -> S] /\ DOMAIN s = 1..Len(s) /\ Len(s) \in Nat
  OBVIOUS
<1>2. s \in Injection(1..Len(s), S)
  BY <1>1 DEF Injection, IsInjective
<1>3. Cardinality(1..Len(s)) = Len(s) /\ IsFiniteSet(1..Len(s))
  <2>1. \A n \in Nat : /\ IsFiniteSet(1..n)
                       /\ Cardinality(1..n) = IF 1 > n THEN 0 ELSE n - 1 + 1
    BY FS_Interval
  <2>2. \A n \in Nat : (IF 1 > n THEN 0 ELSE n - 1 + 1) = n
    OBVIOUS
  <2> QED BY <1>1, <2>1, <2>2
<1>4. Len(s) = Cardinality(S) <=> s \in Surjection(1..Len(s), S)
  BY <1>2, <1>3, FS_Injection
<1>5. s \in Surjection(1..Len(s), S) <=> Listed(s) = S
  BY <1>1 DEF Surjection, Listed
<1> QED BY <1>4, <1>5

(* A non-empty set of naturals has a least member. *)
LEMMA Least ==
  ASSUME NEW T \in SUBSET Nat, T # {}
  PROVE  \E x \in T : \A y \in T : x <= y
<1> DEFINE R == OpToRel(<, Nat)
<1>1. \E x \in T : \A y \in T : <<y, x>> \notin R
  BY WFMin, NatLessThanWellFounded
<1>2. \A x, y \in Nat : <<y, x>> \in R <=> y < x
  BY DEF OpToRel
<1>3. \A x, y \in Nat : y < x \/ x <= y
  OBVIOUS
<1> HIDE DEF R
<1> QED BY <1>1, <1>2, <1>3, Zenon

(* A graph with an order has no cycle: of the members of a cycle, the one  *)
(* placed first would have to come after another.                          *)
LEMMA OrderedHasNoCycle ==
  ASSUME NEW s \in Seq(nodes), IsOrder(s), sortedFrom.edges \in Nat
  PROVE  ~HasCycle
<1> SUFFICES ASSUME NEW S \in SUBSET sortedFrom.nodes, Cyclic(S)
             PROVE  FALSE
  BY DEF HasCycle
<1> DEFINE T == {i \in DOMAIN s : s[i] \in S}
<1>1. T \in SUBSET Nat /\ DOMAIN s = 1..Len(s) /\ Len(s) \in Nat
  OBVIOUS
<1>2. T # {}
  BY DEF Cyclic, IsOrder, Listed
<1>3. PICK i \in T : \A j \in T : i <= j
  BY <1>1, <1>2, Least
<1>4. PICK k \in 1..sortedFrom.edges : To(k) = s[i] /\ From(k) \in S
  BY <1>3 DEF Cyclic
<1>5. PICK j \in 1..(i-1) : s[j] = From(k)
  BY <1>1, <1>3, <1>4 DEF IsOrder
<1>6. j \in T
  BY <1>1, <1>3, <1>4, <1>5
<1> QED BY <1>1, <1>3, <1>5, <1>6
-----------------------------------------------------------------------------
(* What the sort has done so far: the nodes it has placed are distinct,    *)
(* each comes after its inputs, the edges still counted are those from     *)
(* nodes not yet placed, and the queue has the nodes that none of these    *)
(* holds back.                                                             *)
Placing ==
  /\ sortedFrom = [nodes |-> nodes, edges |-> Len(edges)]
  /\ \A i, j \in DOMAIN result : result[i] = result[j] => i = j
  /\ \A k \in DOMAIN edges, i \in DOMAIN result :
       result[i] = To(k) => \E j \in 1..(i-1) : result[j] = From(k)
  /\ pending = {k \in DOMAIN edges : From(k) \notin Listed(result)}
  /\ ready \intersect Listed(result) = {}
  /\ ready \union Listed(result)
       = {n \in nodes : \A k \in pending : To(k) # n}

SortInv ==
  /\ phase = "sorting" => Placing
  /\ phase = "sorted" => IsOrder(result)
  /\ err # "none" => phase = "done"
  /\ err = "nil" => IsOrder(topoOrder)
  /\ err = "ErrCycleDetected" => HasCycle

LEMMA SortInit == Init => SortInv
BY DEF Init, SortInv

(* Steps that are not the sort's own. *)
LEMMA SortAside ==
  ASSUME TypeOK, SortInv, [Next]_vars, UNCHANGED sortVars,
         phase = "sorting" => UNCHANGED <<kind, edges>>
  PROVE  SortInv'
<1>1. sortedFrom' = sortedFrom /\ sortedFrom.edges \in 0..Len(edges) /\ Len(edges) \in Nat
  BY DEF sortVars, TypeOK
<1>2. \A k \in 1..sortedFrom.edges : To(k)' = To(k) /\ From(k)' = From(k)
  BY <1>1, Grows
<1>3. err = "nil" => IsOrder(topoOrder)'
  BY <1>1, <1>2 DEF SortInv, IsOrder, sortVars
<1>4. phase = "sorted" => IsOrder(result)'
  BY <1>1, <1>2 DEF SortInv, IsOrder, sortVars
<1>5. err = "ErrCycleDetected" => HasCycle'
  <2>1. \A S : Cyclic(S) => Cyclic(S)'
    BY <1>1, <1>2 DEF Cyclic
  <2> QED BY <1>1, <2>1 DEF HasCycle, SortInv
<1>6. phase = "sorting" => Placing'
  BY DEF SortInv, Placing, sortVars, nodes, To, From, Listed
<1> QED BY <1>3, <1>4, <1>5, <1>6 DEF SortInv, sortVars

LEMMA SortBegin ==
  ASSUME TypeOK, SortInv, BeginSort
  PROVE  SortInv'
<1>1. phase' = "sorting" /\ err = "none" /\ err' = "none"
  BY DEF BeginSort, SortInv
<1>2. nodes' = nodes /\ edges' = edges /\ result' = <<>> /\ DOMAIN edges = 1..Len(edges)
  BY DEF BeginSort, graphVars, nodes, TypeOK
<1>3. Listed(result)' = {}
  BY <1>2 DEF Listed
<1>4. Placing'
  BY <1>2, <1>3 DEF Placing, BeginSort, To, From
<1> QED BY <1>1, <1>4 DEF SortInv

LEMMA SortPop ==
  ASSUME TypeOK, SortInv, NEW n \in Node, Pop(n)
  PROVE  SortInv'
<1> DEFINE left == {k \in pending : From(k) # n}
<1>1. /\ phase = "sorting" /\ phase' = "sorting" /\ err' = err /\ n \in ready
      /\ result' = Append(result, n) /\ pending' = left
      /\ ready' = (ready \ {n}) \union Released(n, left)
      /\ sortedFrom' = sortedFrom /\ edges' = edges /\ nodes' = nodes
  BY DEF Pop, graphVars, nodes
<1>2. Placing /\ n \in nodes /\ result \in Seq(nodes) /\ edges \in Seq(nodes \X nodes)
  BY <1>1 DEF SortInv, TypeOK
<1>3. \A k : To(k)' = To(k) /\ From(k)' = From(k)
  BY <1>1 DEF To, From
<1>4. /\ Len(result') = Len(result) + 1 /\ result'[Len(result) + 1] = n
      /\ \A i \in 1..Len(result) : result'[i] = result[i]
      /\ DOMAIN result = 1..Len(result) /\ DOMAIN result' = 1..(Len(result) + 1)
      /\ Len(result) \in Nat
  BY <1>1, <1>2
<1>5. Listed(result)' = Listed(result) \union {n} /\ n \notin Listed(result)
  BY <1>1, <1>2, <1>4 DEF Listed, Placing
<1>6. \A i, j \in DOMAIN result' : result'[i] = result'[j] => i = j
  BY <1>2, <1>4, <1>5 DEF Placing, Listed
<1>7. ASSUME NEW k \in DOMAIN edges, NEW i \in DOMAIN result', result'[i] = To(k)
      PROVE  \E j \in 1..(i-1) : result'[j] = From(k)
  <2>1. CASE i \in 1..Len(result)
    BY <1>2, <1>4, <1>7, <2>1 DEF Placing
  <2>2. CASE i = Len(result) + 1
    <3>1. To(k) = n
      BY <1>4, <1>7, <2>2
    <3>2. k \notin pending
      BY <1>1, <1>2, <3>1 DEF Placing
    <3>3. From(k) \in Listed(result)
      BY <1>2, <3>2 DEF Placing
    <3> QED BY <1>4, <2>2, <3>3 DEF Listed
  <2> QED BY <1>4, <2>1, <2>2
<1>8. pending' = {k \in DOMAIN edges : From(k) \notin Listed(result)'}
  BY <1>1, <1>2, <1>5 DEF Placing
<1>9. ready' \union Listed(result)' = {m \in nodes : \A k \in left : To(k) # m}
  BY <1>1, <1>2, <1>5 DEF Placing, Released
<1>10. ready' \intersect Listed(result)' = {}
  <2>1. \A m \in Released(n, left) : m \notin Listed(result) /\ m # n
    BY <1>1, <1>2 DEF Placing, Released
  <2> QED BY <1>1, <1>2, <1>5, <2>1 DEF Placing
<1>11. Placing'
  <2> HIDE DEF left
  <2>1. sortedFrom' = [nodes |-> nodes', edges |-> Len(edges')]
    BY <1>1, <1>2 DEF Placing
  <2>2. \A k \in DOMAIN edges', i \in DOMAIN result' :
          result'[i] = To(k)' => \E j \in 1..(i-1) : result'[j] = From(k)'
    BY <1>1, <1>3, <1>7
  <2>3. pending' = {k \in DOMAIN edges' : From(k)' \notin Listed(result)'}
    BY <1>1, <1>3, <1>8
  <2>4. ready' \union Listed(result)'
          = {m \in nodes' : \A k \in pending' : To(k)' # m}
    BY <1>1, <1>3, <1>9
  <2> QED BY <1>6, <1>10, <2>1, <2>2, <2>3, <2>4 DEF Placing
<1> QED BY <1>1, <1>11 DEF SortInv

LEMMA SortEnd ==
  ASSUME TypeOK, SortInv, EndSort
  PROVE  SortInv'
<1>1. /\ phase = "sorting" /\ ready = {} /\ Placing /\ err = "none"
      /\ UNCHANGED <<kind, edges, result, sortedFrom, pending>>
  BY DEF EndSort, SortInv, graphVars
<1>2. /\ IsFiniteSet(nodes) /\ result \in Seq(nodes)
      /\ edges \in Seq(nodes \X nodes) /\ DOMAIN edges = 1..Len(edges)
  BY FS_Subset, BuildAssumption DEF nodes, TypeOK
<1>3. AllPlaced <=> Listed(result) = nodes
  BY <1>1, <1>2, FullLength DEF AllPlaced, Placing
<1>4. CASE AllPlaced
  <2>1. IsOrder(result)
    BY <1>1, <1>2, <1>3, <1>4 DEF IsOrder, Placing
  <2>2. IsOrder(result)'
    BY <1>1, <2>1 DEF IsOrder, Listed, To, From
  <2> QED BY <1>1, <1>4, <2>2 DEF EndSort, SortInv
<1>5. CASE ~AllPlaced
  <2> DEFINE core == nodes \ Listed(result)
  <2>1. core # {}
    BY <1>2, <1>3, <1>5 DEF Listed
  <2>2. ASSUME NEW n \in core
        PROVE  \E k \in 1..sortedFrom.edges : To(k) = n /\ From(k) \in core
    <3>1. PICK k \in pending : To(k) = n
      BY <1>1 DEF Placing
    <3>2. k \in DOMAIN edges /\ From(k) \notin Listed(result) /\ From(k) \in nodes
      BY <1>1, <1>2, <3>1 DEF Placing, From
    <3> QED BY <1>1, <1>2, <3>1, <3>2 DEF Placing
  <2>3. Cyclic(core)
    BY <2>1, <2>2 DEF Cyclic
  <2>4. HasCycle
    BY <1>1, <2>3 DEF HasCycle, Placing
  <2>5. HasCycle'
    BY <1>1, <2>4 DEF HasCycle, Cyclic, To, From
  <2> QED BY <1>1, <1>5, <2>5 DEF EndSort, SortInv
<1> QED BY <1>4, <1>5

LEMMA SortNext == TypeOK /\ SortInv /\ [Next]_vars => SortInv'
<1> SUFFICES ASSUME TypeOK, SortInv, [Next]_vars PROVE SortInv'
  OBVIOUS
<1>1. CASE BeginSort
  BY <1>1, SortBegin
<1>2. CASE EmptyGraph
  BY <1>2 DEF EmptyGraph, SortInv
<1>3. CASE \E n \in Node : Pop(n)
  BY <1>3, SortPop
<1>4. CASE EndSort
  BY <1>4, SortEnd
<1>5. CASE StoreOrder
  BY <1>5 DEF StoreOrder, SortInv, IsOrder, Listed, To, From, graphVars
<1>6. CASE /\ UNCHANGED sortVars
           /\ phase = "sorting" => UNCHANGED <<kind, edges>>
  BY <1>6, SortAside
<1> QED
  BY <1>1, <1>2, <1>3, <1>4, <1>5, <1>6
     DEF Next, vars, AddNode, AddEdge, Insert, WriteLockFree, LookUp,
         AddAbsent, LoseRace, Return, graphVars

(* The order a successful BuildTopology stores is sound.  This discharges  *)
(* what LogicGraph assumes of topoOrder, for every graph.                  *)
THEOREM OrderIsSound == Spec => []OrderSound
<1>1. SortInv => OrderSound
  BY DEF SortInv, OrderSound
<1> QED BY <1>1, TypeInit, TypeNext, SortInit, SortNext, PTL DEF Spec

(* BuildTopology fails with a cycle exactly when there is one. *)
THEOREM CyclesFound == Spec => []CycleExact
<1>1. TypeOK /\ SortInv => CycleExact
  <2> SUFFICES ASSUME TypeOK, SortInv PROVE CycleExact
    OBVIOUS
  <2>1. err = "nil" => ~HasCycle
    BY OrderedHasNoCycle DEF TypeOK, SortInv
  <2> QED BY <2>1 DEF SortInv, CycleExact
<1> QED BY <1>1, TypeInit, TypeNext, SortInit, SortNext, PTL DEF Spec
-----------------------------------------------------------------------------
(* g.InputNodes and g.Nodes agree, although lookup and creation of an      *)
(* input are two critical sections.                                        *)
LEMMA InsertOnce ==
  ASSUME TypeOK, InputsOnce, NEW n \in Node, NEW k \in Kind, NEW who,
         Insert(n, k, who)
  PROVE  InputsOnce'
<1>1. /\ kind[n] = "none" /\ kind' = [kind EXCEPT ![n] = k]
      /\ inputNodes' = IF k = "INPUT" THEN Append(inputNodes, n) ELSE inputNodes
      /\ inputNodes \in Seq(Node) /\ kind \in [Node -> Kind \union {"none"}]
      /\ k # "none"
  BY DEF Insert, Exists, TypeOK, Kind
<1>2. n \notin Listed(inputNodes)
  BY <1>1 DEF InputsOnce
<1>3. CASE k = "INPUT"
  <2>1. /\ Len(inputNodes') = Len(inputNodes) + 1 /\ inputNodes'[Len(inputNodes) + 1] = n
        /\ \A i \in 1..Len(inputNodes) : inputNodes'[i] = inputNodes[i]
        /\ DOMAIN inputNodes = 1..Len(inputNodes) /\ Len(inputNodes) \in Nat
        /\ DOMAIN inputNodes' = 1..(Len(inputNodes) + 1)
    BY <1>1, <1>3
  <2>2. Listed(inputNodes)' = Listed(inputNodes) \union {n}
    BY <2>1 DEF Listed
  <2>3. {m \in Node : kind'[m] = "INPUT"} = {m \in Node : kind[m] = "INPUT"} \union {n}
    BY <1>1, <1>3
  <2>4. \A i, j \in DOMAIN inputNodes' : inputNodes'[i] = inputNodes'[j] => i = j
    BY <1>2, <2>1 DEF InputsOnce, Listed
  <2> QED BY <2>2, <2>3, <2>4 DEF InputsOnce
<1>4. CASE k # "INPUT"
  BY <1>1, <1>4 DEF InputsOnce, Listed
<1> QED BY <1>3, <1>4

(* Each input of the graph is in InputNodes once. *)
THEOREM InputsListedOnce == Spec => []InputsOnce
<1>1. Init => InputsOnce
  BY DEF Init, InputsOnce, Listed
<1>2. TypeOK /\ InputsOnce /\ [Next]_vars => InputsOnce'
  <2> SUFFICES ASSUME TypeOK, InputsOnce, [Next]_vars PROVE InputsOnce'
    OBVIOUS
  <2>1. CASE \E n \in Node, k \in Kind : AddNode(n, k)
    BY <2>1, InsertOnce DEF AddNode
  <2>2. CASE \E c \in Caller : AddAbsent(c)
    <3>1. PICK c \in Caller : Insert(id[c], "INPUT", c) /\ id[c] \in Node
      BY <2>2 DEF AddAbsent, TypeOK
    <3> QED BY <3>1, InsertOnce DEF Kind
  <2>3. CASE UNCHANGED <<kind, inputNodes>>
    BY <2>3 DEF InputsOnce, Listed
  <2> QED
    BY <2>1, <2>2, <2>3
       DEF Next, vars, AddEdge, BeginSort, EmptyGraph, Pop, EndSort,
           StoreOrder, LookUp, LoseRace, Return, graphVars
<1> QED BY <1>1, <1>2, TypeInit, TypeNext, PTL DEF Spec
-----------------------------------------------------------------------------
(* A caller that found its node absent has not created it since. *)
RaceInv ==
  /\ \A n \in Node : kind[n] = "none" => adder[n] = "none"
  /\ \A c \in Caller : /\ pc[c] = "absent" => adder[id[c]] # c
                       /\ pc[c] = "alreadyExists" => Exists(id[c]) /\ adder[id[c]] # c
                       /\ pc[c] = "ok" => kind[id[c]] = "INPUT"

LEMMA RaceInsert ==
  ASSUME TypeOK, RaceInv, NEW n \in Node, NEW k \in Kind, NEW who,
         Insert(n, k, who), id' = id,
         \A c \in Caller : c # who => pc'[c] = pc[c],
         who \in Caller => pc'[who] = "ok" /\ id[who] = n /\ k = "INPUT"
  PROVE  RaceInv'
<1>1. /\ kind[n] = "none" /\ kind' = [kind EXCEPT ![n] = k] /\ k # "none"
      /\ adder' = [adder EXCEPT ![n] = who]
      /\ kind \in [Node -> Kind \union {"none"}]
      /\ adder \in [Node -> Caller \union {"loader", "none"}]
  BY DEF Insert, Exists, TypeOK, Kind
<1>2. \A m \in Node : kind'[m] = "none" => adder'[m] = "none"
  BY <1>1 DEF RaceInv
<1>3. ASSUME NEW c \in Caller, c # who, pc[c] # "idle"
      PROVE  /\ pc'[c] = "absent" => adder'[id[c]] # c
             /\ pc'[c] = "alreadyExists" => kind'[id[c]] # "none" /\ adder'[id[c]] # c
             /\ pc'[c] = "ok" => kind'[id[c]] = "INPUT"
  <2>1. id[c] \in Node /\ pc'[c] = pc[c]
    BY <1>3 DEF TypeOK
  <2> QED BY <1>1, <1>3, <2>1 DEF RaceInv, Exists
<1>4. ASSUME who \in Caller PROVE kind'[id[who]] = "INPUT" /\ pc'[who] = "ok"
  BY <1>1, <1>4
<1> QED BY <1>2, <1>3, <1>4 DEF RaceInv, Exists

LEMMA RaceNext == TypeOK /\ RaceInv /\ [Next]_vars => RaceInv'
<1> SUFFICES ASSUME TypeOK, RaceInv, [Next]_vars PROVE RaceInv'
  OBVIOUS
<1>1. CASE \E n \in Node, k \in Kind : AddNode(n, k)
  BY <1>1, RaceInsert, BuildAssumption DEF AddNode, callVars
<1>2. CASE \E c \in Caller : AddAbsent(c)
  <2>1. PICK c \in Caller : AddAbsent(c)
    BY <1>2
  <2>2. /\ id[c] \in Node /\ Insert(id[c], "INPUT", c) /\ id' = id
        /\ pc'[c] = "ok" /\ \A d \in Caller : d # c => pc'[d] = pc[d]
    BY <2>1 DEF AddAbsent, TypeOK
  <2> QED BY <2>2, RaceInsert DEF Kind
<1>3. CASE \E c \in Caller, n \in Node : LookUp(c, n)
  <2>1. PICK c \in Caller, n \in Node : LookUp(c, n)
    BY <1>3
  <2>2. /\ id' = [id EXCEPT ![c] = n] /\ UNCHANGED <<kind, adder>>
        /\ pc' = [pc EXCEPT ![c] = IF Exists(n) THEN Found(n) ELSE "absent"]
    BY <2>1 DEF LookUp, graphVars
  <2>3. ~Exists(n) => adder[n] # c
    BY BuildAssumption DEF RaceInv, Exists
  <2> QED BY <2>2, <2>3 DEF RaceInv, Exists, Found, TypeOK
<1>4. CASE \E c \in Caller : LoseRace(c)
  BY <1>4 DEF LoseRace, RaceInv, Exists, graphVars, TypeOK
<1>5. CASE \E c \in Caller : Return(c)
  BY <1>5 DEF Return, RaceInv, Exists, graphVars, TypeOK
<1>6. CASE UNCHANGED <<kind, adder, pc, id>>
  BY <1>6 DEF RaceInv, Exists
<1> QED
  BY <1>1, <1>2, <1>3, <1>4, <1>5, <1>6
     DEF Next, vars, AddEdge, BeginSort, EmptyGraph, Pop, EndSort,
         StoreOrder, graphVars, callVars

(* GetOrAddInputNode fails with "already exists" only when another         *)
(* goroutine created the node in between.                                  *)
THEOREM LoserFoundItTaken == Spec => []FailsOnlyToAnother
<1>1. Init => RaceInv
  BY DEF Init, RaceInv
<1>2. RaceInv => FailsOnlyToAnother
  BY DEF RaceInv, FailsOnlyToAnother
<1> QED BY <1>1, <1>2, TypeInit, TypeNext, RaceNext, PTL DEF Spec
=============================================================================
