----------------------------- MODULE GraphBuild ------------------------------
(***************************************************************************)
(* How the logic graph of pkg/logic/dag.go is put together and ordered:    *)
(* AddNode and AddEdge, each one critical section of the graph's lock;     *)
(* BuildTopology, which sorts under the READ lock, lets go of it, and      *)
(* stores the order under the write lock; and GetOrAddInputNode, by which  *)
(* the goroutines of the differential engine create the inputs they drive, *)
(* which looks the node up in one critical section and adds it in another. *)
(*                                                                         *)
(* `edges` is every AddEdge in order, parallel edges and self-loops        *)
(* included; node.Inputs and node.Outputs are its entries to and from the  *)
(* node.  inDegree[n] is the number of PENDING edges to n.  The order in   *)
(* which ready nodes leave TopologicalSort's queue starts from a map       *)
(* iteration and is left open: `ready` is the set of nodes in the queue.   *)
(***************************************************************************)
EXTENDS Integers, Sequences, FiniteSets

CONSTANTS Node,      \* the ids a node can have
          Caller,    \* goroutines in UpsertInputNode
          MaxEdges   \* bound on AddEdge

ASSUME BuildAssumption ==
  /\ IsFiniteSet(Node)
  /\ MaxEdges \in Nat
  /\ "none" \notin Caller /\ "loader" \notin Caller

VARIABLES
  kind,       \* type of each node of g.Nodes, "none" for an id not in it
  inputNodes, \* g.InputNodes
  edges,      \* every edge added, as <<from, to>>
  topoOrder,  \* g.topoOrder, <<>> before it is built
  phase,      \* BuildTopology: "idle", "sorting", "sorted", "done"
  pending,    \* TopologicalSort: the edges its inDegree still counts
  ready,      \* TopologicalSort: the nodes in its queue
  result,     \* TopologicalSort: result
  err,        \* what BuildTopology returned
  sortedFrom, \* auxiliary: the nodes and number of edges of the graph sorted
  pc,         \* GetOrAddInputNode of each caller
  id,         \* ... and its argument
  adder       \* auxiliary: who created each node, "loader" for AddNode

graphVars == <<kind, inputNodes, edges, adder>>
sortVars  == <<phase, pending, ready, result, err, sortedFrom, topoOrder>>
callVars  == <<pc, id>>
vars      == <<graphVars, sortVars, callVars>>

Kind    == {"INPUT", "GATE"}
nodes   == {n \in Node : kind[n] # "none"}
From(k) == edges[k][1]
To(k)   == edges[k][2]
Listed(s) == {s[i] : i \in DOMAIN s}

Init ==
  /\ kind = [n \in Node |-> "none"]
  /\ inputNodes = <<>> /\ edges = <<>> /\ topoOrder = <<>>
  /\ phase = "idle" /\ pending = {} /\ ready = {} /\ result = <<>>
  /\ err = "none"
  /\ sortedFrom = [nodes |-> {}, edges |-> 0]
  /\ pc = [c \in Caller |-> "idle"]
  /\ id = [c \in Caller |-> "none"]
  /\ adder = [n \in Node |-> "none"]
-----------------------------------------------------------------------------
(* g.mu cannot be taken for writing while TopologicalSort reads. *)
WriteLockFree == phase # "sorting"

NeverExists(n) == FALSE
Exists(n)      == kind[n] # "none"

(* AddNode when the id is free: otherwise it fails and changes nothing. *)
Insert(n, k, who) ==
  /\ WriteLockFree
  /\ ~Exists(n)
  /\ kind' = [kind EXCEPT ![n] = k]
  /\ adder' = [adder EXCEPT ![n] = who]
  /\ inputNodes' = IF k = "INPUT" THEN Append(inputNodes, n) ELSE inputNodes
  /\ UNCHANGED edges

AddNode(n, k) == Insert(n, k, "loader") /\ UNCHANGED <<sortVars, callVars>>

AddEdge(f, t) ==
  /\ WriteLockFree
  /\ Len(edges) < MaxEdges
  /\ Exists(f) /\ Exists(t)
  /\ edges' = Append(edges, <<f, t>>)
  /\ UNCHANGED <<kind, inputNodes, adder, sortVars, callVars>>
-----------------------------------------------------------------------------
(* The engine calls BuildTopology under its own lock: one sort at a time. *)
BeginSort ==
  /\ phase = "idle"
  /\ nodes # {}
  /\ phase' = "sorting"
  /\ pending' = DOMAIN edges
  /\ ready' = {n \in nodes : \A k \in DOMAIN edges : To(k) # n}
  /\ result' = <<>>
  /\ sortedFrom' = [nodes |-> nodes, edges |-> Len(edges)]
  /\ UNCHANGED <<graphVars, callVars, err, topoOrder>>

EmptyGraph ==
  /\ phase = "idle"
  /\ nodes = {}
  /\ phase' = "done"
  /\ err' = "ErrEmptyGraph"
  /\ UNCHANGED <<graphVars, callVars, pending, ready, result, sortedFrom,
                 topoOrder>>

(* The nodes whose in-degree the removal of n's outputs brings to zero. *)
ReleasedEarly(n, left) == {m \in nodes : \E k \in pending \ left : To(k) = m}
Released(n, left) ==
  {m \in nodes : /\ \E k \in pending \ left : To(k) = m
                 /\ \A k \in left : To(k) # m}

Pop(n) ==
  LET left == {k \in pending : From(k) # n}
  IN  /\ phase = "sorting"
      /\ n \in ready
      /\ result' = Append(result, n)
      /\ pending' = left
      /\ ready' = (ready \ {n}) \union Released(n, left)
      /\ UNCHANGED <<graphVars, callVars, phase, err, sortedFrom, topoOrder>>

AlwaysPlaced == TRUE
AllPlaced    == Len(result) = Cardinality(nodes)

EndSort ==
  /\ phase = "sorting"
  /\ ready = {}
  /\ IF AllPlaced THEN phase' = "sorted" /\ UNCHANGED err
                  ELSE phase' = "done" /\ err' = "ErrCycleDetected"
  /\ UNCHANGED <<graphVars, callVars, pending, ready, result, sortedFrom,
                 topoOrder>>

(* The second critical section: the graph may have grown since the first. *)
StoreOrder ==
  /\ phase = "sorted"
  /\ topoOrder' = result
  /\ phase' = "done"
  /\ err' = "nil"
  /\ UNCHANGED <<graphVars, callVars, pending, ready, result, sortedFrom>>
-----------------------------------------------------------------------------
FoundAnything(n) == "ok"
Found(n) == IF kind[n] = "INPUT" THEN "ok" ELSE "notInput"

(* GetOrAddInputNode's GetNode: the read lock is shared with the sort. *)
LookUp(c, n) ==
  /\ pc[c] = "idle"
  /\ id' = [id EXCEPT ![c] = n]
  /\ pc' = [pc EXCEPT ![c] = IF Exists(n) THEN Found(n) ELSE "absent"]
  /\ UNCHANGED <<graphVars, sortVars>>

(* ... and its AddNode, whose error is returned as it is. *)
AddAbsent(c) ==
  /\ pc[c] = "absent"
  /\ pc' = [pc EXCEPT ![c] = "ok"]
  /\ Insert(id[c], "INPUT", c)
  /\ UNCHANGED <<sortVars, id>>

LoseRace(c) ==
  /\ pc[c] = "absent"
  /\ WriteLockFree
  /\ Exists(id[c])
  /\ pc' = [pc EXCEPT ![c] = "alreadyExists"]
  /\ UNCHANGED <<graphVars, sortVars, id>>

Return(c) ==
  /\ pc[c] \in {"ok", "notInput", "alreadyExists"}
  /\ pc' = [pc EXCEPT ![c] = "idle"]
  /\ id' = [id EXCEPT ![c] = "none"]
  /\ UNCHANGED <<graphVars, sortVars>>

Next ==
  \/ \E n \in Node, k \in Kind : AddNode(n, k)
  \/ \E f, t \in Node : AddEdge(f, t)
  \/ BeginSort \/ EmptyGraph \/ EndSort \/ StoreOrder
  \/ \E n \in Node : Pop(n)
  \/ \E c \in Caller, n \in Node : LookUp(c, n)
  \/ \E c \in Caller : AddAbsent(c) \/ LoseRace(c) \/ Return(c)

Spec == Init /\ [][Next]_vars
-----------------------------------------------------------------------------
TypeOK ==
  /\ kind \in [Node -> Kind \union {"none"}]
  /\ inputNodes \in Seq(Node)
  /\ edges \in Seq(nodes \X nodes)
  /\ topoOrder \in Seq(nodes)
  /\ phase \in {"idle", "sorting", "sorted", "done"}
  /\ pending \subseteq DOMAIN edges
  /\ ready \subseteq nodes
  /\ result \in Seq(nodes)
  /\ err \in {"none", "nil", "ErrCycleDetected", "ErrEmptyGraph"}
  /\ sortedFrom \in [nodes : SUBSET nodes, edges : 0..Len(edges)]
  /\ pc \in [Caller -> {"idle", "absent", "ok", "notInput", "alreadyExists"}]
  /\ id \in [Caller -> Node \union {"none"}]
  /\ \A c \in Caller : pc[c] # "idle" => id[c] \in Node
  /\ adder \in [Node -> Caller \union {"loader", "none"}]

(* The order lists every node that was there when the sort took the lock,  *)
(* once, and each after the nodes its edges of that moment come from; what *)
(* was added since is in no order (dag.go:140-192).  LogicGraph assumes    *)
(* just this of its topoOrder.                                             *)
IsOrder(s) ==
  /\ Listed(s) = sortedFrom.nodes
  /\ \A i, j \in DOMAIN s : s[i] = s[j] => i = j
  /\ \A k \in 1..sortedFrom.edges, i \in DOMAIN s :
       s[i] = To(k) => \E j \in 1..(i-1) : s[j] = From(k)
OrderSound == err = "nil" => IsOrder(topoOrder)

(* Nodes every one of which waits for another of them (or for itself). *)
Cyclic(S) ==
  /\ S # {}
  /\ \A n \in S : \E k \in 1..sortedFrom.edges : To(k) = n /\ From(k) \in S
HasCycle == \E S \in SUBSET sortedFrom.nodes : Cyclic(S)

(* BuildTopology reports a cycle exactly when the graph it sorted had one, *)
(* whatever parallel edges and self-loops it holds (dag.go:174).           *)
CycleExact ==
  /\ err = "ErrCycleDetected" => HasCycle
  /\ err = "nil" => ~HasCycle

(* g.InputNodes has each INPUT of the graph once, although lookup and      *)
(* creation are two critical sections (dag.go:92-110, 363-381).            *)
InputsOnce ==
  /\ Listed(inputNodes) = {n \in Node : kind[n] = "INPUT"}
  /\ \A i, j \in DOMAIN inputNodes : inputNodes[i] = inputNodes[j] => i = j

(* A GetOrAddInputNode that fails with "already exists" lost its node to   *)
(* another goroutine, so the id is taken and asking again cannot fail that *)
(* way; one that succeeds has an input (dag.go:363-381).                   *)
FailsOnlyToAnother ==
  \A c \in Caller :
    /\ pc[c] = "alreadyExists" => Exists(id[c]) /\ adder[id[c]] # c
    /\ pc[c] = "ok" => kind[id[c]] = "INPUT"
=============================================================================
