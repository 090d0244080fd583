------------------------------ MODULE Compiler ------------------------------
(***************************************************************************)
(* The agent compiler (src-tauri/src/compiler) and its artifact store,     *)
(* .äkä/compiled.                                                          *)
(*                                                                         *)
(* A spec names a type of task and a graph of nodes.  What is compiled of  *)
(* a node is kept under a hash of the node, shared by all bundles; a       *)
(* bundle is kept under its type of task and a hash of the whole spec.  A  *)
(* compile writes the nodes that are missing, then the bundle, and last    *)
(* its manifest; then it removes the bundles this one replaces and the     *)
(* nodes no manifest refers to.  The app may end between any two writes,   *)
(* and in the middle of a removal.                                         *)
(*                                                                         *)
(* A hash stands for what it covers: that of a node is the node, with the  *)
(* descriptor and the fingerprint of its model; that of a bundle the spec. *)
(***************************************************************************)
EXTENDS Naturals, FiniteSets, SequencesExt

CONSTANTS
  TaskTypes,   \* types of task
  Nodes,       \* nodes of specs, 1 .. n, in the order a spec lists them
  NodeSets,    \* the nodes a spec may have
  NoBundle,    \* none handed out
  Compiles,    \* compiles that may be under way at a time
  MaxEdges,    \* bound: edges of a spec
  MaxCompiles, \* bound: compiles asked for
  MaxDeaths    \* bound: ends of the app

ASSUME CompilerConstants ==
  /\ Nodes \subseteq Nat \ {0} /\ NodeSets \subseteq (SUBSET Nodes) \ {{}}
  /\ \A s \in NodeSets : IsFiniteSet(s)
  /\ {MaxEdges, MaxCompiles, MaxDeaths} \subseteq Nat
  /\ NoBundle \notin [task : TaskTypes, nodes : NodeSets]

VARIABLES
  nodeStore, \* the files of each node's directory
  bundles,   \* the files of each bundle's directory
  compile,   \* the compiles under way
  judged,    \* the edges just judged and what was found of them
  handed,    \* the bundle the last compile to end has returned
  swept,     \* TRUE if that compile wrote it and removed what it replaces
  asked, deaths,
  torn       \* history: bundles in whose removal the app ended

compilerVars == <<nodeStore, bundles, compile, judged, handed, swept, asked, deaths, torn>>

NodeFiles == {"prompt", "grammar", "protocol"}
BundleFiles == {"dag", "manifest"}
Bundles == [task : TaskTypes, nodes : NodeSets]

\* todo: nodes to be looked at, or removed; doomed: bundles to be removed.
NoCompile == [at |-> "idle", spec |-> NoBundle, todo |-> {}, doomed |-> {}]
Unjudged == [edges |-> {}, refused |-> FALSE, entry |-> 0]

CompilerTypeOK ==
  /\ nodeStore \in [Nodes -> SUBSET NodeFiles]
  /\ bundles \in [Bundles -> SUBSET BundleFiles]
  /\ \A p \in Compiles :
       /\ compile[p].at \in {"idle", "node", "bundle", "replace", "collect", "discard"} \cup NodeFiles
       /\ compile[p].spec \in Bundles \cup {NoBundle} /\ compile[p].todo \subseteq Nodes
       /\ compile[p].doomed \subseteq Bundles
  /\ judged.edges \subseteq Nodes \X Nodes /\ judged.refused \in BOOLEAN
  /\ handed \in Bundles \cup {NoBundle} /\ swept \in BOOLEAN
  /\ asked \in 0 .. MaxCompiles /\ deaths \in 0 .. MaxDeaths /\ torn \subseteq Bundles

CompilerInit ==
  /\ nodeStore = [n \in Nodes |-> {}] /\ bundles = [b \in Bundles |-> {}]
  /\ compile = [p \in Compiles |-> NoCompile] /\ judged = Unjudged
  /\ handed = NoBundle /\ swept = FALSE /\ asked = 0 /\ deaths = 0 /\ torn = {}

-----------------------------------------------------------------------------
(* The graph of a spec: its edges taken on success.  Those taken on        *)
(* failure may point anywhere.                                             *)

First(nodes) == CHOOSE n \in nodes : \A m \in nodes : n <= m
InOrder(nodes) ==
  CHOOSE s \in [1 .. Cardinality(nodes) -> nodes] : \A i, j \in DOMAIN s : i < j => s[i] < s[j]

Shades == {"white", "grey", "black"}
Found(marks, node) == [marks |-> marks, node |-> node]

\* visit, of what it visits on the way: what lies behind an edge from n to m, if
\* there is one and nothing was found yet.
Looked(edges, visit, n, acc, m) ==
  IF acc.node # 0 \/ <<n, m>> \notin edges \/ acc.marks[m] = "black" THEN acc
  ELSE IF acc.marks[m] = "grey" THEN Found(acc.marks, m)
  ELSE visit[Found(acc.marks, m)]

\* Depth first, from a node that is white: what has been marked, and a node
\* that was met again.
Visited(nodes, edges, visit, at) ==
  LET end == FoldLeft(LAMBDA acc, m : Looked(edges, visit, at.node, acc, m),
                      Found([at.marks EXCEPT ![at.node] = "grey"], 0), InOrder(nodes))
  IN IF end.node # 0 THEN end ELSE Found([end.marks EXCEPT ![at.node] = "black"], 0)
Visits(nodes, edges) ==
  LET visit[at \in [marks : [nodes -> Shades], node : nodes]] == Visited(nodes, edges, visit, at)
  IN visit

\* find_success_cycle: a node on a cycle, or 0.  The slip looks only from the
\* first node.
TriedFrom(visit, acc, n) ==
  IF acc.node # 0 \/ acc.marks[n] # "white" THEN acc ELSE visit[Found(acc.marks, n)]
FindCycleFromFirst(nodes, edges) ==
  Visits(nodes, edges)[Found([n \in nodes |-> "white"], First(nodes))].node
FindSuccessCycle(nodes, edges) ==
  FoldLeft(LAMBDA acc, n : TriedFrom(Visits(nodes, edges), acc, n),
           Found([n \in nodes |-> "white"], 0), InOrder(nodes)).node

\* The first node no edge leads to; of all nodes the first if there is none.
Entry(nodes, edges) ==
  LET free == {n \in nodes : \A m \in nodes : <<m, n>> \notin edges}
  IN First(IF free = {} THEN nodes ELSE free)

BuildIr(nodes, edges) ==
  [edges |-> edges, refused |-> FindSuccessCycle(nodes, edges) # 0, entry |-> Entry(nodes, edges)]

-----------------------------------------------------------------------------
(* One compile.                                                            *)

Manifests == {b \in Bundles : "manifest" \in bundles[b]}
Complete(n) == nodeStore[n] = NodeFiles
Goes(p, at) == compile' = [compile EXCEPT ![p].at = at]
Working == judged' = Unjudged /\ UNCHANGED <<asked, deaths, torn>>

Graphs(nodes) == {edges \in SUBSET (nodes \X nodes) : Cardinality(edges) <= MaxEdges}

\* compile, up to its first write.  If the manifest is there nothing is
\* written.
StartCompile(p) ==
  /\ compile[p].at = "idle" /\ asked < MaxCompiles /\ asked' = asked + 1
  /\ \E b \in Bundles : \E edges \in Graphs(b.nodes) :
       LET ir == BuildIr(b.nodes, edges)
           hit == b \in Manifests
       IN /\ judged' = ir
          /\ compile' = IF ir.refused \/ hit THEN compile
                        ELSE [compile EXCEPT ![p] = [at |-> "node", spec |-> b,
                                                     todo |-> b.nodes, doomed |-> {}]]
          /\ handed' = IF hit /\ ~ir.refused THEN b ELSE NoBundle
  /\ swept' = FALSE /\ UNCHANGED <<nodeStore, bundles, deaths, torn>>

\* The next node of the spec: its directory is complete and it is passed
\* over, or it is generated.
NextNode(p) ==
  /\ compile[p].at = "node"
  /\ LET todo == compile[p].todo IN
       compile' = IF todo = {} THEN [compile EXCEPT ![p].at = "bundle"]
                  ELSE IF Complete(First(todo)) THEN [compile EXCEPT ![p].todo = @ \ {First(@)}]
                  ELSE [compile EXCEPT ![p].at = "prompt"]
  /\ Working /\ UNCHANGED <<nodeStore, bundles, handed, swept>>

\* write_atomic: what was there before is replaced in one step.
WriteNode(p) ==
  LET file == compile[p].at
      node == First(compile[p].todo)
  IN /\ file \in NodeFiles
     /\ nodeStore' = [nodeStore EXCEPT ![node] = @ \cup {file}]
     /\ compile' = CASE file = "prompt" -> [compile EXCEPT ![p].at = "grammar"]
                     [] file = "grammar" -> [compile EXCEPT ![p].at = "protocol"]
                     [] OTHER -> [compile EXCEPT ![p].at = "node", ![p].todo = @ \ {node}]
     /\ Working /\ UNCHANGED <<bundles, handed, swept>>

\* dag.json, then manifest.json.
WriteBundle(p) ==
  LET b == compile[p].spec
      siblings == {o \in Bundles : o.task = b.task /\ o # b /\ bundles[o] # {}}
  IN /\ compile[p].at = "bundle"
     /\ IF "dag" \notin bundles[b]
        THEN /\ bundles' = [bundles EXCEPT ![b] = @ \cup {"dag"}]
             /\ compile' = compile
        ELSE /\ bundles' = [bundles EXCEPT ![b] = @ \cup {"manifest"}]
             /\ compile' = [compile EXCEPT ![p].at = "replace", ![p].doomed = siblings]
     /\ Working /\ UNCHANGED <<nodeStore, handed, swept>>

\* remove_dir_all takes the files one by one, in any order.
RemoveBundle(p) ==
  /\ compile[p].at = "replace"
  /\ \E b \in compile[p].doomed :
       /\ \E file \in bundles[b] : bundles' = [bundles EXCEPT ![b] = @ \ {file}]
       /\ compile' = [compile EXCEPT ![p].doomed = IF bundles'[b] = {} THEN @ \ {b} ELSE @]
       /\ torn' = IF bundles'[b] = {} THEN torn \ {b} ELSE torn
  /\ judged' = Unjudged /\ UNCHANGED <<nodeStore, handed, swept, asked, deaths>>

\* The nodes some manifest refers to are read, the others are to go; the slip
\* looks at the bundles being compiled alone.
ReferencedByOwn ==
  UNION {compile[q].spec.nodes : q \in {x \in Compiles : compile[x].spec # NoBundle}}
Referenced == UNION {b.nodes : b \in Manifests}
Collect(p) ==
  /\ compile[p].at = "replace" /\ compile[p].doomed = {}
  /\ compile' = [compile EXCEPT ![p].at = "discard",
                                ![p].todo = {n \in Nodes \ Referenced : nodeStore[n] # {}}]
  /\ Working /\ UNCHANGED <<nodeStore, bundles, handed, swept>>

RemoveNode(p) ==
  /\ compile[p].at = "discard"
  /\ \E n \in compile[p].todo :
       /\ \E file \in nodeStore[n] : nodeStore' = [nodeStore EXCEPT ![n] = @ \ {file}]
       /\ compile' = [compile EXCEPT ![p].todo = IF nodeStore'[n] = {} THEN @ \ {n} ELSE @]
  /\ Working /\ UNCHANGED <<bundles, handed, swept>>

Return(p) ==
  /\ compile[p].at = "discard" /\ compile[p].todo = {}
  /\ compile' = [compile EXCEPT ![p] = NoCompile]
  /\ handed' = compile[p].spec /\ swept' = TRUE
  /\ Working /\ UNCHANGED <<nodeStore, bundles>>

\* The app ends.  A bundle it was removing keeps the files that are left.
AppDies ==
  /\ deaths < MaxDeaths /\ deaths' = deaths + 1
  /\ torn' = torn \cup UNION {compile[p].doomed \cap {b \in Bundles : bundles[b] # BundleFiles} :
                                p \in {q \in Compiles : compile[q].at = "replace"}}
  /\ compile' = [p \in Compiles |-> NoCompile] /\ judged' = Unjudged
  /\ handed' = NoBundle /\ swept' = FALSE
  /\ UNCHANGED <<nodeStore, bundles, asked>>

CompilerNext ==
  \/ AppDies
  \/ \E p \in Compiles : \/ StartCompile(p) \/ NextNode(p) \/ WriteNode(p) \/ WriteBundle(p)
                         \/ RemoveBundle(p) \/ Collect(p) \/ RemoveNode(p) \/ Return(p)

CompilerSpec == CompilerInit /\ [][CompilerNext]_compilerVars

-----------------------------------------------------------------------------
(* Properties.                                                             *)

\* A spec is refused when, and only when, its success edges form a cycle: a
\* set of nodes each of which leads to one of the set.  Of one that is not
\* refused, execution starts at a node nothing leads to.
CycleRefused ==
  /\ judged.refused <=> \E s \in (SUBSET Nodes) \ {{}} :
                          \A n \in s : \E m \in s : <<n, m>> \in judged.edges
  /\ ~judged.refused => \A n \in Nodes : <<n, judged.entry>> \notin judged.edges

\* Whatever the app died in, a manifest on disk refers to nodes that are
\* complete: an agent given it finds the files it names.
ManifestBacked == \A b \in Manifests : \A n \in b.nodes : Complete(n)

\* A bundle that is returned is whole, unless the app has once ended in the
\* removal of it: then a later compile of the same spec takes the manifest
\* that was left for a hit and returns a bundle without its graph.
HandedWhole == handed \notin torn \cup {NoBundle} => bundles[handed] = BundleFiles

\* A compile that ends leaves one bundle of its type of task and no node that
\* no manifest refers to, whatever earlier ones have left behind.
NothingLeftOver ==
  swept =>
    /\ \A b \in Bundles : b.task = handed.task /\ b # handed => bundles[b] = {}
    /\ \A n \in Nodes : nodeStore[n] # {} => \E b \in Manifests : n \in b.nodes

\* The store, as it should be whenever the app may die.
StoreSafe == ManifestBacked /\ HandedWhole /\ NothingLeftOver
=============================================================================
