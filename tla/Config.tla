------------------------------- MODULE Config -------------------------------
(***************************************************************************)
(* From configuration files to workers: main loads the files of a          *)
(* directory into the ConfigManager (config.rs), in the order the file     *)
(* system gives them, and Engine::run builds one graph for every graph     *)
(* entry of the stack and cpu of the entry (engine.rs, Graph::new), which  *)
(* becomes a worker.  Modules are made by the factory (module.rs), where   *)
(* they have registered before main.                                       *)
(*                                                                         *)
(* JSON is left out: a file is what it says, or is malformed.  The routes  *)
(* of a stack are in module Routes, its interfaces in module Startup.      *)
(***************************************************************************)
EXTENDS Integers, Sequences, FiniteSets

CONSTANTS
  Pool,         \* the files there may be
  StackName,    \* the --stack argument
  Registered,   \* names of the registered modules
  MaxNodes,     \* capacity of Worker::nodes
  MaxLinks      \* capacity of Node::links_to

(* GraphConfig and StackConfig; the other files are of an unknown type, or *)
(* make json::parse or a json_require panic.                               *)
GraphFiles == {f \in Pool : f.type = "Graph"}
StackFiles == {f \in Pool : f.type = "Stack"}
OtherFiles == {f \in Pool : f.type \in {"unknown", "malformed"}}

ASSUME ConfigAssumption ==
  /\ IsFiniteSet(Pool)
  /\ Pool = GraphFiles \cup StackFiles \cup OtherFiles
  /\ \A f \in GraphFiles : f.modules \in Seq(STRING) /\ f.links \in Seq(STRING \X STRING)
  /\ \A f \in StackFiles : f.graphs \in Seq([name : STRING, cpus : Seq(Nat)])
  /\ MaxNodes \in Nat
  /\ MaxLinks \in Nat

VARIABLES
  pc,             \* "load", "build", "run" or "panic"
  dir,            \* the files of the directory
  unread,         \* those load_dir has not come to
  graphConfigs,   \* ConfigManager::graph_configs
  stackConfigs,   \* ConfigManager::stack_configs
  entry, cpu,     \* positions of the loops of Engine::run
  workers         \* the workers built: graph id, cpu, modules and links

vars == <<pc, dir, unread, graphConfigs, stackConfigs, entry, cpu, workers>>

Worker == [id : Nat, cpu : Nat, modules : Seq(Registered), links : Seq(Seq(Nat))]

TypeOK ==
  /\ pc \in {"load", "build", "run", "panic"}
  /\ dir \subseteq Pool
  /\ unread \subseteq dir
  /\ graphConfigs \in Seq(GraphFiles)
  /\ stackConfigs \in Seq(StackFiles)
  /\ entry \in Nat /\ cpu \in Nat
  /\ workers \in Seq(Worker)

Init ==
  /\ pc = "load"
  /\ dir \in SUBSET Pool
  /\ unread = dir
  /\ graphConfigs = <<>>
  /\ stackConfigs = <<>>
  /\ entry = 1
  /\ cpu = 1
  /\ workers = <<>>

-----------------------------------------------------------------------------
(* ConfigManager.                                                          *)

(* iter().find(|g| g.name == name): the positions, and the first of them.  *)
Named(s, name) == {i \in 1 .. Len(s) : s[i].name = name}
Smallest(is) == CHOOSE i \in is : \A j \in is : i <= j
Find(s, name) == s[Smallest(Named(s, name))]

(* A configuration with the name of an earlier one is skipped. *)
AddConfig(s, f) == IF Named(s, f.name) = {} THEN Append(s, f) ELSE s

(* load_file *)
LoadFile(f) ==
  /\ pc = "load"
  /\ f \in unread
  /\ unread' = unread \ {f}
  /\ \/ /\ f.type = "Graph"
        /\ graphConfigs' = AddConfig(graphConfigs, f)
        /\ UNCHANGED <<pc, stackConfigs>>
     \/ /\ f.type = "Stack"
        /\ stackConfigs' = AddConfig(stackConfigs, f)
        /\ UNCHANGED <<pc, graphConfigs>>
     \/ /\ f.type = "unknown"
        /\ UNCHANGED <<pc, graphConfigs, stackConfigs>>
     \/ /\ f.type = "malformed"
        /\ pc' = "panic"
        /\ UNCHANGED <<graphConfigs, stackConfigs>>
  /\ UNCHANGED <<dir, entry, cpu, workers>>

-----------------------------------------------------------------------------
(* Engine::run and Graph::new.                                             *)

(* Mutation of FindStack: the stack is looked up before all is loaded. *)
FindStackEarly ==
  /\ pc = "load"
  /\ pc' = IF Named(stackConfigs, StackName) = {} THEN "panic" ELSE "build"
  /\ UNCHANGED <<dir, unread, graphConfigs, stackConfigs, entry, cpu, workers>>

(* The stack is looked up by the name given to the program. *)
FindStack ==
  /\ pc = "load"
  /\ unread = {}
  /\ pc' = IF Named(stackConfigs, StackName) = {} THEN "panic" ELSE "build"
  /\ UNCHANGED <<dir, unread, graphConfigs, stackConfigs, entry, cpu, workers>>

Entries == Find(stackConfigs, StackName).graphs

(* The node of a module: the first one of that name. *)
NodeIds(g, m) == {i \in 1 .. Len(g.modules) : g.modules[i] = m}
NodeOf(g, m) == Smallest(NodeIds(g, m))

(* Node::links_to of node i: the targets of its links, in their order.     *)
Nth(is, n) == CHOOSE k \in is : Cardinality({j \in is : j <= k}) = n
LinksFrom(g, i) == {k \in 1 .. Len(g.links) : NodeOf(g, g.links[k][1]) = i}
LinksOf(g, i) ==
  [n \in 1 .. Cardinality(LinksFrom(g, i)) |-> NodeOf(g, g.links[Nth(LinksFrom(g, i), n)][2])]

(* No unwrap of Graph::new, and no push onto a full ArrayVec, panics.      *)
Builds(g) ==
  /\ \A i \in 1 .. Len(g.modules) : g.modules[i] \in Registered
  /\ \A k \in 1 .. Len(g.links) :
       NodeIds(g, g.links[k][1]) # {} /\ NodeIds(g, g.links[k][2]) # {}
  /\ \A i \in 1 .. Len(g.modules) : Len(LinksOf(g, i)) <= MaxLinks

(* The graph of the entry for its next cpu. *)
BuildGraph ==
  /\ pc = "build"
  /\ entry <= Len(Entries)
  /\ Named(graphConfigs, Entries[entry].name) # {}
  /\ cpu <= Len(Entries[entry].cpus)
  /\ LET e == Entries[entry]
         g == Find(graphConfigs, e.name)
     IN  \/ /\ Builds(g)
            /\ workers' = Append(workers,
                 [id |-> entry, cpu |-> e.cpus[cpu], modules |-> g.modules,
                  links |-> [i \in 1 .. Len(g.modules) |-> LinksOf(g, i)]])
            /\ cpu' = cpu + 1
            /\ UNCHANGED pc
         \/ /\ ~ Builds(g)
            /\ pc' = "panic"
            /\ UNCHANGED <<cpu, workers>>
  /\ UNCHANGED <<dir, unread, graphConfigs, stackConfigs, entry>>

(* The name of an entry is looked up before its cpus are gone through.     *)
UnknownGraph ==
  /\ pc = "build"
  /\ entry <= Len(Entries)
  /\ cpu = 1
  /\ Named(graphConfigs, Entries[entry].name) = {}
  /\ pc' = "panic"
  /\ UNCHANGED <<dir, unread, graphConfigs, stackConfigs, entry, cpu, workers>>

(* Mutation of NextEntry: the cpu loop is not begun anew. *)
NextEntryKeepsCpu ==
  /\ pc = "build"
  /\ entry <= Len(Entries)
  /\ Named(graphConfigs, Entries[entry].name) # {}
  /\ cpu > Len(Entries[entry].cpus)
  /\ entry' = entry + 1
  /\ UNCHANGED <<pc, dir, unread, graphConfigs, stackConfigs, cpu, workers>>

NextEntry ==
  /\ pc = "build"
  /\ entry <= Len(Entries)
  /\ Named(graphConfigs, Entries[entry].name) # {}
  /\ cpu > Len(Entries[entry].cpus)
  /\ entry' = entry + 1
  /\ cpu' = 1
  /\ UNCHANGED <<pc, dir, unread, graphConfigs, stackConfigs, workers>>

(* run_workers: Worker::new copies the nodes into an array of 32.          *)
RunWorkers ==
  /\ pc = "build"
  /\ entry > Len(Entries)
  /\ pc' = IF \A i \in 1 .. Len(workers) : Len(workers[i].modules) <= MaxNodes
           THEN "run" ELSE "panic"
  /\ UNCHANGED <<dir, unread, graphConfigs, stackConfigs, entry, cpu, workers>>

Finished ==
  /\ pc \in {"run", "panic"}
  /\ UNCHANGED vars

Next ==
  \/ \E f \in Pool : LoadFile(f)
  \/ FindStack \/ BuildGraph \/ UnknownGraph \/ NextEntry \/ RunWorkers \/ Finished

Spec == Init /\ [][Next]_vars

-----------------------------------------------------------------------------
(* Properties.                                                             *)

(* The stacks and graphs a name may stand for. *)
Stacks == {f \in dir : f.type = "Stack" /\ f.name = StackName}
Graphs(name) == {f \in dir : f.type = "Graph" /\ f.name = name}

Links(g) == {g.links[k] : k \in 1 .. Len(g.links)}

(* Worker w runs graph g: its modules, and exactly the links of the file.  *)
Runs(w, g) ==
  /\ w.modules = g.modules
  /\ Links(g) = UNION {{<<g.modules[i], g.modules[j]>> :
                          j \in {w.links[i][k] : k \in 1 .. Len(w.links[i])}}
                         : i \in 1 .. Len(g.modules)}

(* In whatever order the files are read, the workers that run are those of *)
(* one of the stacks of that name, one worker per cpu of each entry in the *)
(* order of the entries, and all the workers of a graph name run the same  *)
(* graph of that name: with one file per name, what runs is a function of  *)
(* the files.                                                              *)
RunsConfigured ==
  pc = "run" =>
    \E s \in Stacks :
      LET slots == UNION {{e} \X (1 .. Len(s.graphs[e].cpus)) : e \in 1 .. Len(s.graphs)}
      IN  /\ Len(workers) = Cardinality(slots)
          /\ \A i, j \in 1 .. Len(workers) : i <= j => workers[i].id <= workers[j].id
          /\ \A e \in 1 .. Len(s.graphs) :
               \E g \in Graphs(s.graphs[e].name) :
                 \A e2 \in 1 .. Len(s.graphs) : s.graphs[e2].name = s.graphs[e].name =>
                   \A c \in 1 .. Len(s.graphs[e2].cpus) :
                     \E i \in 1 .. Len(workers) :
                       /\ workers[i].id = e2
                       /\ workers[i].cpu = s.graphs[e2].cpus[c]
                       /\ Runs(workers[i], g)

(* The program only gives up on a directory that has something wrong with  *)
(* it: a malformed file, no stack of the name, a stack that names a graph  *)
(* that is not there, or a graph that cannot be built or is too large.     *)
PanicsForCause ==
  pc = "panic" =>
    \/ \E f \in dir : f.type = "malformed"
    \/ Stacks = {}
    \/ \E s \in Stacks : \E e \in 1 .. Len(s.graphs) :
         \/ Graphs(s.graphs[e].name) = {}
         \/ \E g \in Graphs(s.graphs[e].name) : ~ Builds(g) \/ Len(g.modules) > MaxNodes
=============================================================================
