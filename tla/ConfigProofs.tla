---------------------------- MODULE ConfigProofs ----------------------------
(***************************************************************************)
(* Proofs about module Config, for any set of configuration files and any  *)
(* capacities: what runs is what is configured, in whatever order the      *)
(* files of the directory are read, and the program gives up only on a     *)
(* directory that has something wrong with it.                             *)
(***************************************************************************)
EXTENDS Config, FiniteSetTheorems, SequenceTheorems, TLAPS

(* What has been loaded is from the directory, and of every file that was  *)
(* read there is a configuration with its name.                            *)
LoadInv ==
  /\ \A i \in 1 .. Len(graphConfigs) : graphConfigs[i] \in dir
  /\ \A i \in 1 .. Len(stackConfigs) : stackConfigs[i] \in dir
  /\ \A f \in dir \ unread :
       /\ f.type = "Graph" => Named(graphConfigs, f.name) # {}
       /\ f.type = "Stack" => Named(stackConfigs, f.name) # {}
  /\ pc \in {"build", "run"} => unread = {} /\ Named(stackConfigs, StackName) # {}
  /\ pc = "load" => entry = 1 /\ cpu = 1 /\ workers = <<>>

(* The graph of entry e, and the worker of its c-th cpu. *)
GraphOf(e) == Find(graphConfigs, Entries[e].name)

WorkerOf(e, c) ==
  [id |-> e, cpu |-> Entries[e].cpus[c], modules |-> GraphOf(e).modules,
   links |-> [i \in 1 .. Len(GraphOf(e).modules) |-> LinksOf(GraphOf(e), i)]]

(* The cpus of the entries before the n-th cpu of entry d: those that the  *)
(* loops of Engine::run have gone through when they come to it.            *)
Cpus(e) == 1 .. Len(Entries[e].cpus)
Before(d, n) ==
  UNION {{e} \X {c \in Cpus(e) : e < d \/ c < n} : e \in {b \in 1 .. Len(Entries) : b <= d}}
Done == Before(entry, cpu)

(* There is one worker for each of these, and they are in the order of the *)
(* entries.                                                                *)
BuildInv ==
  pc \in {"build", "run"} =>
    /\ entry \in 1 .. Len(Entries) + 1
    /\ cpu >= 1
    /\ entry <= Len(Entries) => cpu <= Len(Entries[entry].cpus) + 1
    /\ entry > Len(Entries) => cpu = 1
    /\ \A e \in 1 .. Len(Entries) : e < entry \/ (e = entry /\ cpu > 1) =>
         Named(graphConfigs, Entries[e].name) # {}
    /\ IsFiniteSet(Done) /\ Len(workers) = Cardinality(Done)
    /\ \A x \in Done : \E i \in 1 .. Len(workers) : workers[i] = WorkerOf(x[1], x[2])
    /\ \A i \in 1 .. Len(workers) : \E x \in Done :
         workers[i] = WorkerOf(x[1], x[2]) /\ Builds(GraphOf(x[1]))
    /\ \A i, j \in 1 .. Len(workers) : i <= j => workers[i].id <= workers[j].id
    /\ pc = "run" => entry = Len(Entries) + 1

IInv == TypeOK /\ LoadInv /\ PanicsForCause /\ BuildInv

-----------------------------------------------------------------------------
(* The first element, and the n-th.                                        *)

(* A set of numbers has a smallest one. *)
LEMMA SmallestElement ==
  ASSUME NEW is \in SUBSET Nat, is # {}
  PROVE  Smallest(is) \in is /\ \A j \in is : Smallest(is) <= j
<1>1. \E i \in is : \A j \in is : ~ (<<j, i>> \in OpToRel(<, Nat))
  BY NatLessThanWellFounded, WFMin
<1>2. PICK i \in is : \A j \in is : ~ (<<j, i>> \in OpToRel(<, Nat))
  BY <1>1
<1>3. ASSUME NEW j \in is
      PROVE  i <= j
  <2>1. <<j, i>> \in Nat \X Nat /\ <<j, i>>[1] = j /\ <<j, i>>[2] = i
    OBVIOUS
  <2>2. ~ (j < i)
    BY <1>2, <2>1, Zenon DEF OpToRel
  <2> QED
    BY <2>2
<1> QED
  BY <1>3 DEF Smallest

(* find returns an element of the list with that name. *)
LEMMA FindElement ==
  ASSUME NEW S, NEW s \in Seq(S), NEW name, Named(s, name) # {}
  PROVE  \E i \in 1 .. Len(s) : Find(s, name) = s[i] /\ s[i].name = name
<1>1. Named(s, name) \in SUBSET Nat
  BY DEF Named
<1>2. Smallest(Named(s, name)) \in Named(s, name)
  BY <1>1, SmallestElement
<1> QED
  BY <1>2 DEF Find, Named

(* Every element of a set of numbers is the n-th for one n. *)
LEMMA NthElement ==
  ASSUME NEW is \in SUBSET Nat, IsFiniteSet(is)
  PROVE  /\ Cardinality(is) \in Nat
         /\ \A n \in 1 .. Cardinality(is) : Nth(is, n) \in is
         /\ \A k \in is : \E n \in 1 .. Cardinality(is) : Nth(is, n) = k
<1> DEFINE upto(k) == {j \in is : j <= k}
           rank == [k \in is |-> Cardinality(upto(k))]
           c == Cardinality(is)
<1>1. c \in Nat
  BY FS_CardinalityType
<1>2. \A k \in is : IsFiniteSet(upto(k)) /\ Cardinality(upto(k)) \in Nat /\ Cardinality(upto(k)) <= c
  <2>1. \A k \in is : upto(k) \in SUBSET is
    OBVIOUS
  <2> HIDE DEF upto
  <2> QED
    BY <2>1, FS_Subset, FS_CardinalityType
<1>3. \A k \in is : Cardinality(upto(k)) # 0
  <2>1. \A k \in is : k \in upto(k)
    OBVIOUS
  <2> HIDE DEF upto
  <2> QED
    BY <1>2, <2>1, FS_EmptySet
<1>4. ASSUME NEW k \in is, NEW l \in is, k < l
      PROVE  Cardinality(upto(k)) # Cardinality(upto(l))
  <2>1. /\ \A j \in is : j <= k => j <= l
        /\ l <= l /\ ~ (l <= k)
    BY <1>4
  <2>2. upto(k) \in SUBSET upto(l) /\ l \in upto(l) /\ l \notin upto(k)
    BY <2>1, Zenon
  <2> HIDE DEF upto
  <2> QED
    BY <1>2, <2>2, FS_Subset
<1>5. \A k \in is : rank[k] \in 1 .. c
  <2> HIDE DEF upto, c
  <2> QED
    BY <1>1, <1>2, <1>3
<1>6. \A k, l \in is : rank[k] = rank[l] => k = l
  <2>1. \A k, l \in is : k = l \/ k < l \/ l < k
    OBVIOUS
  <2>2. \A k \in is : rank[k] = Cardinality(upto(k))
    OBVIOUS
  <2> HIDE DEF upto, rank
  <2> QED
    BY <1>4, <2>1, <2>2
<1>7. rank \in [is -> 1 .. c]
  <2>1. rank = [k \in is |-> rank[k]]
    OBVIOUS
  <2> HIDE DEF rank, c
  <2> QED
    BY <1>5, <2>1
<1>8. rank \in Surjection(is, 1 .. c)
  <2>1. IsFiniteSet(1 .. c) /\ Cardinality(1 .. c) = c
    BY <1>1, FS_Interval
  <2>2. rank \in Injection(is, 1 .. c)
    <3> HIDE DEF rank, c
    <3> QED
      BY <1>6, <1>7 DEF Injection, IsInjective
  <2> HIDE DEF rank
  <2>3. Cardinality(is) = Cardinality(1 .. c)
    BY <2>1
  <2> HIDE DEF c
  <2> QED
    BY <2>1, <2>2, <2>3, FS_Injection
<1>9. ASSUME NEW k \in is
      PROVE  Nth(is, rank[k]) = k
  <2>1. \A l \in is : Cardinality({j \in is : j <= l}) = rank[l]
    OBVIOUS
  <2> HIDE DEF rank
  <2> QED
    BY <1>6, <2>1 DEF Nth
<1>10. \A n \in 1 .. c : \E k \in is : rank[k] = n
  <2> HIDE DEF rank, c
  <2> QED
    BY <1>8 DEF Surjection
<1> HIDE DEF rank, c
<1>11. \A n \in 1 .. c : Nth(is, n) \in is
  BY <1>9, <1>10
<1>12. \A k \in is : \E n \in 1 .. c : Nth(is, n) = k
  BY <1>5, <1>9
<1> QED
  BY <1>1, <1>11, <1>12 DEF c

-----------------------------------------------------------------------------
(* Graph::new.                                                             *)

(* A name that is found is that of a node. *)
LEMMA NodeOfName ==
  ASSUME NEW g \in GraphFiles, NEW m, NodeIds(g, m) # {}
  PROVE  NodeOf(g, m) \in 1 .. Len(g.modules) /\ g.modules[NodeOf(g, m)] = m
<1>1. Len(g.modules) \in Nat
  BY ConfigAssumption
<1>2. NodeIds(g, m) \in SUBSET Nat
  BY <1>1 DEF NodeIds
<1>3. NodeOf(g, m) \in NodeIds(g, m)
  BY <1>2, SmallestElement DEF NodeOf
<1> QED
  BY <1>3 DEF NodeIds

(* The links of a node are numbered without a gap. *)
LEMMA LinksNumbered ==
  ASSUME NEW g \in GraphFiles, NEW i
  PROVE  /\ Cardinality(LinksFrom(g, i)) \in Nat
         /\ \A n \in 1 .. Cardinality(LinksFrom(g, i)) : Nth(LinksFrom(g, i), n) \in LinksFrom(g, i)
         /\ \A k \in LinksFrom(g, i) :
              \E n \in 1 .. Cardinality(LinksFrom(g, i)) : Nth(LinksFrom(g, i), n) = k
<1>1. Len(g.links) \in Nat
  BY ConfigAssumption
<1>2. IsFiniteSet(1 .. Len(g.links)) /\ LinksFrom(g, i) \in SUBSET (1 .. Len(g.links))
  BY <1>1, FS_Interval DEF LinksFrom
<1>3. LinksFrom(g, i) \in SUBSET Nat /\ IsFiniteSet(LinksFrom(g, i))
  BY <1>1, <1>2, FS_Subset
<1> QED
  BY <1>3, NthElement

(* links_to holds nodes of the graph. *)
LEMMA LinksOfType ==
  ASSUME NEW g \in GraphFiles, Builds(g), NEW i
  PROVE  /\ LinksOf(g, i) \in Seq(Nat)
         /\ Len(LinksOf(g, i)) = Cardinality(LinksFrom(g, i))
<1> DEFINE c == Cardinality(LinksFrom(g, i))
<1>1. c \in Nat /\ \A n \in 1 .. c : Nth(LinksFrom(g, i), n) \in 1 .. Len(g.links)
  BY LinksNumbered DEF LinksFrom
<1>2. \A n \in 1 .. c : NodeOf(g, g.links[Nth(LinksFrom(g, i), n)][2]) \in Nat
  <2>1. \A k \in 1 .. Len(g.links) : NodeOf(g, g.links[k][2]) \in 1 .. Len(g.modules)
    BY NodeOfName DEF Builds
  <2>2. Len(g.modules) \in Nat
    BY ConfigAssumption
  <2> QED
    BY <1>1, <2>1, <2>2
<1>3. LinksOf(g, i) = [n \in 1 .. c |-> NodeOf(g, g.links[Nth(LinksFrom(g, i), n)][2])]
  BY DEF LinksOf
<1> HIDE DEF c
<1>4. LinksOf(g, i) \in [1 .. c -> Nat]
  BY <1>2, <1>3
<1>5. LinksOf(g, i) \in Seq(Nat) /\ Len(LinksOf(g, i)) = c
  BY <1>1, <1>4
<1> QED
  BY <1>5 DEF c

(* A graph that could be built has exactly the links of its file. *)
LEMMA GraphHasLinks ==
  ASSUME NEW g \in GraphFiles, Builds(g), NEW w, w.modules = g.modules,
         w.links = [i \in 1 .. Len(g.modules) |-> LinksOf(g, i)]
  PROVE  Runs(w, g)
<1> DEFINE N == 1 .. Len(g.modules)
           K == 1 .. Len(g.links)
           To(i) == {w.links[i][k] : k \in 1 .. Len(w.links[i])}
           Pairs(i) == {<<g.modules[i], g.modules[j]>> : j \in To(i)}
<1>1. \A k \in K : /\ NodeOf(g, g.links[k][1]) \in N /\ g.modules[NodeOf(g, g.links[k][1])] = g.links[k][1]
                   /\ NodeOf(g, g.links[k][2]) \in N /\ g.modules[NodeOf(g, g.links[k][2])] = g.links[k][2]
  BY NodeOfName DEF Builds
<1>2. \A k \in K : g.links[k] = <<g.links[k][1], g.links[k][2]>>
  <2>1. g.links \in Seq(STRING \X STRING)
    BY ConfigAssumption
  <2>2. \A k \in K : g.links[k] \in STRING \X STRING
    BY <2>1
  <2> QED
    BY <2>2
<1>3. ASSUME NEW i \in N
      PROVE  To(i) = {NodeOf(g, g.links[k][2]) : k \in LinksFrom(g, i)}
  <2> DEFINE c == Cardinality(LinksFrom(g, i))
  <2>1. w.links[i] = LinksOf(g, i) /\ Len(LinksOf(g, i)) = c
    BY LinksOfType
  <2>2. \A n \in 1 .. c : LinksOf(g, i)[n] = NodeOf(g, g.links[Nth(LinksFrom(g, i), n)][2])
    BY DEF LinksOf
  <2>3. To(i) = {NodeOf(g, g.links[Nth(LinksFrom(g, i), n)][2]) : n \in 1 .. c}
    BY <2>1, <2>2
  <2>4. /\ \A n \in 1 .. c : Nth(LinksFrom(g, i), n) \in LinksFrom(g, i)
        /\ \A k \in LinksFrom(g, i) : \E n \in 1 .. c : Nth(LinksFrom(g, i), n) = k
    BY LinksNumbered
  <2> HIDE DEF c, To
  <2> QED
    BY <2>3, <2>4
<1>4. ASSUME NEW k \in K
      PROVE  g.links[k] \in UNION {Pairs(i) : i \in N}
  <2> DEFINE i == NodeOf(g, g.links[k][1])
  <2>1. i \in N /\ k \in LinksFrom(g, i)
    BY <1>1 DEF LinksFrom
  <2> HIDE DEF i
  <2>2. NodeOf(g, g.links[k][2]) \in To(i)
    <3> HIDE DEF To
    <3> QED
      BY <1>3, <2>1
  <2> HIDE DEF To
  <2>3. <<g.modules[i], g.modules[NodeOf(g, g.links[k][2])]>> \in Pairs(i)
    BY <2>2
  <2>4. g.links[k] = <<g.modules[i], g.modules[NodeOf(g, g.links[k][2])]>>
    BY <1>1, <1>2 DEF i
  <2> HIDE DEF Pairs
  <2> QED
    BY <2>1, <2>3, <2>4
<1>5. ASSUME NEW i \in N, NEW x \in Pairs(i)
      PROVE  x \in Links(g)
  <2>1. PICK j \in To(i) : x = <<g.modules[i], g.modules[j]>>
    OBVIOUS
  <2> HIDE DEF To
  <2>2. PICK k \in LinksFrom(g, i) : j = NodeOf(g, g.links[k][2])
    BY <1>3
  <2>3. k \in K /\ NodeOf(g, g.links[k][1]) = i
    BY <2>2 DEF LinksFrom
  <2>4. x = g.links[k]
    BY <1>1, <1>2, <2>1, <2>2, <2>3
  <2> QED
    BY <2>3, <2>4 DEF Links
<1> HIDE DEF Pairs
<1>6. Links(g) = UNION {Pairs(i) : i \in N}
  BY <1>4, <1>5 DEF Links
<1> QED
  BY <1>6 DEF Runs, Pairs

-----------------------------------------------------------------------------
(* Loading.                                                                *)

(* What load_file does to a list of configurations. *)
LEMMA AddConfigFacts ==
  ASSUME NEW S, NEW s \in Seq(S), NEW f \in S
  PROVE  /\ AddConfig(s, f) \in Seq(S)
         /\ \A i \in 1 .. Len(AddConfig(s, f)) :
              AddConfig(s, f)[i] = f \/ \E j \in 1 .. Len(s) : AddConfig(s, f)[i] = s[j]
         /\ Named(AddConfig(s, f), f.name) # {}
         /\ \A name : Named(s, name) # {} => Named(AddConfig(s, f), name) # {}
<1>1. CASE Named(s, f.name) # {}
  BY <1>1 DEF AddConfig
<1>2. CASE Named(s, f.name) = {}
  <2> DEFINE t == Append(s, f)
  <2>1. AddConfig(s, f) = t
    BY <1>2 DEF AddConfig
  <2>2. /\ t \in Seq(S) /\ Len(s) \in Nat /\ Len(t) = Len(s) + 1 /\ t[Len(s) + 1] = f
        /\ \A i \in 1 .. Len(s) : t[i] = s[i]
    OBVIOUS
  <2> HIDE DEF t
  <2>3. Len(s) + 1 \in Named(t, f.name)
    BY <2>2 DEF Named
  <2>4. \A name : \A i \in Named(s, name) : i \in Named(t, name)
    BY <2>2 DEF Named
  <2> QED
    BY <2>1, <2>2, <2>3, <2>4
<1> QED
  BY <1>1, <1>2

(* Every file is read with the effect of its type. *)
LEMMA LoadFileStep ==
  ASSUME TypeOK, LoadInv, NEW f \in Pool, LoadFile(f)
  PROVE  /\ graphConfigs' \in Seq(GraphFiles) /\ stackConfigs' \in Seq(StackFiles)
         /\ LoadInv'
<1>1. /\ graphConfigs \in Seq(GraphFiles) /\ stackConfigs \in Seq(StackFiles)
      /\ f \in dir /\ dir' = dir /\ unread' = unread \ {f} /\ pc = "load"
      /\ entry' = entry /\ cpu' = cpu /\ workers' = workers
      /\ pc' \in {"load", "panic"}
  BY DEF TypeOK, LoadFile
<1>2. \/ f.type = "Graph" /\ graphConfigs' = AddConfig(graphConfigs, f) /\ stackConfigs' = stackConfigs
      \/ f.type = "Stack" /\ stackConfigs' = AddConfig(stackConfigs, f) /\ graphConfigs' = graphConfigs
      \/ /\ f.type \in {"unknown", "malformed"}
         /\ graphConfigs' = graphConfigs /\ stackConfigs' = stackConfigs
  BY DEF LoadFile
<1>3. CASE f.type = "Graph" /\ graphConfigs' = AddConfig(graphConfigs, f) /\ stackConfigs' = stackConfigs
  <2>1. f \in GraphFiles
    BY <1>3 DEF GraphFiles
  <2>2. /\ graphConfigs' \in Seq(GraphFiles)
        /\ \A i \in 1 .. Len(graphConfigs') : graphConfigs'[i] = f
             \/ \E j \in 1 .. Len(graphConfigs) : graphConfigs'[i] = graphConfigs[j]
        /\ Named(graphConfigs', f.name) # {}
        /\ \A name : Named(graphConfigs, name) # {} => Named(graphConfigs', name) # {}
    <3> DEFINE t == AddConfig(graphConfigs, f)
    <3>1. /\ t \in Seq(GraphFiles)
          /\ \A i \in 1 .. Len(t) : t[i] = f \/ \E j \in 1 .. Len(graphConfigs) : t[i] = graphConfigs[j]
          /\ Named(t, f.name) # {}
          /\ \A name : Named(graphConfigs, name) # {} => Named(t, name) # {}
      <4>1. graphConfigs \in Seq(GraphFiles)
        BY <1>1
      <4> QED
        BY <2>1, <4>1, AddConfigFacts, Zenon
    <3>2. graphConfigs' = t
      BY <1>3
    <3> HIDE DEF t
    <3> QED
      BY <3>1, <3>2
  <2> QED
    BY <1>1, <1>3, <2>2 DEF LoadInv
<1>4. CASE f.type = "Stack" /\ stackConfigs' = AddConfig(stackConfigs, f) /\ graphConfigs' = graphConfigs
  <2>1. f \in StackFiles
    BY <1>4 DEF StackFiles
  <2>2. /\ stackConfigs' \in Seq(StackFiles)
        /\ \A i \in 1 .. Len(stackConfigs') : stackConfigs'[i] = f
             \/ \E j \in 1 .. Len(stackConfigs) : stackConfigs'[i] = stackConfigs[j]
        /\ Named(stackConfigs', f.name) # {}
        /\ \A name : Named(stackConfigs, name) # {} => Named(stackConfigs', name) # {}
    <3> DEFINE t == AddConfig(stackConfigs, f)
    <3>1. /\ t \in Seq(StackFiles)
          /\ \A i \in 1 .. Len(t) : t[i] = f \/ \E j \in 1 .. Len(stackConfigs) : t[i] = stackConfigs[j]
          /\ Named(t, f.name) # {}
          /\ \A name : Named(stackConfigs, name) # {} => Named(t, name) # {}
      <4>1. stackConfigs \in Seq(StackFiles)
        BY <1>1
      <4> QED
        BY <2>1, <4>1, AddConfigFacts, Zenon
    <3>2. stackConfigs' = t
      BY <1>4
    <3> HIDE DEF t
    <3> QED
      BY <3>1, <3>2
  <2> QED
    BY <1>1, <1>4, <2>2 DEF LoadInv
<1>5. CASE /\ f.type \in {"unknown", "malformed"}
           /\ graphConfigs' = graphConfigs /\ stackConfigs' = stackConfigs
  BY <1>1, <1>5 DEF LoadInv
<1> QED
  BY <1>2, <1>3, <1>4, <1>5

(* The other steps leave what was loaded alone. *)
LEMMA LoadStep ==
  ASSUME TypeOK, LoadInv, [Next]_vars
  PROVE  LoadInv'
<1>1. ASSUME NEW f \in Pool, LoadFile(f)
      PROVE  LoadInv'
  BY <1>1, LoadFileStep
<1>2. CASE FindStack
  BY <1>2 DEF FindStack, LoadInv
<1>3. CASE BuildGraph
  BY <1>3 DEF BuildGraph, LoadInv
<1>4. CASE UnknownGraph \/ NextEntry
  BY <1>4 DEF UnknownGraph, NextEntry, LoadInv
<1>5. CASE RunWorkers
  BY <1>5 DEF RunWorkers, LoadInv
<1>6. CASE UNCHANGED vars
  BY <1>6 DEF vars, LoadInv
<1> QED
  BY <1>1, <1>2, <1>3, <1>4, <1>5, <1>6 DEF Next, Finished

-----------------------------------------------------------------------------
(* Building.                                                               *)

(* The stack that Engine::run finds is one of the directory. *)
LEMMA StackFound ==
  ASSUME TypeOK, LoadInv, Named(stackConfigs, StackName) # {}
  PROVE  /\ Find(stackConfigs, StackName) \in Stacks
         /\ Entries \in Seq([name : STRING, cpus : Seq(Nat)])
<1>1. stackConfigs \in Seq(StackFiles)
  BY DEF TypeOK
<1>2. PICK i \in 1 .. Len(stackConfigs) :
        Find(stackConfigs, StackName) = stackConfigs[i] /\ stackConfigs[i].name = StackName
  BY <1>1, FindElement
<1>3. stackConfigs[i] \in StackFiles /\ stackConfigs[i] \in dir
  BY <1>1, <1>2 DEF LoadInv
<1> QED
  BY <1>2, <1>3, ConfigAssumption DEF Stacks, StackFiles, Entries

(* An entry of that stack. *)
LEMMA EntryType ==
  ASSUME TypeOK, LoadInv, pc \in {"build", "run"} \/ Named(stackConfigs, StackName) # {}
  PROVE  /\ Len(Entries) \in Nat
         /\ \A e \in 1 .. Len(Entries) :
              Entries[e].cpus \in Seq(Nat) /\ Len(Entries[e].cpus) \in Nat
<1>1. Named(stackConfigs, StackName) # {}
  BY DEF LoadInv
<1>2. Entries \in Seq([name : STRING, cpus : Seq(Nat)])
  BY <1>1, StackFound, Zenon
<1>3. \A e \in 1 .. Len(Entries) : Entries[e] \in [name : STRING, cpus : Seq(Nat)]
  BY <1>2, ElementOfSeq
<1>4. \A e \in 1 .. Len(Entries) : Entries[e].cpus \in Seq(Nat)
  BY <1>3
<1> QED
  BY <1>2, <1>4

(* So is a graph that it has found, and a graph that it has not found is   *)
(* not there.                                                              *)
LEMMA GraphFound ==
  ASSUME TypeOK, LoadInv, pc \in {"build", "run"}, NEW e \in 1 .. Len(Entries)
  PROVE  /\ Named(graphConfigs, Entries[e].name) # {} =>
              GraphOf(e) \in GraphFiles /\ GraphOf(e) \in Graphs(Entries[e].name)
         /\ Named(graphConfigs, Entries[e].name) = {} => Graphs(Entries[e].name) = {}
<1>1. graphConfigs \in Seq(GraphFiles) /\ unread = {}
  BY DEF LoadInv, TypeOK
<1>2. ASSUME Named(graphConfigs, Entries[e].name) # {}
      PROVE  GraphOf(e) \in GraphFiles /\ GraphOf(e) \in Graphs(Entries[e].name)
  <2>1. PICK i \in 1 .. Len(graphConfigs) :
          GraphOf(e) = graphConfigs[i] /\ graphConfigs[i].name = Entries[e].name
    BY <1>1, <1>2, FindElement DEF GraphOf
  <2>2. graphConfigs[i] \in GraphFiles /\ graphConfigs[i] \in dir
    BY <1>1, <2>1 DEF LoadInv
  <2> QED
    BY <2>1, <2>2 DEF Graphs, GraphFiles
<1>3. \A g \in Graphs(Entries[e].name) : Named(graphConfigs, Entries[e].name) # {}
  BY <1>1 DEF Graphs, LoadInv
<1> QED
  BY <1>2, <1>3

(* The worker of a cpu. *)
LEMMA WorkerType ==
  ASSUME TypeOK, LoadInv, pc \in {"build", "run"}, NEW e \in 1 .. Len(Entries),
         NEW c \in Cpus(e), Named(graphConfigs, Entries[e].name) # {}, Builds(GraphOf(e))
  PROVE  WorkerOf(e, c) \in Worker
<1> DEFINE g == GraphOf(e)
           ls == [i \in 1 .. Len(g.modules) |-> LinksOf(g, i)]
<1>1. g \in GraphFiles /\ Builds(g)
  BY GraphFound
<1>2. Entries[e].cpus[c] \in Nat
  <2>1. Entries[e].cpus \in Seq(Nat)
    BY EntryType
  <2> QED
    BY <2>1 DEF Cpus
<1> HIDE DEF g
<1>3. g.modules \in Seq(STRING) /\ Len(g.modules) \in Nat
  BY <1>1, ConfigAssumption
<1>4. g.modules \in Seq(Registered)
  <2>1. \A i \in 1 .. Len(g.modules) : g.modules[i] \in Registered
    BY <1>1 DEF Builds
  <2>2. g.modules = [i \in 1 .. Len(g.modules) |-> g.modules[i]]
    BY <1>3
  <2>3. g.modules \in [1 .. Len(g.modules) -> Registered]
    BY <2>1, <2>2
  <2> QED
    BY <1>3, <2>3
<1>5. ls \in Seq(Seq(Nat))
  <2>1. \A i \in 1 .. Len(g.modules) : LinksOf(g, i) \in Seq(Nat)
    BY <1>1, LinksOfType
  <2>2. ls \in [1 .. Len(g.modules) -> Seq(Nat)]
    BY <2>1
  <2> QED
    BY <1>3, <2>2
<1>6. WorkerOf(e, c) = [id |-> e, cpu |-> Entries[e].cpus[c], modules |-> g.modules, links |-> ls]
  BY DEF WorkerOf, g
<1>7. e \in Nat
  OBVIOUS
<1> HIDE DEF ls
<1> QED
  BY <1>2, <1>4, <1>5, <1>6, <1>7 DEF Worker

(* Once loaded, a stack and its graphs stay what they are. *)
LEMMA SameConfigs ==
  ASSUME stackConfigs' = stackConfigs, graphConfigs' = graphConfigs
  PROVE  /\ Entries' = Entries
         /\ \A e : GraphOf(e)' = GraphOf(e) /\ Cpus(e)' = Cpus(e)
         /\ \A e, c : WorkerOf(e, c)' = WorkerOf(e, c)
         /\ \A d, n : Before(d, n)' = Before(d, n)
BY DEF Entries, GraphOf, WorkerOf, Cpus, Before, Find, Named

(* The cpus that Engine::run has come to. *)
LEMMA BeforeMembers ==
  ASSUME NEW d \in Nat, NEW n \in Nat
  PROVE  /\ \A e, c : <<e, c>> \in Before(d, n) <=>
              /\ e \in 1 .. Len(Entries) /\ c \in Cpus(e)
              /\ e < d \/ (e = d /\ c < n)
         /\ \A x \in Before(d, n) : x = <<x[1], x[2]>>
BY DEF Before

(* A cpu that has a worker is one of an entry whose graph was found. *)
LEMMA DoneFound ==
  ASSUME TypeOK, LoadInv, BuildInv, pc \in {"build", "run"}, NEW x \in Done
  PROVE  /\ x[1] \in 1 .. Len(Entries) /\ x[1] <= entry /\ x[2] \in Cpus(x[1])
         /\ GraphOf(x[1]) \in GraphFiles
         /\ GraphOf(x[1]) \in Graphs(Entries[x[1]].name)
<1>1. entry \in Nat /\ cpu \in Nat
  BY DEF TypeOK
<1>2. x = <<x[1], x[2]>>
  BY <1>1, BeforeMembers DEF Done
<1>3. <<x[1], x[2]>> \in Before(entry, cpu)
  BY <1>2, Zenon DEF Done
<1>4. /\ x[1] \in 1 .. Len(Entries) /\ x[2] \in Cpus(x[1])
      /\ x[1] < entry \/ (x[1] = entry /\ x[2] < cpu)
  <2>1. \A e, c : <<e, c>> \in Before(entry, cpu) =>
          /\ e \in 1 .. Len(Entries) /\ c \in Cpus(e)
          /\ e < entry \/ (e = entry /\ c < cpu)
    BY <1>1, BeforeMembers
  <2> QED
    BY <1>3, <2>1, Zenon
<1>5. x[2] \in 1 .. Len(Entries[x[1]].cpus) /\ Len(Entries[x[1]].cpus) \in Nat
  BY <1>4, EntryType DEF Cpus
<1>6. x[1] < entry \/ (x[1] = entry /\ cpu > 1)
  BY <1>1, <1>4, <1>5
<1>7. Named(graphConfigs, Entries[x[1]].name) # {}
  BY <1>4, <1>6 DEF BuildInv
<1>8. GraphOf(x[1]) \in GraphFiles /\ GraphOf(x[1]) \in Graphs(Entries[x[1]].name)
  BY <1>4, <1>7, GraphFound
<1> QED
  BY <1>1, <1>4, <1>8

(* What Graph::new and the push of its worker do. *)
LEMMA BuildGraphStep ==
  ASSUME TypeOK, LoadInv, BuildInv, BuildGraph
  PROVE  /\ entry \in 1 .. Len(Entries) /\ cpu \in Cpus(entry) /\ entry \in Nat /\ cpu \in Nat
         /\ Named(graphConfigs, Entries[entry].name) # {}
         /\ GraphOf(entry) \in Graphs(Entries[entry].name)
         /\ \/ /\ Builds(GraphOf(entry)) /\ WorkerOf(entry, cpu) \in Worker
               /\ workers' = Append(workers, WorkerOf(entry, cpu))
               /\ cpu' = cpu + 1 /\ pc' = pc
            \/ ~ Builds(GraphOf(entry)) /\ pc' = "panic" /\ cpu' = cpu /\ workers' = workers
<1>1. /\ pc \in {"build", "run"} /\ entry <= Len(Entries) /\ cpu <= Len(Entries[entry].cpus)
      /\ Named(graphConfigs, Entries[entry].name) # {}
  BY DEF BuildGraph
<1>2. entry \in 1 .. Len(Entries) + 1 /\ cpu >= 1 /\ entry \in Nat /\ cpu \in Nat
  BY <1>1 DEF BuildInv, TypeOK
<1>3. entry \in 1 .. Len(Entries)
  BY <1>1, <1>2, EntryType
<1>4. cpu \in Cpus(entry)
  BY <1>1, <1>2, <1>3, EntryType DEF Cpus
<1>5. GraphOf(entry) \in Graphs(Entries[entry].name)
  BY <1>1, <1>3, GraphFound
<1>6. \/ /\ Builds(GraphOf(entry)) /\ workers' = Append(workers, WorkerOf(entry, cpu))
         /\ cpu' = cpu + 1 /\ pc' = pc
      \/ ~ Builds(GraphOf(entry)) /\ pc' = "panic" /\ cpu' = cpu /\ workers' = workers
  BY DEF BuildGraph, GraphOf, WorkerOf
<1>7. Builds(GraphOf(entry)) => WorkerOf(entry, cpu) \in Worker
  BY <1>1, <1>3, <1>4, WorkerType, Zenon
<1> QED
  BY <1>1, <1>2, <1>3, <1>4, <1>5, <1>6, <1>7

-----------------------------------------------------------------------------
(* The invariant.                                                          *)

(* Every step keeps the types. *)
LEMMA TypeStep ==
  ASSUME TypeOK, LoadInv, BuildInv, [Next]_vars
  PROVE  TypeOK'
<1>1. ASSUME NEW f \in Pool, LoadFile(f)
      PROVE  TypeOK'
  <2>1. graphConfigs' \in Seq(GraphFiles) /\ stackConfigs' \in Seq(StackFiles)
    BY <1>1, LoadFileStep
  <2>2. /\ dir' = dir /\ unread' = unread \ {f} /\ pc' \in {"load", "panic"}
        /\ entry' = entry /\ cpu' = cpu /\ workers' = workers
    BY <1>1 DEF LoadFile, TypeOK
  <2> QED
    BY <2>1, <2>2 DEF TypeOK
<1>2. CASE FindStack
  BY <1>2 DEF FindStack, TypeOK
<1>3. CASE BuildGraph
  <2>1. /\ workers' \in Seq(Worker) /\ cpu' \in Nat
        /\ pc' \in {"load", "build", "run", "panic"}
    <3>1. workers \in Seq(Worker) /\ cpu \in Nat /\ pc \in {"load", "build", "run", "panic"}
      BY DEF TypeOK
    <3>2. \/ workers' = workers /\ cpu' = cpu /\ pc' = "panic"
          \/ /\ WorkerOf(entry, cpu) \in Worker /\ workers' = Append(workers, WorkerOf(entry, cpu))
             /\ cpu' = cpu + 1 /\ pc' = pc
      BY <1>3, BuildGraphStep, Zenon
    <3> QED
      BY <3>1, <3>2
  <2> QED
    BY <1>3, <2>1 DEF BuildGraph, TypeOK
<1>4. CASE UnknownGraph \/ NextEntry
  BY <1>4 DEF UnknownGraph, NextEntry, TypeOK
<1>5. CASE RunWorkers
  BY <1>5 DEF RunWorkers, TypeOK
<1>6. CASE UNCHANGED vars
  BY <1>6 DEF vars, TypeOK
<1> QED
  BY <1>1, <1>2, <1>3, <1>4, <1>5, <1>6 DEF Next, Finished

(* The program gives up for a cause only. *)
LEMMA PanicStep ==
  ASSUME IInv, [Next]_vars
  PROVE  PanicsForCause'
<1> DEFINE s == Find(stackConfigs, StackName)
           Bad(e) == \/ Graphs(Entries[e].name) = {}
                     \/ \E g \in Graphs(Entries[e].name) : ~ Builds(g) \/ Len(g.modules) > MaxNodes
<1>1. dir' = dir
  BY DEF Next, LoadFile, FindStack, BuildGraph, UnknownGraph, NextEntry, RunWorkers, Finished, vars
<1>2. TypeOK /\ LoadInv /\ PanicsForCause /\ BuildInv
  BY DEF IInv
<1>3. ASSUME pc \in {"build", "run"}, \E e \in 1 .. Len(Entries) : Bad(e)
      PROVE  PanicsForCause'
  <2>1. s \in Stacks /\ s.graphs = Entries
    <3>1. Named(stackConfigs, StackName) # {}
      BY <1>2, <1>3 DEF LoadInv
    <3> QED
      BY <1>2, <3>1, StackFound DEF Entries
  <2> HIDE DEF s
  <2>2. \E z \in Stacks : \E e \in 1 .. Len(z.graphs) :
         \/ Graphs(z.graphs[e].name) = {}
         \/ \E g \in Graphs(z.graphs[e].name) : ~ Builds(g) \/ Len(g.modules) > MaxNodes
    BY <1>3, <2>1
  <2> QED
    BY <1>1, <2>2 DEF PanicsForCause, Stacks, Graphs
<1>4. ASSUME NEW f \in Pool, LoadFile(f)
      PROVE  PanicsForCause'
  <2>1. f \in dir /\ (pc' = "panic" => f.type = "malformed")
    BY <1>2, <1>4 DEF LoadFile, TypeOK
  <2> QED
    BY <1>1, <2>1 DEF PanicsForCause
<1>5. CASE FindStack
  <2>1. pc' = "panic" => Named(stackConfigs, StackName) = {} /\ unread = {}
    BY <1>5 DEF FindStack
  <2>2. pc' = "panic" => Stacks = {}
    BY <1>2, <2>1 DEF LoadInv, Stacks
  <2> QED
    BY <1>1, <2>2 DEF PanicsForCause, Stacks
<1>6. CASE BuildGraph
  <2>1. pc' = "panic" => Bad(entry) /\ entry \in 1 .. Len(Entries) /\ pc \in {"build", "run"}
    BY <1>2, <1>6, BuildGraphStep DEF BuildGraph
  <2> HIDE DEF Bad
  <2> QED
    BY <1>3, <2>1 DEF PanicsForCause
<1>7. CASE UnknownGraph
  <2>1. /\ pc \in {"build", "run"} /\ entry <= Len(Entries)
        /\ Named(graphConfigs, Entries[entry].name) = {}
    BY <1>7 DEF UnknownGraph
  <2>2. entry \in 1 .. Len(Entries)
    <3>1. entry \in 1 .. Len(Entries) + 1
      BY <1>2, <2>1 DEF BuildInv
    <3> QED
      BY <1>2, <2>1, <3>1, EntryType
  <2>3. Bad(entry)
    BY <1>2, <2>1, <2>2, GraphFound
  <2> HIDE DEF Bad
  <2> QED
    BY <1>3, <2>1, <2>2, <2>3
<1>8. CASE NextEntry
  BY <1>8 DEF NextEntry, PanicsForCause
<1>9. CASE RunWorkers
  <2>1. ASSUME pc' = "panic"
        PROVE  \E e \in 1 .. Len(Entries) : Bad(e)
    <3>1. PICK i \in 1 .. Len(workers) : ~ (Len(workers[i].modules) <= MaxNodes)
      BY <1>9, <2>1 DEF RunWorkers
    <3>2. PICK x \in Done : workers[i] = WorkerOf(x[1], x[2])
      BY <1>2, <1>9 DEF BuildInv, RunWorkers
    <3>3. workers[i].modules = GraphOf(x[1]).modules
      BY <3>2 DEF WorkerOf
    <3>4. /\ x[1] \in 1 .. Len(Entries) /\ GraphOf(x[1]) \in GraphFiles
          /\ GraphOf(x[1]) \in Graphs(Entries[x[1]].name)
      BY <1>2, <1>9, DoneFound DEF RunWorkers
    <3>5. Len(GraphOf(x[1]).modules) \in Nat /\ MaxNodes \in Nat
      BY <3>4, ConfigAssumption
    <3>6. Len(GraphOf(x[1]).modules) > MaxNodes
      BY <3>1, <3>3, <3>5
    <3> QED
      BY <3>4, <3>6
  <2>2. pc \in {"build", "run"}
    BY <1>9 DEF RunWorkers
  <2> HIDE DEF Bad
  <2> QED
    BY <1>3, <2>1, <2>2 DEF PanicsForCause
<1>10. CASE Finished \/ UNCHANGED vars
  BY <1>2, <1>10 DEF Finished, vars, PanicsForCause, Stacks, Graphs
<1> QED
  BY <1>4, <1>5, <1>6, <1>7, <1>8, <1>9, <1>10 DEF Next

(* The worker of one more cpu. *)
LEMMA BuildGraphBuilds ==
  ASSUME TypeOK, LoadInv, BuildInv, BuildGraph, Builds(GraphOf(entry))
  PROVE  BuildInv'
<1> DEFINE w == WorkerOf(entry, cpu)
           x == <<entry, cpu>>
           new == Before(entry, cpu + 1)
           n == Len(workers)
<1>1. /\ pc = "build" /\ pc' = "build" /\ entry' = entry /\ cpu' = cpu + 1
      /\ workers' = Append(workers, w) /\ w \in Worker
      /\ stackConfigs' = stackConfigs /\ graphConfigs' = graphConfigs
  BY BuildGraphStep DEF BuildGraph
<1>2. /\ entry \in 1 .. Len(Entries) /\ cpu \in Cpus(entry) /\ entry \in Nat /\ cpu \in Nat
      /\ Named(graphConfigs, Entries[entry].name) # {}
  BY BuildGraphStep, Zenon
<1>3. Len(Entries) \in Nat /\ Len(Entries[entry].cpus) \in Nat /\ cpu \in 1 .. Len(Entries[entry].cpus)
  BY <1>1, <1>2, EntryType DEF Cpus
<1>4. x \notin Done /\ new = Done \cup {x}
  <2>1. \A e, c : <<e, c>> \in Done <=>
          e \in 1 .. Len(Entries) /\ c \in Cpus(e) /\ (e < entry \/ (e = entry /\ c < cpu))
    BY <1>2, BeforeMembers DEF Done
  <2>2. \A e, c : <<e, c>> \in new <=>
          e \in 1 .. Len(Entries) /\ c \in Cpus(e) /\ (e < entry \/ (e = entry /\ c < cpu + 1))
    <3>1. cpu + 1 \in Nat
      BY <1>2
    <3> DEFINE m == cpu + 1
    <3> HIDE DEF m
    <3>2. \A e, c : <<e, c>> \in Before(entry, m) <=>
            e \in 1 .. Len(Entries) /\ c \in Cpus(e) /\ (e < entry \/ (e = entry /\ c < m))
      BY <1>2, <3>1, BeforeMembers DEF m
    <3> QED
      BY <3>2 DEF m
  <2>3. (\A y \in Done : y = <<y[1], y[2]>>) /\ \A y \in new : y = <<y[1], y[2]>>
    BY <1>2, BeforeMembers DEF Done
  <2>4. x \notin Done /\ x \in new
    BY <1>2, <2>1, <2>2
  <2>5. \A e, c : <<e, c>> \in Done => <<e, c>> \in new
    BY <1>2, <2>1, <2>2 DEF Cpus
  <2>6. \A e, c : <<e, c>> \in new => <<e, c>> \in Done \/ (e = entry /\ c = cpu)
    BY <1>2, <2>1, <2>2 DEF Cpus
  <2> HIDE DEF new
  <2>7. ASSUME NEW y \in new
        PROVE  y \in Done \/ y = x
    <3>1. y = <<y[1], y[2]>>
      BY <2>3
    <3>2. <<y[1], y[2]>> \in Done \/ (y[1] = entry /\ y[2] = cpu)
      BY <2>6, <3>1
    <3> QED
      BY <3>1, <3>2
  <2>8. ASSUME NEW y \in Done
        PROVE  y \in new
    BY <2>3, <2>5
  <2> QED
    BY <2>4, <2>7, <2>8, Zenon
<1> HIDE DEF x, new
<1>5. /\ IsFiniteSet(Done) /\ n = Cardinality(Done)
      /\ \A y \in Done : \E i \in 1 .. n : workers[i] = WorkerOf(y[1], y[2])
      /\ \A i \in 1 .. n : \E y \in Done : workers[i] = WorkerOf(y[1], y[2]) /\ Builds(GraphOf(y[1]))
      /\ \A i, j \in 1 .. n : i <= j => workers[i].id <= workers[j].id
      /\ \A e \in 1 .. Len(Entries) : e < entry \/ (e = entry /\ cpu > 1) =>
           Named(graphConfigs, Entries[e].name) # {}
  BY <1>1 DEF BuildInv
<1>6. IsFiniteSet(new) /\ Cardinality(new) = n + 1
  BY <1>4, <1>5, FS_AddElement
<1> HIDE DEF w
<1>7. /\ n \in Nat /\ Len(workers') = n + 1 /\ workers'[n + 1] = w
      /\ \A i \in 1 .. n : workers'[i] = workers[i]
  <2>1. workers \in Seq(Worker)
    BY DEF TypeOK
  <2> QED
    BY <1>1, <2>1
<1> HIDE DEF n
<1>8. x[1] = entry /\ x[2] = cpu /\ w = WorkerOf(x[1], x[2]) /\ w.id = entry
  BY DEF x, w, WorkerOf
<1>9. \A y \in new : \E i \in 1 .. n + 1 : workers'[i] = WorkerOf(y[1], y[2])
  <2>1. \A y \in Done : \E i \in 1 .. n + 1 : workers'[i] = WorkerOf(y[1], y[2])
    BY <1>5, <1>7
  <2>2. n + 1 \in 1 .. n + 1 /\ workers'[n + 1] = WorkerOf(x[1], x[2])
    BY <1>7, <1>8
  <2> QED
    BY <1>4, <2>1, <2>2
<1>10. \A i \in 1 .. n + 1 : \E y \in new : workers'[i] = WorkerOf(y[1], y[2]) /\ Builds(GraphOf(y[1]))
  <2>1. \A i \in 1 .. n + 1 : i \in 1 .. n \/ i = n + 1
    BY <1>7
  <2> QED
    BY <1>4, <1>5, <1>7, <1>8, <2>1
<1>11. \A i, j \in 1 .. n + 1 : i <= j => workers'[i].id <= workers'[j].id
  <2>1. \A i \in 1 .. n : workers[i].id <= entry
    <3>1. \A y \in Done : y[1] <= entry
      BY <1>1, DoneFound
    <3>2. \A y : WorkerOf(y[1], y[2]).id = y[1]
      BY DEF WorkerOf
    <3> QED
      BY <1>5, <3>1, <3>2
  <2>2. \A i, j \in 1 .. n + 1 : i <= j =>
          (i \in 1 .. n /\ j \in 1 .. n) \/ (i \in 1 .. n /\ j = n + 1) \/ (i = n + 1 /\ j = n + 1)
    BY <1>7
  <2>3. workers'[n + 1].id = entry /\ entry <= entry
    BY <1>2, <1>7, <1>8
  <2> QED
    BY <1>5, <1>7, <2>1, <2>2, <2>3
<1>12. Done' = new
  BY <1>1, SameConfigs DEF Done, new
<1>13. /\ Entries' = Entries /\ \A e : GraphOf(e)' = GraphOf(e)
       /\ \A e, c : WorkerOf(e, c)' = WorkerOf(e, c)
  BY <1>1, SameConfigs
<1>14. \A name : Named(graphConfigs, name)' = Named(graphConfigs, name)
  BY <1>1
<1>15. /\ entry' \in 1 .. Len(Entries) + 1 /\ cpu' >= 1
       /\ cpu' <= Len(Entries[entry'].cpus) + 1 /\ ~ (entry' > Len(Entries))
  BY <1>1, <1>2, <1>3
<1>16. \A e \in 1 .. Len(Entries) : e < entry' \/ (e = entry' /\ cpu' > 1) =>
         Named(graphConfigs, Entries[e].name) # {}
  BY <1>1, <1>2, <1>5
<1>17. /\ IsFiniteSet(Done') /\ Len(workers') = Cardinality(Done')
       /\ \A y \in Done' : \E i \in 1 .. Len(workers') : workers'[i] = WorkerOf(y[1], y[2])
       /\ \A i \in 1 .. Len(workers') : \E y \in Done' :
            workers'[i] = WorkerOf(y[1], y[2]) /\ Builds(GraphOf(y[1]))
       /\ \A i, j \in 1 .. Len(workers') : i <= j => workers'[i].id <= workers'[j].id
  BY <1>6, <1>7, <1>9, <1>10, <1>11, <1>12
<1>18. pc' # "run"
  BY <1>1
<1> QED
  BY <1>13, <1>14, <1>15, <1>16, <1>17, <1>18 DEF BuildInv

(* The end of the cpus of an entry leads to the first of the next one. *)
LEMMA NextEntryBuilds ==
  ASSUME TypeOK, LoadInv, BuildInv, NextEntry
  PROVE  BuildInv'
<1>1. /\ pc = "build" /\ pc' = "build" /\ entry' = entry + 1 /\ cpu' = 1 /\ workers' = workers
      /\ stackConfigs' = stackConfigs /\ graphConfigs' = graphConfigs
      /\ entry <= Len(Entries) /\ Named(graphConfigs, Entries[entry].name) # {}
      /\ cpu > Len(Entries[entry].cpus)
  BY DEF NextEntry
<1>2. /\ entry \in 1 .. Len(Entries) + 1 /\ entry \in Nat /\ cpu \in Nat
      /\ \A e \in 1 .. Len(Entries) : e < entry \/ (e = entry /\ cpu > 1) =>
           Named(graphConfigs, Entries[e].name) # {}
  BY <1>1 DEF BuildInv, TypeOK
<1>3. Len(Entries) \in Nat /\ entry \in 1 .. Len(Entries) /\ Len(Entries[entry].cpus) \in Nat
  BY <1>1, <1>2, EntryType
<1>4. Before(entry + 1, 1) = Done
  <2> DEFINE m == entry + 1
  <2>1. m \in Nat /\ 1 \in Nat
    BY <1>2
  <2> HIDE DEF m
  <2>2. /\ \A e, c : <<e, c>> \in Before(m, 1) <=>
             e \in 1 .. Len(Entries) /\ c \in Cpus(e) /\ (e < m \/ (e = m /\ c < 1))
        /\ \A y \in Before(m, 1) : y = <<y[1], y[2]>>
    BY <2>1, BeforeMembers
  <2>3. /\ \A e, c : <<e, c>> \in Done <=>
             e \in 1 .. Len(Entries) /\ c \in Cpus(e) /\ (e < entry \/ (e = entry /\ c < cpu))
        /\ \A y \in Done : y = <<y[1], y[2]>>
    BY <1>2, BeforeMembers DEF Done
  <2>4. \A e \in 1 .. Len(Entries) : \A c \in Cpus(e) :
          (e < m \/ (e = m /\ c < 1)) <=> (e < entry \/ (e = entry /\ c < cpu))
    <3>1. \A e \in 1 .. Len(Entries) : Len(Entries[e].cpus) \in Nat
      BY <1>1, EntryType
    <3>2. \A e \in 1 .. Len(Entries) : \A c \in Cpus(e) :
            c \in Nat /\ c >= 1 /\ (e = entry => c <= Len(Entries[entry].cpus))
      BY <3>1 DEF Cpus
    <3> QED
      BY <1>1, <1>2, <1>3, <3>2 DEF m
  <2>5. \A e, c : <<e, c>> \in Before(m, 1) <=> <<e, c>> \in Done
    BY <2>2, <2>3, <2>4
  <2>6. \A y \in Before(m, 1) : y \in Done
    BY <2>2, <2>5
  <2>7. \A y \in Done : y \in Before(m, 1)
    BY <2>3, <2>5
  <2> QED
    BY <2>6, <2>7 DEF m
<1>5. Done' = Done
  BY <1>1, <1>4, SameConfigs DEF Done
<1>6. /\ Entries' = Entries /\ \A e : GraphOf(e)' = GraphOf(e)
      /\ \A e, c : WorkerOf(e, c)' = WorkerOf(e, c)
  BY <1>1, SameConfigs
<1>7. \A name : Named(graphConfigs, name)' = Named(graphConfigs, name)
  BY <1>1
<1>8. /\ entry' \in 1 .. Len(Entries) + 1 /\ cpu' >= 1 /\ cpu' = 1
      /\ entry' <= Len(Entries) => cpu' <= Len(Entries[entry'].cpus) + 1
  <2>1. entry' \in 1 .. Len(Entries) + 1
    BY <1>1, <1>3
  <2>2. entry' <= Len(Entries) => entry' \in 1 .. Len(Entries) /\ Len(Entries[entry'].cpus) \in Nat
    BY <1>1, <1>3, EntryType
  <2> QED
    BY <1>1, <2>1, <2>2
<1>9. \A e \in 1 .. Len(Entries) : e < entry' \/ (e = entry' /\ cpu' > 1) =>
        Named(graphConfigs, Entries[e].name) # {}
  <2>1. \A e \in 1 .. Len(Entries) : e < entry + 1 => e < entry \/ e = entry
    BY <1>3
  <2> QED
    BY <1>1, <1>2, <2>1
<1>10. pc' # "run"
  BY <1>1
<1> QED
  BY <1>1, <1>5, <1>6, <1>7, <1>8, <1>9, <1>10 DEF BuildInv

(* Every step of Engine::run keeps the workers and the loops together. *)
LEMMA BuildStep ==
  ASSUME TypeOK, LoadInv, BuildInv, [Next]_vars
  PROVE  BuildInv'
<1>1. ASSUME NEW f \in Pool, LoadFile(f)
      PROVE  BuildInv'
  BY <1>1 DEF LoadFile, BuildInv
<1>2. CASE FindStack
  <2>1. CASE pc' # "build"
    BY <1>2, <2>1 DEF FindStack, BuildInv
  <2>2. CASE pc' = "build"
    <3>1. /\ entry' = 1 /\ cpu' = 1 /\ workers' = <<>> /\ entry = 1 /\ cpu = 1
          /\ stackConfigs' = stackConfigs /\ graphConfigs' = graphConfigs
      BY <1>2 DEF FindStack, LoadInv
    <3>2. Named(stackConfigs, StackName) # {}
      BY <1>2, <2>2 DEF FindStack
    <3>3. /\ Entries' = Entries /\ Len(Entries) \in Nat
          /\ \A e \in 1 .. Len(Entries) : Len(Entries[e].cpus) \in Nat
      BY <3>1, <3>2, EntryType, SameConfigs
    <3>4. Done' = {}
      <4>1. \A e, c : <<e, c>> \in Before(1, 1) =>
              e \in 1 .. Len(Entries) /\ c \in Cpus(e) /\ (e < 1 \/ (e = 1 /\ c < 1))
        BY BeforeMembers
      <4>2. \A y \in Before(1, 1) : y = <<y[1], y[2]>>
        BY BeforeMembers
      <4>3. \A e, c : ~ (e \in 1 .. Len(Entries) /\ c \in Cpus(e) /\ (e < 1 \/ (e = 1 /\ c < 1)))
        BY <3>3 DEF Cpus
      <4>4. Before(1, 1) = {}
        BY <4>1, <4>2, <4>3
      <4> QED
        BY <3>1, <4>4, SameConfigs DEF Done
    <3>5. IsFiniteSet({}) /\ Cardinality({}) = 0
      BY FS_EmptySet
    <3> QED
      BY <2>2, <3>1, <3>3, <3>4, <3>5 DEF BuildInv
  <2> QED
    BY <2>1, <2>2
<1>3. CASE BuildGraph
  <2>1. CASE Builds(GraphOf(entry))
    BY <1>3, <2>1, BuildGraphBuilds
  <2>2. CASE ~ Builds(GraphOf(entry))
    <3>1. pc' = "panic"
      BY <1>3, <2>2, BuildGraphStep
    <3> QED
      BY <3>1 DEF BuildInv
  <2> QED
    BY <2>1, <2>2
<1>4. CASE UnknownGraph
  BY <1>4 DEF UnknownGraph, BuildInv
<1>5. CASE NextEntry
  BY <1>5, NextEntryBuilds
<1>6. CASE RunWorkers
  <2>1. /\ pc = "build" /\ entry > Len(Entries) /\ entry' = entry /\ cpu' = cpu /\ workers' = workers
        /\ stackConfigs' = stackConfigs /\ graphConfigs' = graphConfigs
    BY <1>6 DEF RunWorkers
  <2>2. entry = Len(Entries) + 1
    <3>1. entry \in 1 .. Len(Entries) + 1
      BY <2>1 DEF BuildInv
    <3>2. Len(Entries) \in Nat
      BY <2>1, EntryType
    <3> QED
      BY <2>1, <3>1, <3>2
  <2>3. /\ Entries' = Entries /\ \A e : GraphOf(e)' = GraphOf(e) /\ Done' = Done
        /\ \A e, c : WorkerOf(e, c)' = WorkerOf(e, c)
    BY <2>1, SameConfigs DEF Done
  <2>4. \A name : Named(graphConfigs, name)' = Named(graphConfigs, name)
    BY <2>1
  <2> QED
    BY <2>1, <2>2, <2>3, <2>4 DEF BuildInv
<1>7. CASE Finished \/ UNCHANGED vars
  <2>1. /\ pc' = pc /\ entry' = entry /\ cpu' = cpu /\ workers' = workers
        /\ stackConfigs' = stackConfigs /\ graphConfigs' = graphConfigs
    BY <1>7 DEF Finished, vars
  <2>2. /\ Entries' = Entries /\ \A e : GraphOf(e)' = GraphOf(e) /\ Done' = Done
        /\ \A e, c : WorkerOf(e, c)' = WorkerOf(e, c)
    BY <2>1, SameConfigs DEF Done
  <2>3. \A name : Named(graphConfigs, name)' = Named(graphConfigs, name)
    BY <2>1
  <2> QED
    BY <2>1, <2>2, <2>3 DEF BuildInv
<1> QED
  BY <1>1, <1>2, <1>3, <1>4, <1>5, <1>6, <1>7 DEF Next

(* The invariant holds when main starts. *)
LEMMA InitIInv == Init => IInv
<1> SUFFICES ASSUME Init
             PROVE  IInv
  OBVIOUS
<1>1. TypeOK
  BY DEF Init, TypeOK
<1>2. LoadInv
  BY DEF Init, LoadInv
<1>3. PanicsForCause /\ BuildInv
  BY DEF Init, PanicsForCause, BuildInv
<1> QED
  BY <1>1, <1>2, <1>3 DEF IInv

(* Loading and Engine::run keep the invariant, for any files and any order *)
(* in which they are read.                                                 *)
THEOREM Invariance == Spec => []IInv
<1>1. Init => IInv
  BY InitIInv
<1>2. IInv /\ [Next]_vars => IInv'
  <2> SUFFICES ASSUME IInv, [Next]_vars
               PROVE  IInv'
    OBVIOUS
  <2>1. TypeOK /\ LoadInv /\ BuildInv
    BY DEF IInv
  <2>2. TypeOK'
    BY <2>1, TypeStep
  <2>3. LoadInv'
    BY <2>1, LoadStep
  <2>4. BuildInv'
    BY <2>1, BuildStep
  <2>5. PanicsForCause'
    BY PanicStep
  <2> QED
    BY <2>2, <2>3, <2>4, <2>5 DEF IInv
<1> QED
  BY <1>1, <1>2, PTL DEF Spec

(* The lists of the ConfigManager, the loops of Engine::run and the        *)
(* workers it builds keep their types: a worker's modules are registered.  *)
THEOREM TypeCorrect == Spec => []TypeOK
<1>1. IInv => TypeOK
  BY DEF IInv
<1> QED
  BY <1>1, Invariance, PTL

(* The program gives up only on a directory with a malformed file, without *)
(* the stack, or with a stack one of whose graphs is missing or cannot be  *)
(* built (the unwraps and pushes of Engine::run and Graph::new).           *)
THEOREM PanicsExplained == Spec => []PanicsForCause
<1>1. IInv => PanicsForCause
  BY DEF IInv
<1> QED
  BY <1>1, Invariance, PTL

(* When the workers run, they are those of the stack that was found.       *)
LEMMA InvConfigured == IInv => RunsConfigured
<1> SUFFICES ASSUME TypeOK, LoadInv, BuildInv, pc = "run"
             PROVE  RunsConfigured
  BY DEF IInv, RunsConfigured
<1> DEFINE s == Find(stackConfigs, StackName)
           n == Len(workers)
           slots == UNION {{e} \X (1 .. Len(s.graphs[e].cpus)) : e \in 1 .. Len(s.graphs)}
<1>1. s \in Stacks /\ s.graphs = Entries
  <2>1. Named(stackConfigs, StackName) # {}
    BY DEF LoadInv
  <2> QED
    BY <2>1, StackFound DEF Entries
<1>2. Len(Entries) \in Nat /\ entry = Len(Entries) + 1 /\ entry \in Nat /\ cpu \in Nat /\ cpu = 1
  <2>1. Len(Entries) \in Nat /\ entry = Len(Entries) + 1 /\ entry \in Nat /\ cpu \in Nat
    BY EntryType DEF BuildInv, TypeOK
  <2> QED
    BY <2>1 DEF BuildInv
<1>3. \A e, c : <<e, c>> \in Done <=> e \in 1 .. Len(Entries) /\ c \in Cpus(e)
  <2>1. \A e, c : <<e, c>> \in Done <=>
          e \in 1 .. Len(Entries) /\ c \in Cpus(e) /\ (e < entry \/ (e = entry /\ c < cpu))
    <3>1. entry \in Nat /\ cpu \in Nat
      BY <1>2
    <3> QED
      BY <3>1, BeforeMembers DEF Done
  <2>2. \A e \in 1 .. Len(Entries) : e < entry
    BY <1>2
  <2> QED
    BY <2>1, <2>2
<1> HIDE DEF s, n
<1>4. slots = Done
  <2>1. \A y \in Done : y = <<y[1], y[2]>>
    BY <1>2, BeforeMembers DEF Done
  <2>2. \A e, c : <<e, c>> \in slots <=> e \in 1 .. Len(Entries) /\ c \in Cpus(e)
    BY <1>1 DEF Cpus
  <2>3. \A y \in slots : y = <<y[1], y[2]>>
    OBVIOUS
  <2> HIDE DEF slots
  <2>4. \A y \in Done : y \in slots
    BY <1>3, <2>1, <2>2
  <2>5. \A y \in slots : y \in Done
    BY <1>3, <2>2, <2>3
  <2> QED
    BY <2>4, <2>5
<1>5. n = Cardinality(slots) /\ \A i, j \in 1 .. n : i <= j => workers[i].id <= workers[j].id
  <2> HIDE DEF slots
  <2> QED
    BY <1>4 DEF BuildInv, n
<1>6. ASSUME NEW e \in 1 .. Len(Entries), NEW c \in Cpus(e)
      PROVE  \E i \in 1 .. n : /\ workers[i].id = e /\ workers[i].cpu = Entries[e].cpus[c]
                               /\ Runs(workers[i], GraphOf(e))
  <2> DEFINE x == <<e, c>>
  <2>1. x \in Done /\ x[1] = e /\ x[2] = c
    BY <1>3
  <2> HIDE DEF x
  <2>2. PICK i \in 1 .. n : workers[i] = WorkerOf(e, c)
    BY <2>1 DEF BuildInv, n
  <2>3. PICK y \in Done : workers[i] = WorkerOf(y[1], y[2]) /\ Builds(GraphOf(y[1]))
    BY <2>2 DEF BuildInv, n
  <2>4. WorkerOf(e, c).id = e /\ WorkerOf(y[1], y[2]).id = y[1]
    BY DEF WorkerOf
  <2>5. y[1] = e
    BY <2>2, <2>3, <2>4, Zenon
  <2>6. Builds(GraphOf(e)) /\ GraphOf(e) \in GraphFiles
    BY <2>3, <2>5, DoneFound
  <2>7. /\ WorkerOf(e, c).id = e /\ WorkerOf(e, c).cpu = Entries[e].cpus[c]
        /\ WorkerOf(e, c).modules = GraphOf(e).modules
        /\ WorkerOf(e, c).links = [j \in 1 .. Len(GraphOf(e).modules) |-> LinksOf(GraphOf(e), j)]
    BY DEF WorkerOf
  <2>8. Runs(WorkerOf(e, c), GraphOf(e))
    BY <2>6, <2>7, GraphHasLinks
  <2> QED
    BY <2>2, <2>7, <2>8
<1>7. ASSUME NEW e \in 1 .. Len(Entries)
      PROVE  \E g \in Graphs(Entries[e].name) :
               \A e2 \in 1 .. Len(Entries) : Entries[e2].name = Entries[e].name =>
                 \A c \in 1 .. Len(Entries[e2].cpus) :
                   \E i \in 1 .. n :
                     /\ workers[i].id = e2
                     /\ workers[i].cpu = Entries[e2].cpus[c]
                     /\ Runs(workers[i], g)
  <2>1. Named(graphConfigs, Entries[e].name) # {}
    <3>1. e < entry
      BY <1>2
    <3> QED
      BY <3>1 DEF BuildInv
  <2>2. GraphOf(e) \in Graphs(Entries[e].name)
    BY <2>1, GraphFound
  <2>3. \A e2 \in 1 .. Len(Entries) : Entries[e2].name = Entries[e].name => GraphOf(e2) = GraphOf(e)
    BY DEF GraphOf
  <2>4. \A e2 \in 1 .. Len(Entries) : Cpus(e2) = 1 .. Len(Entries[e2].cpus)
    BY DEF Cpus
  <2> QED
    BY <1>6, <2>2, <2>3, <2>4
<1> HIDE DEF slots
<1>8. /\ n = Cardinality(slots)
      /\ \A i, j \in 1 .. n : i <= j => workers[i].id <= workers[j].id
      /\ \A e \in 1 .. Len(s.graphs) :
           \E g \in Graphs(s.graphs[e].name) :
             \A e2 \in 1 .. Len(s.graphs) : s.graphs[e2].name = s.graphs[e].name =>
               \A c \in 1 .. Len(s.graphs[e2].cpus) :
                 \E i \in 1 .. n :
                   /\ workers[i].id = e2
                   /\ workers[i].cpu = s.graphs[e2].cpus[c]
                   /\ Runs(workers[i], g)
  BY <1>1, <1>5, <1>7
<1> QED
  BY <1>1, <1>8 DEF RunsConfigured, n, slots

(* Whatever the order in which load_dir reads the files, the workers that  *)
(* run are those of a stack of the name given to the program, one for each *)
(* cpu of each entry, in the order of the entries, and each has exactly    *)
(* the modules and the links of the graph its entry names.                 *)
THEOREM ConfiguredWorkers == Spec => []RunsConfigured
<1>1. IInv => RunsConfigured
  BY InvConfigured
<1> QED
  BY <1>1, Invariance, PTL
=============================================================================
