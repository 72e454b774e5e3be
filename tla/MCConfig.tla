------------------------------ MODULE MCConfig ------------------------------
(***************************************************************************)
(* Directories with any of these files: two stacks of the name asked for,  *)
(* two graphs named A, a graph that repeats a module, and graphs with an   *)
(* unknown module, a link to nowhere, too many links or too many nodes.    *)
(***************************************************************************)
EXTENDS Config

Graph(name, modules, links) ==
  [type |-> "Graph", name |-> name, modules |-> modules, links |-> links]

Stack(name, graphs) == [type |-> "Stack", name |-> name, graphs |-> graphs]

E(name, cpus) == [name |-> name, cpus |-> cpus]

MCPool ==
  {Graph("A", <<"User", "Io">>, <<<<"User", "Io">>, <<"Io", "User">>>>),
   Graph("A", <<"Io", "User">>, <<<<"User", "Io">>>>),
   Graph("B", <<"User", "User", "Io">>, <<<<"User", "Io">>, <<"Io", "User">>, <<"User", "User">>>>),
   Graph("B", <<"User", "Tcp">>, <<>>),
   Graph("C", <<"User", "Io">>, <<<<"User", "Io">>, <<"User", "Io">>, <<"User", "User">>>>),
   Graph("C", <<"User", "User", "Io", "Io">>, <<>>),
   Graph("C", <<"User">>, <<<<"User", "Io">>>>),
   Stack("S", <<E("A", <<1, 2>>), E("B", <<3>>), E("A", <<4>>)>>),
   Stack("S", <<E("C", <<1>>), E("A", <<>>)>>),
   [type |-> "unknown", name |-> "S"],
   [type |-> "malformed", name |-> "S"]}

MCRegistered == {"User", "Io"}
=============================================================================
