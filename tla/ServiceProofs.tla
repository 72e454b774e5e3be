--------------------------- MODULE ServiceProofs ---------------------------
(***************************************************************************)
(* Proofs about module Service, for any number of clients, calls, retries  *)
(* and ids.  The server and its clients never agree on anything: a client  *)
(* may have left when its request is read, and a request to free an id may *)
(* be read long after the thread that sent it has gone on.  The inductive  *)
(* invariant says what each side may still rely on.                        *)
(***************************************************************************)
EXTENDS Service, FiniteSetTheorems, SequenceTheorems, TLAPS

(* A call that lasts has turns of the retry loop left, and each of them    *)
(* wrote one request at most.                                              *)
CallInv ==
  \A c \in Clients :
    /\ state[c] = "idle" => tries[c] = 0
    /\ state[c] # "idle" =>
         /\ calls[c] > 0
         /\ tries[c] < MaxRetries
         /\ held[c] = NoId
         /\ link[Conn(c)] # "none"
         /\ copies[Conn(c)] <= tries[c] + 1
         /\ state[c] = "write" => copies[Conn(c)] <= tries[c]

(* The life of a connection.  An answer is there only for a client that    *)
(* still waits, and only on a connection that the server has closed; a     *)
(* client that left a connection the server has not closed was told so.    *)
ConnInv ==
  /\ serving = {} \/ \E x \in Conns : serving = {x}
  /\ \A x \in Conns :
       /\ x[2] > calls[x[1]] => link[x] = "none" /\ copies[x] = 0 /\ request[x] = Enter
       /\ answer[x] # NoReply => link[x] = "closed" /\ Alive(x)
       /\ x \in serving => link[x] = "open"
       /\ link[x] \in {"backlog", "open"} => Alive(x) \/ x \in told

(* A request to free an id that the server may still read. *)
Pending(y) ==
  /\ request[y].op = "exit"
  /\ link[y] \in {"backlog", "open"}
  /\ y \notin serving

(* An id that is to be freed is marked as used, nobody has it, and it is   *)
(* to be freed once: the late request cannot take it from its next owner.  *)
PendingInv ==
  /\ \A y \in Conns : Pending(y) =>
       request[y].id \in used /\ \A c \in Clients : request[y].id \notin OnTheWay(c)
  /\ \A y, z \in Conns : Pending(y) /\ Pending(z) /\ y # z => request[y].id # request[z].id

(* No later grant gave out the id of grant k. *)
Latest(k) == \A j \in k + 1 .. Len(grants) : grants[j].id # grants[k].id

(* Only a request to enter is answered with an id, the connection of a     *)
(* grant is closed or about to be, and an id on its way to a client goes   *)
(* where it was granted last.                                              *)
GrantInv ==
  /\ OneGrantPerCall
  /\ \A x \in Conns :
       /\ answer[x].tag = "thread" => request[x].op = "enter"
       /\ x \in serving /\ result.tag = "thread" => request[x].op = "enter"
  /\ \A k \in 1 .. Len(grants) :
       /\ link[grants[k].conn] = "closed" \/ grants[k].conn \in serving
       /\ Latest(k) => \A x \in Conns :
            answer[x] = Granted(grants[k].id) \/ (x \in serving /\ result = Granted(grants[k].id))
              => x = grants[k].conn

(* The server has freed an id on this connection, and its client has not   *)
(* read so yet.                                                            *)
Succeeded(y) == answer[y].tag = "none" \/ (y \in serving /\ result.tag = "none")

(* NoSilentLeak, with what makes it inductive: a call to give an id back   *)
(* accounts for it only until it succeeds.                                 *)
Accounted(k) ==
  LET x == grants[k].conn
      i == grants[k].id
  IN  \/ i \in OnTheWay(x[1])
      \/ x \in told
      \/ \E y \in Conns :
           /\ y[1] = x[1]
           /\ y[2] > x[2]
           /\ request[y] = Exit(i)
           /\ y \in told \/ (Alive(y) /\ ~ Succeeded(y))

LeakInv == \A k \in 1 .. Len(grants) : grants[k].id \in used /\ Latest(k) => Accounted(k)

IInv == TypeOK /\ CallInv /\ ConnInv /\ UniqueIds /\ PendingInv /\ GrantInv /\ LeakInv

-----------------------------------------------------------------------------
(* Connections.                                                            *)

(* A connection belongs to a call of a client. *)
LEMMA ConnsElements ==
  ASSUME NEW x \in Conns
  PROVE  x[1] \in Clients /\ x[2] \in 1 .. MaxCalls[x[1]] /\ x = <<x[1], x[2]>>
BY DEF Conns

(* Every call of a client has a connection. *)
LEMMA ConnsMembers ==
  ASSUME NEW c \in Clients, NEW n \in 1 .. MaxCalls[c]
  PROVE  <<c, n>> \in Conns
BY DEF Conns

(* The connection of a client that has called is its own. *)
LEMMA ConnOfCaller ==
  ASSUME TypeOK, NEW c \in Clients, calls[c] > 0
  PROVE  Conn(c) \in Conns /\ Conn(c)[1] = c /\ Conn(c)[2] = calls[c]
<1>1. calls[c] \in 1 .. MaxCalls[c]
  BY ServiceAssumption DEF TypeOK
<1> QED
  BY <1>1, ConnsMembers DEF Conn

(* The connection of a call that lasts. *)
LEMMA ConnOfCall ==
  ASSUME TypeOK, CallInv, NEW c \in Clients, state[c] # "idle"
  PROVE  Conn(c) \in Conns /\ Conn(c)[1] = c /\ Conn(c)[2] = calls[c] /\ Alive(Conn(c))
BY ConnOfCaller DEF CallInv, Alive, Conn

(* The connection of a new call. *)
LEMMA ConnOfNewCall ==
  ASSUME TypeOK, NEW c \in Clients, Call(c)
  PROVE  LET x == <<c, calls[c] + 1>> IN x \in Conns /\ x[1] = c /\ x[2] > calls[c]
<1>1. calls[c] \in Nat /\ MaxCalls[c] \in Nat /\ calls[c] < MaxCalls[c]
  BY ServiceAssumption DEF TypeOK, Call
<1>2. calls[c] + 1 \in 1 .. MaxCalls[c]
  BY <1>1
<1> QED
  BY <1>1, <1>2, ConnsMembers

(* The call of a connection whose client's end is open still lasts. *)
LEMMA AliveMeans ==
  ASSUME NEW x, Alive(x)
  PROVE  x = Conn(x[1]) /\ state[x[1]] # "idle"
BY DEF Alive

-----------------------------------------------------------------------------
(* The steps of the service, one effect each: what Write, ReadEof and      *)
(* Timeout have in common is that send_request returns an error.           *)

Sends(c) ==
  /\ state[c] = "write"
  /\ copies' = [copies EXCEPT ![Conn(c)] = @ + 1]
  /\ state' = [state EXCEPT ![c] = "read"]
  /\ UNCHANGED <<calls, tries, held, request, told, answer, link, serving, result, idVars, up, stop>>

Retries(c) ==
  /\ state[c] = "read"
  /\ tries[c] + 1 < MaxRetries
  /\ tries' = [tries EXCEPT ![c] = @ + 1]
  /\ state' = [state EXCEPT ![c] = "write"]
  /\ UNCHANGED <<calls, held, request, told, answer, link, copies, serving, result, idVars, up, stop>>

Leaves(c) ==
  /\ state[c] # "idle"
  /\ Returns(c)
  /\ UNCHANGED <<link, copies, serving, result, idVars, up, stop>>

Quiet == UNCHANGED <<clientVars, link, copies, answer, serving, result, idVars, up>>

ClientCase(c) == Call(c) \/ Sends(c) \/ Retries(c) \/ Leaves(c) \/ Read(c)

ServerCase(x) == Accept(x) \/ ServerRead(x) \/ ServerWrite(x)

(* Every step of the service is one of these. *)
LEMMA StepCases ==
  ASSUME [Next]_vars
  PROVE  \/ \E c \in Clients : ClientCase(c)
         \/ \E x \in Conns : ServerCase(x)
         \/ ServerExit
         \/ Quiet
<1>1. ASSUME NEW c \in Clients, Write(c)
      PROVE  Sends(c) \/ Leaves(c)
  BY <1>1 DEF Write, Sends, Leaves
<1>2. ASSUME NEW c \in Clients, ReadEof(c)
      PROVE  Leaves(c)
  BY <1>2 DEF ReadEof, Leaves
<1>3. ASSUME NEW c \in Clients, Timeout(c)
      PROVE  Retries(c) \/ Leaves(c)
  BY <1>3 DEF Timeout, TimedOut, Retries, Leaves
<1>4. ASSUME NEW c \in Clients, Call(c) \/ ClientStep(c)
      PROVE  ClientCase(c)
  BY <1>1, <1>2, <1>3, <1>4 DEF ClientStep, ClientCase
<1>5. CASE Shutdown \/ Finished \/ UNCHANGED vars
  BY <1>5 DEF Shutdown, Finished, vars, Quiet, clientVars, idVars
<1>6. CASE ServerStep
  BY <1>6 DEF ServerStep, ServerCase
<1> QED
  BY <1>4, <1>5, <1>6 DEF Next

-----------------------------------------------------------------------------
(* Types, calls and connections.                                           *)

(* What is in a response. *)
LEMMA RepliesFields ==
  /\ NoReply.id = NoId /\ NoReply.tag = "no reply"
  /\ \A t : Reply(t).tag = t /\ Reply(t).id = NoId
  /\ \A i : Granted(i).tag = "thread" /\ Granted(i).id = i
BY DEF NoReply, Reply, Granted

(* The responses that the server may write. *)
LEMMA RepliesCases ==
  ASSUME NEW r \in Replies
  PROVE  /\ r # NoReply
         /\ \/ r.tag = "thread" /\ r.id \in Ids /\ r = Granted(r.id)
            \/ r.tag \in {"none", "invalid", "unknown"} /\ r.id = NoId
<1>1. CASE r \in {Reply(t) : t \in {"none", "invalid", "unknown"}}
  <2>1. PICK t \in {"none", "invalid", "unknown"} : r = Reply(t)
    BY <1>1
  <2>2. r.tag = t /\ r.id = NoId
    BY <2>1, RepliesFields
  <2> QED
    BY <2>2, RepliesFields
<1>2. CASE r \in {Granted(i) : i \in Ids}
  <2>1. PICK i \in Ids : r = Granted(i)
    BY <1>2
  <2>2. r.tag = "thread" /\ r.id = i
    BY <2>1, RepliesFields
  <2> QED
    BY <2>1, <2>2, RepliesFields
<1> QED
  BY <1>1, <1>2 DEF Replies

(* The mark for no id is not an id. *)
LEMMA NoIdIsNone == NoId \notin Ids
BY DEF NoId, Ids

(* A response stands for the id in it, if it has one. *)
LEMMA GrantedById ==
  ASSUME NEW r \in Replies \cup {NoReply}, NEW i \in Ids
  PROVE  r = Granted(i) <=> r.id = i
<1>1. Granted(i).id = i
  BY RepliesFields
<1>2. ASSUME r.id = i
      PROVE  r = Granted(i)
  <2>1. r # NoReply
    BY <1>2, RepliesFields, NoIdIsNone
  <2> QED
    BY <1>2, <2>1, RepliesCases, NoIdIsNone
<1> QED
  BY <1>1, <1>2

(* What is in a request. *)
LEMMA RequestsFields ==
  /\ Enter \in Requests /\ Enter.op = "enter" /\ Enter.id = NoId
  /\ \A i : Exit(i).op = "exit" /\ Exit(i).id = i
  /\ \A i \in Ids : Exit(i) \in Requests
BY DEF Enter, Exit, Requests

(* A request asks for an id, or gives one back. *)
LEMMA RequestsCases ==
  ASSUME NEW r \in Requests
  PROVE  r = Enter \/ (r.op = "exit" /\ r.id \in Ids /\ r = Exit(r.id))
BY DEF Enter, Exit, Requests

(* ThreadId::next stays inside the table. *)
LEMMA ScanInIds ==
  ASSUME TypeOK, NEW k \in Ids
  PROVE  Scan(k) \in Ids /\ (Scan(k) + 1) % MaxThreads \in Ids
BY ServiceAssumption DEF TypeOK, Scan, Ids

(* The server serves one connection at a time. *)
LEMMA SmallServing ==
  /\ Cardinality({}) <= 1
  /\ \A x : Cardinality({x}) <= 1
BY FS_EmptySet, FS_Singleton

(* Every step keeps the types. *)
LEMMA TypeStep ==
  ASSUME TypeOK, CallInv, ConnInv, [Next]_vars
  PROVE  TypeOK'
<1> USE ServiceAssumption DEF TypeOK
<1>1. ASSUME NEW c \in Clients, Call(c)
      PROVE  TypeOK'
  <2>1. <<c, calls[c] + 1>> \in Conns
    BY <1>1, ConnsMembers DEF Call
  <2>2. request' \in [Conns -> Requests]
    BY <1>1, <2>1, RequestsFields DEF Call
  <2>3. calls' \in [Clients -> Nat] /\ \A d \in Clients : calls'[d] <= MaxCalls[d]
    BY <1>1 DEF Call
  <2>4. link' \in [Conns -> {"none", "backlog", "open", "closed"}] /\ told' \subseteq Conns
    BY <1>1, <2>1 DEF Call
  <2>5. state' \in [Clients -> {"idle", "write", "read"}] /\ held' \in [Clients -> Ids \cup {NoId}]
    BY <1>1 DEF Call
  <2> QED
    BY <1>1, <2>2, <2>3, <2>4, <2>5 DEF Call, idVars
<1>2. ASSUME NEW c \in Clients, Sends(c)
      PROVE  TypeOK'
  <2>1. Conn(c) \in Conns /\ copies[Conn(c)] + 1 \in 0 .. MaxRetries
    BY <1>2, ConnOfCall DEF Sends, CallInv
  <2>2. copies' \in [Conns -> 0 .. MaxRetries] /\ state' \in [Clients -> {"idle", "write", "read"}]
    BY <1>2, <2>1 DEF Sends
  <2> QED
    BY <1>2, <2>2 DEF Sends, idVars
<1>3. ASSUME NEW c \in Clients, Retries(c)
      PROVE  TypeOK'
  BY <1>3 DEF Retries, idVars
<1>4. ASSUME NEW c \in Clients, Leaves(c)
      PROVE  TypeOK'
  BY <1>4, ConnOfCall DEF Leaves, Returns, idVars
<1>5. ASSUME NEW c \in Clients, Read(c)
      PROVE  TypeOK'
  <2>1. Conn(c) \in Conns
    BY <1>5, ConnOfCall DEF Read
  <2>2. answer[Conn(c)].id \in Ids \cup {NoId}
    BY <1>5, <2>1, RepliesCases DEF Read
  <2> QED
    BY <1>5, <2>1, <2>2 DEF Read, idVars
<1>6. ASSUME NEW x \in Conns, Accept(x)
      PROVE  TypeOK'
  BY <1>6 DEF Accept, clientVars, idVars
<1>7. ASSUME NEW x \in Conns, ServerRead(x)
      PROVE  TypeOK'
  <2> DEFINE Typed == /\ used' \subseteq Ids
                      /\ nextId' \in Ids
                      /\ grants' \in Seq([conn : Conns, id : Ids])
                      /\ result' \in Replies
  <2>1. Typed
    <3>1. ASSUME NEW k \in Ids,
                 used' = used \cup {Scan(k)},
                 nextId' = (Scan(k) + 1) % MaxThreads,
                 grants' = Append(grants, [conn |-> x, id |-> Scan(k)]),
                 result' = Granted(Scan(k))
          PROVE  Typed
      BY <3>1, ScanInIds DEF Replies
    <3>2. CASE UNCHANGED idVars /\ result' \in {Reply("unknown"), Reply("invalid")}
      BY <3>2 DEF idVars, Replies
    <3>3. CASE used' = used \ {request[x].id} /\ result' = Reply("none")
                 /\ UNCHANGED <<nextId, grants>>
      BY <3>3 DEF Replies
    <3> QED
      BY <1>7, <3>1, <3>2, <3>3 DEF ServerRead, Handle, Free
  <2>2. Cardinality(serving') <= 1
    BY <1>7, SmallServing DEF ServerRead
  <2> QED
    BY <1>7, <2>1, <2>2 DEF ServerRead, clientVars
<1>8. ASSUME NEW x \in Conns, ServerWrite(x)
      PROVE  TypeOK'
  BY <1>8, SmallServing DEF ServerWrite, clientVars, idVars
<1>9. CASE ServerExit
  BY <1>9 DEF ServerExit, clientVars, idVars
<1>10. CASE Quiet
  <2>1. stop' \in BOOLEAN
    BY DEF Next, vars, Call, ClientStep, Write, Read, ReadEof, Timeout, TimedOut,
           ServerStep, Accept, ServerRead, ServerWrite, ServerExit, Shutdown, Finished
  <2> QED
    BY <1>10, <2>1 DEF Quiet, clientVars, idVars
<1> QED
  BY <1>1, <1>2, <1>3, <1>4, <1>5, <1>6, <1>7, <1>8, <1>9, <1>10, StepCases
     DEF ClientCase, ServerCase

(* Every step keeps what is known of a call. *)
LEMMA CallStep ==
  ASSUME TypeOK, CallInv, ConnInv, [Next]_vars
  PROVE  CallInv'
<1>0. /\ calls \in [Clients -> Nat]
      /\ state \in [Clients -> {"idle", "write", "read"}]
      /\ tries \in [Clients -> 0 .. MaxRetries]
      /\ held \in [Clients -> Ids \cup {NoId}]
      /\ link \in [Conns -> {"none", "backlog", "open", "closed"}]
      /\ copies \in [Conns -> 0 .. MaxRetries]
  BY DEF TypeOK
<1> USE <1>0, ServiceAssumption DEF CallInv, Conn
<1>1. ASSUME NEW c \in Clients, Call(c)
      PROVE  CallInv'
  <2>1. <<c, calls[c] + 1>> \in Conns /\ copies[<<c, calls[c] + 1>>] = 0
    BY <1>1, ConnsMembers DEF Call, ConnInv
  <2>2. ASSUME NEW d \in Clients, d # c
        PROVE  /\ calls'[d] = calls[d] /\ state'[d] = state[d] /\ held'[d] = held[d]
               /\ state[d] # "idle" => link'[<<d, calls[d]>>] = link[<<d, calls[d]>>]
    BY <1>1, <2>1, <2>2, ConnOfCall DEF Call
  <2>3. state'[c] # "idle" =>
          calls'[c] = calls[c] + 1 /\ link'[<<c, calls[c] + 1>>] = "backlog" /\ held'[c] = NoId
    BY <1>1, <2>1 DEF Call
  <2>4. state[c] = "idle" /\ tries' = tries /\ copies' = copies
    BY <1>1 DEF Call
  <2>5. ASSUME NEW d \in Clients
        PROVE  /\ state'[d] = "idle" => tries'[d] = 0
               /\ state'[d] # "idle" =>
                    /\ calls'[d] > 0 /\ tries'[d] < MaxRetries /\ held'[d] = NoId
                    /\ link'[<<d, calls'[d]>>] # "none"
                    /\ copies'[<<d, calls'[d]>>] <= tries'[d] + 1
                    /\ state'[d] = "write" => copies'[<<d, calls'[d]>>] <= tries'[d]
    <3>1. CASE d = c
      <4>1. state'[c] # "idle" => calls'[c] = calls[c] + 1 /\ copies'[<<c, calls'[c]>>] = 0
        BY <2>1, <2>3, <2>4
      <4>2. tries'[c] = 0
        BY <2>4
      <4> QED
        BY <2>3, <3>1, <4>1, <4>2
    <3>2. CASE d # c
      BY <2>2, <2>4, <3>2
    <3> QED
      BY <3>1, <3>2
  <2> QED
    BY <2>5
<1>2. ASSUME NEW c \in Clients, Sends(c)
      PROVE  CallInv'
  BY <1>2, ConnOfCall DEF Sends
<1>3. ASSUME NEW c \in Clients, Retries(c)
      PROVE  CallInv'
  BY <1>3, ConnOfCall DEF Retries
<1>4. ASSUME NEW c \in Clients, Leaves(c)
      PROVE  CallInv'
  BY <1>4 DEF Leaves, Returns
<1>5. ASSUME NEW c \in Clients, Read(c)
      PROVE  CallInv'
  BY <1>5 DEF Read
<1>6. ASSUME NEW x \in Conns, Accept(x)
      PROVE  CallInv'
  BY <1>6, ConnOfCall DEF Accept, clientVars
<1>7. ASSUME NEW x \in Conns, ServerRead(x)
      PROVE  CallInv'
  BY <1>7, ConnOfCall DEF ServerRead, clientVars
<1>8. ASSUME NEW x \in Conns, ServerWrite(x)
      PROVE  CallInv'
  BY <1>8, ConnOfCall DEF ServerWrite, clientVars
<1>9. CASE ServerExit
  BY <1>9, ConnOfCall DEF ServerExit, clientVars
<1>10. CASE Quiet
  BY <1>10 DEF Quiet, clientVars
<1> QED
  BY <1>1, <1>2, <1>3, <1>4, <1>5, <1>6, <1>7, <1>8, <1>9, <1>10, StepCases
     DEF ClientCase, ServerCase

(* What a step leaves of the clients that do not take it. *)
LEMMA AliveStep ==
  ASSUME TypeOK, CallInv, [Next]_vars, NEW x \in Conns, Alive(x)
  PROVE  Alive(x)' \/ Leaves(x[1]) \/ Read(x[1])
<1>1. x[1] \in Clients /\ x = <<x[1], calls[x[1]]>> /\ state[x[1]] # "idle"
  BY ConnsElements DEF Alive, Conn
<1> SUFFICES ASSUME ~ Leaves(x[1]), ~ Read(x[1])
             PROVE  calls'[x[1]] = calls[x[1]] /\ state'[x[1]] # "idle"
  BY <1>1 DEF Alive, Conn
<1>2. ASSUME NEW c \in Clients, ClientCase(c)
      PROVE  calls'[x[1]] = calls[x[1]] /\ state'[x[1]] # "idle"
  BY <1>1, <1>2 DEF TypeOK, ClientCase, Call, Sends, Retries, Leaves, Read, Returns
<1>3. CASE UNCHANGED clientVars
  BY <1>1, <1>3 DEF clientVars
<1> QED
  BY <1>2, <1>3, StepCases DEF ServerCase, Accept, ServerRead, ServerWrite, ServerExit, Quiet

(* A client is inside a call once it has begun it, and not after it. *)
LEMMA AliveBefore ==
  ASSUME TypeOK, CallInv, [Next]_vars, NEW x \in Conns, Alive(x)'
  PROVE  Alive(x) \/ (Call(x[1]) /\ x = <<x[1], calls[x[1]] + 1>>)
<1>1. x[1] \in Clients /\ x = <<x[1], calls'[x[1]]>> /\ state'[x[1]] # "idle"
  BY ConnsElements DEF Alive, Conn
<1>2. ASSUME NEW c \in Clients, ClientCase(c)
      PROVE  Alive(x) \/ (Call(x[1]) /\ x = <<x[1], calls[x[1]] + 1>>)
  <2>1. CASE Call(c) /\ x[1] = c
    BY <1>1, <2>1 DEF Call, TypeOK
  <2>2. CASE Call(c) /\ x[1] # c
    BY <1>1, <2>2 DEF Call, TypeOK, Alive, Conn
  <2>3. CASE Sends(c) \/ Retries(c) \/ Leaves(c) \/ Read(c)
    BY <1>1, <2>3 DEF Sends, Retries, Leaves, Read, Returns, TypeOK, Alive, Conn
  <2> QED
    BY <1>2, <2>1, <2>2, <2>3 DEF ClientCase
<1>3. CASE UNCHANGED clientVars
  BY <1>1, <1>3 DEF clientVars, Alive, Conn
<1> QED
  BY <1>2, <1>3, StepCases DEF ServerCase, Accept, ServerRead, ServerWrite, ServerExit, Quiet

(* What a step does to a connection, one variable at a time. *)
LEMMA LinkStep ==
  ASSUME TypeOK, CallInv, ConnInv, [Next]_vars, NEW x \in Conns
  PROVE  \/ link'[x] = link[x]
         \/ link[x] = "none" /\ link'[x] = "backlog" /\ Call(x[1]) /\ x = <<x[1], calls[x[1]] + 1>>
         \/ link[x] = "backlog" /\ link'[x] = "open" /\ Accept(x)
         \/ link[x] = "open" /\ link'[x] = "closed" /\ ServerWrite(x)
         \/ link[x] = "backlog" /\ link'[x] = "closed" /\ ServerExit
<1>0. link \in [Conns -> {"none", "backlog", "open", "closed"}] /\ x[1] \in Clients
  BY ConnsElements DEF TypeOK
<1>1. ASSUME NEW c \in Clients, Call(c)
      PROVE  \/ link'[x] = link[x]
             \/ /\ link[x] = "none" /\ link'[x] = "backlog"
                /\ Call(x[1]) /\ x = <<x[1], calls[x[1]] + 1>>
  <2>1. CASE x # <<c, calls[c] + 1>>
    BY <1>0, <1>1, <2>1 DEF Call
  <2>2. CASE x = <<c, calls[c] + 1>>
    <3>1. x[1] = c /\ x[2] > calls[x[1]]
      BY <2>2 DEF TypeOK
    <3> QED
      BY <1>0, <1>1, <2>2, <3>1 DEF Call, ConnInv
  <2> QED
    BY <2>1, <2>2
<1>2. ASSUME NEW c \in Clients, ClientCase(c), ~ Call(c)
      PROVE  link' = link
  BY <1>2 DEF ClientCase, Sends, Retries, Leaves, Read
<1>3. ASSUME NEW y \in Conns, Accept(y)
      PROVE  link'[x] = link[x] \/ (link[x] = "backlog" /\ link'[x] = "open" /\ Accept(x))
  BY <1>0, <1>3 DEF Accept
<1>4. ASSUME NEW y \in Conns, ServerWrite(y)
      PROVE  link'[x] = link[x] \/ (link[x] = "open" /\ link'[x] = "closed" /\ ServerWrite(x))
  BY <1>0, <1>4 DEF ServerWrite, ConnInv
<1>5. CASE ServerExit
  BY <1>0, <1>5 DEF ServerExit
<1>6. ASSUME NEW y \in Conns, ServerRead(y)
      PROVE  link' = link
  BY <1>6 DEF ServerRead
<1> QED
  BY <1>1, <1>2, <1>3, <1>4, <1>5, <1>6, StepCases DEF ServerCase, Quiet

(* An answer comes from the server, and goes with its client. *)
LEMMA AnswerStep ==
  ASSUME TypeOK, CallInv, [Next]_vars, NEW x \in Conns
  PROVE  \/ answer'[x] = answer[x]
         \/ answer'[x] = NoReply
         \/ answer'[x] = result /\ Alive(x) /\ ServerWrite(x)
<1>0. answer \in [Conns -> Replies \cup {NoReply}]
  BY DEF TypeOK
<1>1. ASSUME NEW c \in Clients, Leaves(c) \/ Read(c)
      PROVE  answer'[x] = answer[x] \/ answer'[x] = NoReply
  BY <1>0, <1>1 DEF Leaves, Read, Returns
<1>2. ASSUME NEW c \in Clients, ClientCase(c), ~ (Leaves(c) \/ Read(c))
      PROVE  answer' = answer
  BY <1>2 DEF ClientCase, Call, Sends, Retries
<1>3. ASSUME NEW y \in Conns, ServerWrite(y)
      PROVE  answer'[x] = answer[x] \/ (answer'[x] = result /\ Alive(x) /\ ServerWrite(x))
  BY <1>0, <1>3 DEF ServerWrite
<1>4. ASSUME NEW y \in Conns, Accept(y) \/ ServerRead(y)
      PROVE  answer' = answer
  BY <1>4 DEF Accept, ServerRead
<1> QED
  BY <1>1, <1>2, <1>3, <1>4, StepCases DEF ServerCase, ServerExit, Quiet

(* A client that leaves takes its answer with it. *)
LEMMA LeaveClears ==
  ASSUME TypeOK, CallInv, NEW c \in Clients, Leaves(c) \/ Read(c)
  PROVE  /\ answer'[Conn(c)] = NoReply
         /\ Leaves(c) => Conn(c) \in told'
BY ConnOfCall DEF Leaves, Read, Returns, TypeOK

(* Only ServerRead begins to serve a connection, only ServerWrite ends it. *)
LEMMA ServingStep ==
  ASSUME TypeOK, ConnInv, [Next]_vars
  PROVE  \/ serving' = serving /\ result' = result
         \/ \E x \in Conns : serving' = {x} /\ ServerRead(x)
         \/ \E x \in Conns : serving = {x} /\ serving' = {} /\ result' = NoReply /\ ServerWrite(x)
<1>1. ASSUME NEW c \in Clients, ClientCase(c)
      PROVE  serving' = serving /\ result' = result
  BY <1>1 DEF ClientCase, Call, Sends, Retries, Leaves, Read
<1> QED
  BY <1>1, StepCases DEF ConnInv, ServerCase, Accept, ServerRead, ServerWrite, ServerExit, Quiet

(* What a client has been told is not taken back. *)
LEMMA ToldGrows ==
  ASSUME [Next]_vars
  PROVE  told \subseteq told'
<1>1. ASSUME NEW c \in Clients, ClientCase(c)
      PROVE  told \subseteq told'
  BY <1>1 DEF ClientCase, Call, Sends, Retries, Leaves, Read, Returns
<1> QED
  BY <1>1, StepCases
     DEF ServerCase, Accept, ServerRead, ServerWrite, ServerExit, Quiet, clientVars

(* Nothing happens on a connection before its call. *)
LEMMA FreshStep ==
  ASSUME TypeOK, CallInv, ConnInv, [Next]_vars, NEW x \in Conns, x[2] > calls'[x[1]]
  PROVE  x[2] > calls[x[1]] /\ copies'[x] = 0 /\ request'[x] = Enter
<1>0. x[1] \in Clients /\ x[2] \in Nat /\ x = <<x[1], x[2]>>
  BY ConnsElements
<1>1. /\ calls \in [Clients -> Nat] /\ copies \in [Conns -> 0 .. MaxRetries]
      /\ request \in [Conns -> Requests]
  BY DEF TypeOK
<1>2. ASSUME NEW c \in Clients, Call(c)
      PROVE  x[2] > calls[x[1]] /\ copies'[x] = copies[x] /\ request'[x] = request[x]
  BY <1>0, <1>1, <1>2 DEF Call
<1>3. ASSUME NEW c \in Clients, Sends(c)
      PROVE  x[2] > calls[x[1]] /\ copies'[x] = copies[x] /\ request'[x] = request[x]
  BY <1>0, <1>1, <1>3 DEF Sends, Conn
<1>4. ASSUME NEW c \in Clients, Retries(c) \/ Leaves(c) \/ Read(c)
      PROVE  calls' = calls /\ copies' = copies /\ request' = request
  BY <1>4 DEF Retries, Leaves, Read, Returns
<1>5. ASSUME NEW y \in Conns, ServerCase(y)
      PROVE  calls' = calls /\ copies'[x] \in {0, copies[x]} /\ request' = request
  BY <1>1, <1>5 DEF ServerCase, Accept, ServerRead, ServerWrite, clientVars
<1>6. CASE ServerExit \/ Quiet
  BY <1>1, <1>6 DEF ServerExit, Quiet, clientVars, ConnInv
<1> QED
  BY <1>2, <1>3, <1>4, <1>5, <1>6, StepCases DEF ClientCase, ConnInv

(* Every step keeps what is known of a connection. *)
LEMMA ConnStep ==
  ASSUME TypeOK, CallInv, ConnInv, [Next]_vars
  PROVE  ConnInv'
<1>1. (serving = {} \/ \E x \in Conns : serving = {x})'
  BY ServingStep DEF ConnInv
<1>2. ASSUME NEW x \in Conns, x[2] > calls'[x[1]]
      PROVE  link'[x] = "none" /\ copies'[x] = 0 /\ request'[x] = Enter
  <2>1. link[x] = "none" /\ x[1] \in Clients
    BY <1>2, FreshStep, ConnsElements DEF ConnInv
  <2>2. ~ (Call(x[1]) /\ x = <<x[1], calls[x[1]] + 1>>)
    BY <1>2, <2>1 DEF Call, TypeOK
  <2> QED
    BY <1>2, <2>1, <2>2, FreshStep, LinkStep
<1>3. ASSUME NEW x \in Conns, answer'[x] # NoReply
      PROVE  link'[x] = "closed" /\ Alive(x)'
  <2>1. CASE answer'[x] = answer[x]
    <3>1. link[x] = "closed" /\ Alive(x)
      BY <1>3, <2>1 DEF ConnInv
    <3>2. ~ Leaves(x[1]) /\ ~ Read(x[1])
      BY <1>3, <3>1, AliveMeans, LeaveClears, ConnsElements
    <3> QED
      BY <3>1, <3>2, AliveStep, LinkStep
  <2>2. CASE Alive(x) /\ ServerWrite(x)
    BY <2>2 DEF ServerWrite, Alive, Conn, clientVars, TypeOK
  <2> QED
    BY <1>3, <2>1, <2>2, AnswerStep
<1>4. ASSUME NEW x \in Conns, x \in serving'
      PROVE  link'[x] = "open"
  <2>1. CASE x \in serving /\ serving' = serving
    <3>1. link[x] = "open" /\ serving' # {}
      BY <2>1 DEF ConnInv
    <3> QED
      BY <3>1, LinkStep DEF ServerWrite
  <2>2. CASE ServerRead(x)
    BY <2>2 DEF ServerRead
  <2> QED
    BY <1>4, <2>1, <2>2, ServingStep
<1>5. ASSUME NEW x \in Conns, link'[x] \in {"backlog", "open"}
      PROVE  Alive(x)' \/ x \in told'
  <2>1. CASE link[x] \in {"backlog", "open"}
    <3>1. CASE x \in told
      BY <3>1, ToldGrows
    <3>2. CASE Alive(x)
      <4>1. answer[x] = NoReply /\ x = Conn(x[1]) /\ x[1] \in Clients
        BY <2>1, <3>2, AliveMeans, ConnsElements DEF ConnInv
      <4>2. ~ Read(x[1])
        BY <4>1 DEF Read
      <4> QED
        BY <3>2, <4>1, <4>2, AliveStep, LeaveClears
    <3> QED
      BY <2>1, <3>1, <3>2 DEF ConnInv
  <2>2. CASE Call(x[1]) /\ x = <<x[1], calls[x[1]] + 1>> /\ link[x] = "none"
    <3>1. x[1] \in Clients
      BY ConnsElements
    <3> QED
      BY <1>5, <2>2, <3>1 DEF Call, TypeOK, Alive, Conn
  <2> QED
    BY <1>5, <2>1, <2>2, LinkStep
<1> QED
  BY <1>1, <1>2, <1>3, <1>4, <1>5 DEF ConnInv

-----------------------------------------------------------------------------
(* Who has which id.  Every step has one of five effects on it.            *)

Keeps == used' = used /\ \A d \in Clients : OnTheWay(d)' = OnTheWay(d)

Drops(c) ==
  /\ used' = used
  /\ OnTheWay(c)' = {}
  /\ \A d \in Clients \ {c} : OnTheWay(d)' = OnTheWay(d)

Gets(c, i) ==
  /\ i \notin used
  /\ used' = used \cup {i}
  /\ OnTheWay(c)' = OnTheWay(c) \cup {i}
  /\ \A d \in Clients \ {c} : OnTheWay(d)' = OnTheWay(d)

Misses(i) ==
  /\ i \notin used
  /\ used' = used \cup {i}
  /\ \A d \in Clients : OnTheWay(d)' = OnTheWay(d)

Frees(i) ==
  /\ \A d \in Clients : i \notin OnTheWay(d) /\ OnTheWay(d)' = OnTheWay(d)
  /\ used' = used \ {i}

IdEffect ==
  \/ Keeps
  \/ \E c \in Clients : Drops(c) \/ \E i \in Ids : Gets(c, i)
  \/ \E i \in Ids : Misses(i) \/ Frees(i)

(* A client that waits has an id on its way in its answer, or in the       *)
(* response that the server is about to write, and nowhere else.           *)
LEMMA OnTheWayWaiting ==
  ASSUME CallInv, NEW c \in Clients, state[c] # "idle"
  PROVE  OnTheWay(c) = {i \in Ids : \/ answer[Conn(c)] = Granted(i)
                                    \/ Conn(c) \in serving /\ result = Granted(i)}
<1>1. held[c] \notin Ids
  BY DEF CallInv, Ids, NoId
<1> QED
  BY <1>1 DEF OnTheWay

(* A client outside send_request has the id it holds. *)
LEMMA OnTheWayIdle ==
  ASSUME NEW c \in Clients, state[c] = "idle"
  PROVE  OnTheWay(c) = {i \in Ids : held[c] = i}
BY DEF OnTheWay

(* The other clients do not see what a client does. *)
LEMMA OthersKeep ==
  ASSUME TypeOK, CallInv, NEW c \in Clients, ClientCase(c), NEW d \in Clients \ {c}
  PROVE  OnTheWay(d)' = OnTheWay(d)
<1>0. /\ calls \in [Clients -> Nat] /\ state \in [Clients -> {"idle", "write", "read"}]
      /\ held \in [Clients -> Ids \cup {NoId}] /\ answer \in [Conns -> Replies \cup {NoReply}]
  BY DEF TypeOK
<1>1. calls'[d] = calls[d] /\ state'[d] = state[d] /\ held'[d] = held[d]
  BY <1>0 DEF ClientCase, Call, Sends, Retries, Leaves, Read, Returns
<1>2. state[d] # "idle" => answer'[Conn(d)] = answer[Conn(d)]
  <2>1. CASE Leaves(c) \/ Read(c)
    <3>1. Conn(c) # Conn(d)
      BY DEF Conn
    <3> QED
      BY <1>0, <2>1, <3>1, ConnOfCall DEF Leaves, Read, Returns
  <2>2. CASE ~ (Leaves(c) \/ Read(c))
    BY <2>2 DEF ClientCase, Call, Sends, Retries
  <2> QED
    BY <2>1, <2>2
<1>3. serving' = serving /\ result' = result /\ Conn(d)' = Conn(d)
  BY <1>1 DEF ClientCase, Call, Sends, Retries, Leaves, Read, Conn
<1> QED
  BY <1>1, <1>2, <1>3 DEF OnTheWay

(* What a client does to its own ids. *)
LEMMA ClientEffect ==
  ASSUME TypeOK, CallInv, ConnInv, NEW c \in Clients, ClientCase(c)
  PROVE  /\ used' = used
         /\ Call(c) \/ Leaves(c) => OnTheWay(c)' = {}
         /\ Sends(c) \/ Retries(c) \/ Read(c) => OnTheWay(c)' = OnTheWay(c)
<1>0. /\ calls \in [Clients -> Nat] /\ state \in [Clients -> {"idle", "write", "read"}]
      /\ held \in [Clients -> Ids \cup {NoId}] /\ answer \in [Conns -> Replies \cup {NoReply}]
  BY DEF TypeOK
<1>1. used' = used
  BY DEF ClientCase, Call, Sends, Retries, Leaves, Read, idVars
<1>2. ASSUME Call(c)
      PROVE  OnTheWay(c)' = {}
  <2>1. <<c, calls[c] + 1>> \in Conns
    BY <1>2, ConnOfNewCall
  <2>2. answer[<<c, calls[c] + 1>>] = NoReply /\ <<c, calls[c] + 1>> \notin serving
    BY <1>0, <2>1 DEF ConnInv
  <2>3. /\ Conn(c)' = <<c, calls[c] + 1>> /\ answer' = answer /\ serving' = serving
        /\ held'[c] = NoId
    BY <1>0, <1>2 DEF Call, Conn
  <2>4. \A i \in Ids : NoReply # Granted(i) /\ NoId # i
    BY GrantedById, RepliesFields, NoIdIsNone
  <2> QED
    BY <2>2, <2>3, <2>4 DEF OnTheWay
<1>3. ASSUME Leaves(c)
      PROVE  OnTheWay(c)' = {}
  <2>1. held[c] = NoId
    BY <1>3 DEF Leaves, CallInv
  <2>2. state'[c] = "idle" /\ held'[c] = NoId
    BY <1>0, <1>3, <2>1 DEF Leaves, Returns
  <2> QED
    BY <2>2 DEF OnTheWay, NoId, Ids
<1>4. ASSUME Sends(c) \/ Retries(c)
      PROVE  OnTheWay(c)' = OnTheWay(c)
  BY <1>0, <1>4 DEF Sends, Retries, OnTheWay, Conn
<1>5. ASSUME Read(c)
      PROVE  OnTheWay(c)' = OnTheWay(c)
  <2>1. Conn(c) \in Conns /\ answer[Conn(c)] \in Replies /\ state[c] # "idle"
    BY <1>0, <1>5, ConnOfCall DEF Read
  <2>2. Conn(c) \notin serving
    BY <1>5, <2>1 DEF Read, ConnInv
  <2>3. \A i \in Ids : answer[Conn(c)] = Granted(i) <=> answer[Conn(c)].id = i
    BY <2>1, GrantedById
  <2>4. state'[c] = "idle" /\ held'[c] = answer[Conn(c)].id
    BY <1>0, <1>5 DEF Read
  <2>5. OnTheWay(c) = {i \in Ids : answer[Conn(c)] = Granted(i)}
    BY <2>1, <2>2, OnTheWayWaiting
  <2>6. OnTheWay(c)' = {i \in Ids : answer[Conn(c)].id = i}
    BY <2>4 DEF OnTheWay
  <2> QED
    BY <2>3, <2>5, <2>6
<1> QED
  BY <1>1, <1>2, <1>3, <1>4, <1>5

(* The three things the server may do with what it reads. *)
GrantsId(x, i) ==
  /\ request[x].op = "enter"
  /\ i \notin used
  /\ used' = used \cup {i}
  /\ grants' = Append(grants, [conn |-> x, id |-> i])
  /\ result' = Granted(i)

FreesId(x, i) ==
  /\ request[x] = Exit(i)
  /\ used' = used \ {i}
  /\ grants' = grants
  /\ result' = Reply("none")

Refuses ==
  /\ used' = used /\ grants' = grants
  /\ result' \in {Reply("unknown"), Reply("invalid")}

(* The server does one of these with what it reads. *)
LEMMA ServerReadCases ==
  ASSUME TypeOK, NEW x \in Conns, ServerRead(x)
  PROVE  Refuses \/ \E i \in Ids : GrantsId(x, i) \/ FreesId(x, i)
<1>0. request[x] \in Requests
  BY DEF TypeOK
<1>1. ASSUME NEW k \in Ids, Found(k), request[x].op = "enter",
             used' = used \cup {Scan(k)},
             grants' = Append(grants, [conn |-> x, id |-> Scan(k)]),
             result' = Granted(Scan(k))
      PROVE  \E i \in Ids : GrantsId(x, i)
  <2>1. Scan(k) \in Ids /\ Scan(k) \notin used
    BY <1>1, ScanInIds DEF Found
  <2> QED
    BY <1>1, <2>1 DEF GrantsId
<1>2. ASSUME request[x].op = "exit", used' = used \ {request[x].id},
             result' = Reply("none"), UNCHANGED <<nextId, grants>>
      PROVE  \E i \in Ids : FreesId(x, i)
  <2>1. request[x].id \in Ids /\ request[x] = Exit(request[x].id)
    BY <1>0, <1>2, RequestsCases, RequestsFields
  <2> QED
    BY <1>2, <2>1 DEF FreesId
<1>3. ASSUME result' \in {Reply("unknown"), Reply("invalid")}, UNCHANGED idVars
      PROVE  Refuses
  BY <1>3 DEF Refuses, idVars
<1> QED
  BY <1>1, <1>2, <1>3 DEF ServerRead, Handle, Free

(* A request that the server reads is of a connection it is not serving. *)
LEMMA ServerReadFacts ==
  ASSUME TypeOK, CallInv, ConnInv, NEW x \in Conns, ServerRead(x)
  PROVE  /\ serving = {} /\ serving' = {x} /\ link[x] = "open" /\ answer[x] = NoReply
         /\ link' = link /\ answer' = answer /\ calls' = calls /\ state' = state
         /\ held' = held /\ request' = request /\ told' = told
         /\ Alive(x)' <=> Alive(x)
BY DEF ServerRead, clientVars, ConnInv, Alive, Conn

(* A granted id is on its way to the client, if that still waits. *)
LEMMA ServerReadOnTheWay ==
  ASSUME TypeOK, CallInv, ConnInv, NEW x \in Conns, ServerRead(x), NEW d \in Clients
  PROVE  OnTheWay(d)' = OnTheWay(d) \cup
           {i \in Ids : result' = Granted(i) /\ x = Conn(d) /\ state[d] # "idle"}
<1>1. Conn(d)' = Conn(d)
  BY ServerReadFacts DEF Conn
<1> QED
  BY <1>1, ServerReadFacts DEF OnTheWay

(* A response that is written stays on its way to the client that waits,   *)
(* and is nobody's if there is none.                                       *)
LEMMA ServerWriteKeeps ==
  ASSUME TypeOK, CallInv, ConnInv, NEW x \in Conns, ServerWrite(x)
  PROVE  Keeps
<1>1. serving = {x} /\ link[x] = "open" /\ answer[x] = NoReply
  BY DEF ServerWrite, ConnInv
<1>2. ASSUME NEW d \in Clients
      PROVE  OnTheWay(d)' = OnTheWay(d)
  <2>1. Conn(d)' = Conn(d) /\ state' = state /\ held' = held /\ serving' = {}
    BY DEF ServerWrite, Conn, clientVars
  <2>2. CASE state[d] # "idle" /\ Conn(d) = x
    <3>1. Alive(x) /\ answer'[x] = result
      BY <2>2, ConnOfCall DEF ServerWrite, TypeOK
    <3>2. \A i \in Ids : NoReply # Granted(i)
      BY GrantedById, RepliesFields, NoIdIsNone
    <3> QED
      BY <1>1, <2>1, <2>2, <3>1, <3>2 DEF OnTheWay
  <2>3. CASE state[d] # "idle" /\ Conn(d) # x
    <3>1. answer'[Conn(d)] = answer[Conn(d)]
      BY <2>3, ConnOfCall DEF ServerWrite, TypeOK
    <3> QED
      BY <1>1, <2>1, <2>3, <3>1 DEF OnTheWay
  <2>4. CASE state[d] = "idle"
    BY <2>1, <2>4 DEF OnTheWay
  <2> QED
    BY <2>2, <2>3, <2>4
<1> QED
  BY <1>2 DEF Keeps, ServerWrite, idVars

(* What the server does with an id. *)
LEMMA ServerEffect ==
  ASSUME TypeOK, CallInv, ConnInv, PendingInv, NEW x \in Conns, ServerCase(x)
  PROVE  IdEffect
<1>1. CASE Accept(x)
  <2>1. Keeps
    BY <1>1 DEF Accept, Keeps, OnTheWay, Conn, clientVars, idVars
  <2> QED
    BY <2>1 DEF IdEffect
<1>2. CASE ServerWrite(x)
  BY <1>2, ServerWriteKeeps DEF IdEffect
<1>3. CASE ServerRead(x)
  <2>0. x[1] \in Clients
    BY ConnsElements
  <2>1. CASE Refuses
    <3>1. \A i \in Ids : result' # Granted(i)
      <4>1. result'.tag \in {"unknown", "invalid"}
        BY <2>1, RepliesFields DEF Refuses
      <4> QED
        BY <4>1, RepliesFields
    <3>2. Keeps
      BY <1>3, <2>1, <3>1, ServerReadOnTheWay DEF Keeps, Refuses
    <3> QED
      BY <3>2 DEF IdEffect
  <2>2. ASSUME NEW i \in Ids, FreesId(x, i)
        PROVE  IdEffect
    <3>1. \A j \in Ids : result' # Granted(j)
      BY <2>2, RepliesFields DEF FreesId
    <3>2. Pending(x) /\ request[x].id = i
      BY <1>3, <2>2, RequestsFields, ServerReadFacts DEF Pending, FreesId
    <3>3. Frees(i)
      BY <1>3, <2>2, <3>1, <3>2, ServerReadOnTheWay DEF Frees, FreesId, PendingInv
    <3> QED
      BY <3>3 DEF IdEffect
  <2>3. ASSUME NEW i \in Ids, GrantsId(x, i)
        PROVE  IdEffect
    <3>1. \A j \in Ids : result' = Granted(j) <=> j = i
      <4>1. Granted(i) \in Replies /\ Granted(i).id = i /\ result' = Granted(i)
        BY <2>3, RepliesFields DEF GrantsId, Replies
      <4> QED
        BY <4>1, GrantedById
    <3>2. \A d \in Clients : x = Conn(d) => d = x[1]
      BY DEF Conn
    <3>3. CASE Alive(x)
      <4>1. x = Conn(x[1]) /\ state[x[1]] # "idle"
        BY <3>3, AliveMeans
      <4>2. Gets(x[1], i)
        BY <1>3, <2>0, <2>3, <3>1, <3>2, <4>1, ServerReadOnTheWay DEF Gets, GrantsId
      <4> QED
        BY <2>0, <4>2 DEF IdEffect
    <3>4. CASE ~ Alive(x)
      <4>1. \A d \in Clients : ~ (x = Conn(d) /\ state[d] # "idle")
        BY <3>2, <3>4 DEF Alive
      <4>2. Misses(i)
        BY <1>3, <2>3, <4>1, ServerReadOnTheWay DEF Misses, GrantsId
      <4> QED
        BY <4>2 DEF IdEffect
    <3> QED
      BY <3>3, <3>4
  <2> QED
    BY <1>3, <2>1, <2>2, <2>3, ServerReadCases
<1> QED
  BY <1>1, <1>2, <1>3 DEF ServerCase

(* Every step has one of the five effects. *)
LEMMA IdEffects ==
  ASSUME TypeOK, CallInv, ConnInv, PendingInv, [Next]_vars
  PROVE  IdEffect
<1>1. ASSUME NEW c \in Clients, ClientCase(c)
      PROVE  IdEffect
  <2>1. CASE Call(c) \/ Leaves(c)
    BY <1>1, <2>1, ClientEffect, OthersKeep DEF IdEffect, Drops
  <2>2. CASE Sends(c) \/ Retries(c) \/ Read(c)
    BY <1>1, <2>2, ClientEffect, OthersKeep DEF IdEffect, Keeps
  <2> QED
    BY <1>1, <2>1, <2>2 DEF ClientCase
<1>2. CASE ServerExit \/ Quiet
  <2>1. Keeps
    BY <1>2 DEF ServerExit, Quiet, Keeps, OnTheWay, Conn, clientVars, idVars
  <2> QED
    BY <2>1 DEF IdEffect
<1> QED
  BY <1>1, <1>2, ServerEffect, StepCases

(* None of the effects gives an id to two clients. *)
LEMMA UniqueStep ==
  ASSUME UniqueIds, IdEffect
  PROVE  UniqueIds'
<1>1. ASSUME NEW c \in Clients, NEW i \in Ids, Gets(c, i)
      PROVE  UniqueIds'
  <2>1. ASSUME NEW d \in Clients
        PROVE  /\ OnTheWay(d)' \subseteq used'
               /\ d # c => OnTheWay(d)' = OnTheWay(d) /\ i \notin OnTheWay(d)
    BY <1>1, <2>1 DEF UniqueIds, Gets
  <2>2. OnTheWay(c)' = OnTheWay(c) \cup {i}
    BY <1>1 DEF Gets
  <2> QED
    BY <2>1, <2>2 DEF UniqueIds
<1>2. ASSUME NEW c \in Clients, Drops(c)
      PROVE  UniqueIds'
  <2>1. ASSUME NEW d \in Clients
        PROVE  OnTheWay(d)' \subseteq OnTheWay(d)
    BY <1>2 DEF Drops
  <2> QED
    BY <1>2, <2>1 DEF UniqueIds, Drops
<1>3. ASSUME NEW i \in Ids, Misses(i) \/ Frees(i)
      PROVE  UniqueIds'
  BY <1>3 DEF UniqueIds, Misses, Frees
<1>4. CASE Keeps
  BY <1>4 DEF UniqueIds, Keeps
<1> QED
  BY <1>1, <1>2, <1>3, <1>4 DEF IdEffect

(* A request is fixed when the call begins. *)
LEMMA RequestStep ==
  ASSUME TypeOK, [Next]_vars, NEW x \in Conns
  PROVE  \/ request'[x] = request[x]
         \/ /\ Call(x[1]) /\ x = <<x[1], calls[x[1]] + 1>>
            /\ request'[x] = IF held[x[1]] = NoId THEN Enter ELSE Exit(held[x[1]])
<1>0. request \in [Conns -> Requests] /\ x[1] \in Clients /\ x = <<x[1], x[2]>>
  BY ConnsElements DEF TypeOK
<1>1. ASSUME NEW c \in Clients, Call(c)
      PROVE  \/ request'[x] = request[x]
             \/ /\ Call(x[1]) /\ x = <<x[1], calls[x[1]] + 1>>
                /\ request'[x] = IF held[x[1]] = NoId THEN Enter ELSE Exit(held[x[1]])
  <2>1. CASE x # <<c, calls[c] + 1>>
    BY <1>0, <1>1, <2>1 DEF Call
  <2>2. CASE x = <<c, calls[c] + 1>>
    <3>1. x[1] = c
      BY <2>2
    <3> QED
      BY <1>0, <1>1, <2>2, <3>1 DEF Call
  <2> QED
    BY <2>1, <2>2
<1>2. ASSUME NEW c \in Clients, Sends(c) \/ Retries(c) \/ Leaves(c) \/ Read(c)
      PROVE  request' = request
  BY <1>2 DEF Sends, Retries, Leaves, Read, Returns
<1>3. ASSUME NEW y \in Conns, ServerCase(y)
      PROVE  request' = request
  BY <1>3 DEF ServerCase, Accept, ServerRead, ServerWrite, clientVars
<1>4. CASE ServerExit \/ Quiet
  BY <1>4 DEF ServerExit, Quiet, clientVars
<1> QED
  BY <1>1, <1>2, <1>3, <1>4, StepCases DEF ClientCase

(* A request to free an id becomes pending with the call that sends it,    *)
(* and then names the id its client had.                                   *)
LEMMA PendingBefore ==
  ASSUME TypeOK, CallInv, ConnInv, [Next]_vars, NEW y \in Conns, Pending(y)'
  PROVE  \/ Pending(y) /\ request'[y] = request[y]
         \/ /\ Call(y[1]) /\ y[1] \in Clients /\ y = <<y[1], calls[y[1]] + 1>>
            /\ held[y[1]] \in Ids
            /\ request'[y] = Exit(held[y[1]]) /\ request'[y].id = held[y[1]]
<1>0. y[1] \in Clients /\ y = <<y[1], y[2]>>
  BY ConnsElements
<1>1. request'[y].op = "exit" /\ link'[y] \in {"backlog", "open"} /\ y \notin serving'
  BY DEF Pending
<1>2. CASE request'[y] = request[y] /\ link[y] \in {"backlog", "open"}
  <2>1. y \notin serving
    <3>1. ASSUME y \in serving, ServerWrite(y)
          PROVE  FALSE
      BY <1>1, <3>1 DEF ServerWrite, TypeOK
    <3>2. \A x \in Conns : ServerRead(x) => serving = {}
      BY DEF ServerRead
    <3> QED
      BY <1>1, <3>1, <3>2, ServingStep
  <2> QED
    BY <1>1, <1>2, <2>1 DEF Pending
<1>3. CASE Call(y[1]) /\ y = <<y[1], calls[y[1]] + 1>>
  <2>1. request'[y] = IF held[y[1]] = NoId THEN Enter ELSE Exit(held[y[1]])
    BY <1>0, <1>3, ConnOfNewCall DEF Call, TypeOK
  <2>2. held[y[1]] # NoId
    BY <1>1, <2>1, RequestsFields
  <2>3. held[y[1]] \in Ids
    BY <1>0, <2>2 DEF TypeOK
  <2> QED
    BY <1>0, <1>3, <2>1, <2>2, <2>3, RequestsFields
<1> QED
  BY <1>1, <1>2, <1>3, LinkStep, RequestStep

(* Every step keeps what is known of requests to free an id. *)
LEMMA PendingStep ==
  ASSUME TypeOK, CallInv, ConnInv, UniqueIds, PendingInv, [Next]_vars
  PROVE  PendingInv'
<1>1. ASSUME NEW y \in Conns, Pending(y)'
      PROVE  request'[y].id \in used' /\ \A c \in Clients : request'[y].id \notin OnTheWay(c)'
  <2>1. CASE Pending(y) /\ request'[y] = request[y]
    <3>1. request[y].id \in used /\ \A c \in Clients : request[y].id \notin OnTheWay(c)
      BY <2>1 DEF PendingInv
    <3>2. ASSUME NEW x \in Conns, ServerRead(x), NEW i \in Ids, FreesId(x, i)
          PROVE  request[y].id # i
      <4>1. Pending(x) /\ request[x].id = i /\ x # y
        BY <1>1, <3>2, RequestsFields, ServerReadFacts DEF Pending, FreesId
      <4> QED
        BY <2>1, <4>1 DEF PendingInv
    <3>3. request[y].id \in used'
      <4>1. ASSUME NEW c \in Clients, ClientCase(c)
            PROVE  used' = used
        BY <4>1, ClientEffect
      <4>2. ASSUME NEW x \in Conns, ServerRead(x)
            PROVE  request[y].id \in used'
        <5>1. CASE Refuses
          BY <3>1, <5>1 DEF Refuses
        <5>2. ASSUME NEW i \in Ids, GrantsId(x, i)
              PROVE  request[y].id \in used'
          BY <3>1, <5>2 DEF GrantsId
        <5>3. ASSUME NEW i \in Ids, FreesId(x, i)
              PROVE  request[y].id \in used'
          BY <3>1, <3>2, <4>2, <5>3 DEF FreesId
        <5> QED
          BY <4>2, <5>1, <5>2, <5>3, ServerReadCases
      <4>3. ASSUME NEW x \in Conns, Accept(x) \/ ServerWrite(x)
            PROVE  used' = used
        BY <4>3 DEF Accept, ServerWrite, idVars
      <4>4. CASE ServerExit \/ Quiet
        BY <3>1, <4>4 DEF ServerExit, Quiet, idVars
      <4> QED
        BY <3>1, <4>1, <4>2, <4>3, <4>4, StepCases DEF ServerCase
    <3>4. ASSUME NEW c \in Clients
          PROVE  request[y].id \notin OnTheWay(c)'
      <4>1. IdEffect
        BY IdEffects
      <4>2. OnTheWay(c)' \subseteq OnTheWay(c) \cup (Ids \ used)
        BY <4>1 DEF IdEffect, Keeps, Drops, Gets, Misses, Frees
      <4> QED
        BY <3>1, <4>2
    <3> QED
      BY <2>1, <3>3, <3>4
  <2>2. CASE /\ Call(y[1]) /\ y[1] \in Clients /\ held[y[1]] \in Ids
             /\ request'[y].id = held[y[1]]
    <3>1. ClientCase(y[1])
      BY <2>2 DEF ClientCase
    <3>2. OnTheWay(y[1])' = {} /\ used' = used
      BY <2>2, <3>1, ClientEffect
    <3>3. \A d \in Clients \ {y[1]} : OnTheWay(d)' = OnTheWay(d)
      BY <2>2, <3>1, OthersKeep
    <3>4. held[y[1]] \in OnTheWay(y[1])
      BY <2>2 DEF OnTheWay
    <3> QED
      BY <2>2, <3>2, <3>3, <3>4 DEF UniqueIds
  <2> QED
    BY <1>1, <2>1, <2>2, PendingBefore
<1>2. ASSUME NEW y \in Conns, NEW z \in Conns, Pending(y)', Pending(z)', y # z,
             request'[y].id = request'[z].id
      PROVE  FALSE
  <2> DEFINE Old(x) == Pending(x) /\ request'[x] = request[x]
             New(x) == /\ Call(x[1]) /\ x[1] \in Clients /\ x = <<x[1], calls[x[1]] + 1>>
                       /\ held[x[1]] \in Ids /\ request'[x].id = held[x[1]]
  <2>1. (Old(y) \/ New(y)) /\ (Old(z) \/ New(z))
    BY <1>2, PendingBefore
  <2>2. ASSUME NEW x \in Conns, NEW w \in Conns, Old(x), New(w)
        PROVE  request'[x].id # request'[w].id
    <3>1. held[w[1]] \in OnTheWay(w[1])
      BY <2>2 DEF OnTheWay
    <3> QED
      BY <2>2, <3>1 DEF PendingInv
  <2>3. ~ (Old(y) /\ Old(z))
    BY <1>2 DEF PendingInv
  <2>4. ASSUME New(y), New(z)
        PROVE  FALSE
    <3>1. y[1] = z[1]
      BY <2>4 DEF Call, TypeOK
    <3> QED
      BY <1>2, <2>4, <3>1
  <2> QED
    BY <1>2, <2>1, <2>2, <2>3, <2>4
<1> QED
  BY <1>1, <1>2 DEF PendingInv

-----------------------------------------------------------------------------
(* Grants.                                                                 *)

(* The table of grants changes only when the server grants an id. *)
LEMMA GrantsStep ==
  ASSUME TypeOK, CallInv, ConnInv, [Next]_vars
  PROVE  \/ grants' = grants
         \/ \E x \in Conns, i \in Ids : ServerRead(x) /\ GrantsId(x, i)
<1>1. ASSUME NEW c \in Clients, ClientCase(c)
      PROVE  grants' = grants
  BY <1>1 DEF ClientCase, Call, Sends, Retries, Leaves, Read, idVars
<1>2. ASSUME NEW x \in Conns, ServerRead(x)
      PROVE  grants' = grants \/ \E i \in Ids : GrantsId(x, i)
  BY <1>2, ServerReadCases DEF Refuses, FreesId
<1> QED
  BY <1>1, <1>2, StepCases DEF ServerCase, Accept, ServerWrite, ServerExit, Quiet, idVars

(* What is in the table of grants. *)
LEMMA GrantsType ==
  ASSUME TypeOK, NEW k \in 1 .. Len(grants)
  PROVE  grants[k].conn \in Conns /\ grants[k].id \in Ids
<1>1. grants \in Seq([conn : Conns, id : Ids])
  BY DEF TypeOK
<1>2. grants[k] \in [conn : Conns, id : Ids]
  BY <1>1, ElementOfSeq
<1> QED
  BY <1>2

(* A grant is put behind the earlier ones. *)
LEMMA GrantsAppended ==
  ASSUME TypeOK, NEW x \in Conns, NEW i \in Ids, GrantsId(x, i)
  PROVE  /\ Len(grants) \in Nat /\ Len(grants') = Len(grants) + 1
         /\ \A k \in 1 .. Len(grants) : grants'[k] = grants[k]
         /\ grants'[Len(grants')].conn = x /\ grants'[Len(grants')].id = i
BY DEF TypeOK, GrantsId

(* The connection of a grant has seen its call, and stays as it is. *)
LEMMA GrantedConns ==
  ASSUME TypeOK, CallInv, ConnInv, GrantInv, [Next]_vars, NEW k \in 1 .. Len(grants)
  PROVE  /\ grants[k].conn[2] <= calls[grants[k].conn[1]]
         /\ link'[grants[k].conn] = "closed" \/ grants[k].conn \in serving'
<1> DEFINE x == grants[k].conn
<1>1. x \in Conns
  BY GrantsType
<1>2. link[x] = "closed" \/ x \in serving
  BY DEF GrantInv
<1>3. link[x] # "none"
  BY <1>1, <1>2 DEF ConnInv
<1>4. x[2] \in Nat /\ calls[x[1]] \in Nat
  <2>1. x[1] \in Clients /\ x[2] \in 1 .. MaxCalls[x[1]]
    BY <1>1, ConnsElements
  <2> QED
    BY <2>1, ServiceAssumption DEF TypeOK
<1>5. x[2] <= calls[x[1]]
  BY <1>1, <1>3, <1>4 DEF ConnInv
<1>6. link'[x] = "closed" \/ x \in serving'
  <2>1. CASE link[x] = "closed"
    BY <1>1, <2>1, LinkStep
  <2>2. CASE x \in serving
    <3>1. ASSUME NEW y \in Conns, serving = {y}, ServerWrite(y)
          PROVE  link'[x] = "closed"
      BY <1>1, <2>2, <3>1 DEF ServerWrite, TypeOK
    <3>2. \A y \in Conns : ServerRead(y) => serving = {}
      BY DEF ServerRead
    <3> QED
      BY <2>2, <3>1, <3>2, ServingStep
  <2> QED
    BY <1>2, <2>1, <2>2
<1> QED
  BY <1>5, <1>6

(* An id is on its way to the client of a connection. *)
Carries(x, i) == answer[x] = Granted(i) \/ (x \in serving /\ result = Granted(i))

(* Where an id is on its way it was on its way before, or is granted now. *)
LEMMA CarriesBefore ==
  ASSUME TypeOK, CallInv, ConnInv, [Next]_vars, NEW x \in Conns, NEW i \in Ids, Carries(x, i)'
  PROVE  Carries(x, i) \/ (ServerRead(x) /\ GrantsId(x, i))
<1>0. \A j \in Ids : NoReply # Granted(j)
  BY GrantedById, RepliesFields, NoIdIsNone
<1>1. CASE answer'[x] = Granted(i)
  <2>1. answer'[x] = answer[x] \/ (answer'[x] = result /\ ServerWrite(x))
    BY <1>0, <1>1, AnswerStep
  <2> QED
    BY <1>1, <2>1 DEF Carries, ServerWrite
<1>2. CASE x \in serving' /\ result' = Granted(i)
  <2>1. CASE serving' = serving /\ result' = result
    BY <1>2, <2>1 DEF Carries
  <2>2. CASE ServerRead(x)
    <3>1. ~ Refuses
      <4>1. Granted(i).tag = "thread" /\ Reply("unknown").tag = "unknown" /\ Reply("invalid").tag = "invalid"
        BY RepliesFields
      <4> QED
        BY <1>2, <4>1 DEF Refuses
    <3>2. \A j \in Ids : ~ FreesId(x, j)
      <4>1. Granted(i).tag = "thread" /\ Reply("none").tag = "none"
        BY RepliesFields
      <4> QED
        BY <1>2, <4>1 DEF FreesId
    <3>3. PICK j \in Ids : GrantsId(x, j)
      BY <2>2, <3>1, <3>2, ServerReadCases
    <3>4. j = i
      <4>1. Granted(i) = Granted(j)
        BY <1>2, <3>3 DEF GrantsId
      <4>2. Granted(i).id = i /\ Granted(j).id = j
        BY RepliesFields
      <4> QED
        BY <4>1, <4>2
    <3> QED
      BY <2>2, <3>3, <3>4
  <2> QED
    BY <1>2, <2>1, <2>2, ServingStep
<1> QED
  BY <1>1, <1>2 DEF Carries

(* An id in an unread answer is in use. *)
LEMMA CarriedIsUsed ==
  ASSUME TypeOK, CallInv, ConnInv, UniqueIds, NEW x \in Conns, NEW i \in Ids,
         answer[x] = Granted(i)
  PROVE  i \in used
<1>1. NoReply # Granted(i)
  BY GrantedById, RepliesFields, NoIdIsNone
<1>2. Alive(x) /\ x[1] \in Clients
  BY <1>1, ConnsElements DEF ConnInv
<1>3. i \in OnTheWay(x[1])
  BY <1>2, AliveMeans DEF OnTheWay
<1> QED
  BY <1>2, <1>3 DEF UniqueIds

(* Every step keeps what is known of grants. *)
LEMMA GrantStep ==
  ASSUME TypeOK, CallInv, ConnInv, UniqueIds, PendingInv, GrantInv, [Next]_vars
  PROVE  GrantInv'
<1>1. OneGrantPerCall'
  <2>1. CASE grants' = grants
    BY <2>1 DEF GrantInv, OneGrantPerCall
  <2>2. ASSUME NEW x \in Conns, NEW i \in Ids, ServerRead(x), GrantsId(x, i)
        PROVE  OneGrantPerCall'
    <3>1. link[x] = "open" /\ serving = {}
      BY <2>2, ServerReadFacts
    <3>2. ASSUME NEW k \in 1 .. Len(grants)
          PROVE  grants[k].conn # x
      BY <3>1, <3>2 DEF GrantInv
    <3>3. /\ Len(grants) \in Nat /\ Len(grants') = Len(grants) + 1
          /\ \A k \in 1 .. Len(grants) : grants'[k] = grants[k]
          /\ grants'[Len(grants')].conn = x
      BY <2>2, GrantsAppended
    <3>4. ASSUME NEW j \in 1 .. Len(grants'), NEW k \in 1 .. Len(grants'), j # k
          PROVE  grants'[j].conn # grants'[k].conn
      <4>1. CASE j \in 1 .. Len(grants) /\ k \in 1 .. Len(grants)
        BY <3>3, <3>4, <4>1 DEF GrantInv, OneGrantPerCall
      <4>2. CASE j = Len(grants') /\ k \in 1 .. Len(grants)
        BY <3>2, <3>3, <4>2
      <4>3. CASE j \in 1 .. Len(grants) /\ k = Len(grants')
        BY <3>2, <3>3, <4>3
      <4> QED
        BY <3>3, <3>4, <4>1, <4>2, <4>3
    <3> QED
      BY <3>4 DEF OneGrantPerCall
  <2> QED
    BY <2>1, <2>2, GrantsStep
<1>2. ASSUME NEW x \in Conns, answer'[x].tag = "thread" \/ (x \in serving' /\ result'.tag = "thread")
      PROVE  request'[x].op = "enter"
  <2>0. /\ answer'[x] \in Replies \cup {NoReply} /\ result' \in Replies \cup {NoReply}
        /\ answer[x] \in Replies \cup {NoReply} /\ result \in Replies \cup {NoReply}
    BY TypeStep DEF TypeOK
  <2>1. PICK i \in Ids : Carries(x, i)'
    <3>1. CASE answer'[x].tag = "thread"
      <4>1. answer'[x].id \in Ids /\ answer'[x] = Granted(answer'[x].id)
        BY <2>0, <3>1, RepliesCases, RepliesFields
      <4> QED
        BY <4>1 DEF Carries
    <3>2. CASE x \in serving' /\ result'.tag = "thread"
      <4>1. result'.id \in Ids /\ result' = Granted(result'.id)
        BY <2>0, <3>2, RepliesCases, RepliesFields
      <4> QED
        BY <3>2, <4>1 DEF Carries
    <3> QED
      BY <1>2, <3>1, <3>2
  <2>2. CASE Carries(x, i)
    <3>1. request[x].op = "enter" /\ link[x] # "none"
      <4>1. Granted(i).tag = "thread" /\ NoReply # Granted(i)
        BY RepliesFields
      <4> QED
        BY <2>2, <4>1 DEF Carries, GrantInv, ConnInv
    <3>2. ~ (Call(x[1]) /\ x = <<x[1], calls[x[1]] + 1>>)
      <4>1. x[1] \in Clients /\ x[2] <= calls[x[1]] /\ calls[x[1]] \in Nat
        BY <3>1, ConnsElements, ServiceAssumption DEF ConnInv, TypeOK
      <4> QED
        BY <4>1
    <3> QED
      BY <3>1, <3>2, RequestStep
  <2>3. CASE ServerRead(x) /\ GrantsId(x, i)
    BY <2>3, ServerReadFacts DEF GrantsId
  <2> QED
    BY <2>1, <2>2, <2>3, CarriesBefore
<1>3. ASSUME NEW k \in 1 .. Len(grants')
      PROVE  /\ (link[grants[k].conn] = "closed" \/ grants[k].conn \in serving)'
             /\ (Latest(k) => \A x \in Conns : Carries(x, grants[k].id) => x = grants[k].conn)'
  <2> DEFINE Goal == /\ (link[grants[k].conn] = "closed" \/ grants[k].conn \in serving)'
                     /\ (Latest(k) => \A x \in Conns : Carries(x, grants[k].id) => x = grants[k].conn)'
  <2>1. ASSUME k \in 1 .. Len(grants), grants'[k] = grants[k], Latest(k)' => Latest(k),
               Latest(k)' => \A y \in Conns, i \in Ids : ServerRead(y) /\ GrantsId(y, i) => i # grants[k].id
        PROVE  Goal
    <3>1. grants[k].conn \in Conns /\ grants[k].id \in Ids
      BY <2>1, GrantsType
    <3>2. (link[grants[k].conn] = "closed" \/ grants[k].conn \in serving)'
      BY <2>1, GrantedConns
    <3>3. ASSUME Latest(k)', NEW x \in Conns, Carries(x, grants[k].id)'
          PROVE  x = grants[k].conn
      <4>1. PICK i \in Ids : i = grants[k].id
        BY <3>1
      <4>2. answer'[x] = Granted(i) \/ (x \in serving' /\ result' = Granted(i))
        BY <2>1, <3>3, <4>1 DEF Carries, Granted
      <4>3. Carries(x, i)'
        BY <4>2 DEF Carries, Granted
      <4>4. Carries(x, i)
        BY <2>1, <3>3, <4>1, <4>3, CarriesBefore
      <4> QED
        BY <2>1, <3>3, <4>1, <4>4 DEF Carries, GrantInv
    <3> QED
      BY <2>1, <3>2, <3>3
  <2>2. CASE grants' = grants
    <3>1. ASSUME NEW y \in Conns, NEW i \in Ids
          PROVE  ~ GrantsId(y, i)
      BY <2>2, GrantsAppended DEF TypeOK
    <3> QED
      BY <2>1, <2>2, <3>1 DEF Latest
  <2>3. ASSUME NEW y \in Conns, NEW i \in Ids, ServerRead(y), GrantsId(y, i)
        PROVE  Goal
    <3>1. /\ Len(grants) \in Nat /\ Len(grants') = Len(grants) + 1
          /\ \A j \in 1 .. Len(grants) : grants'[j] = grants[j]
          /\ grants'[Len(grants')].conn = y /\ grants'[Len(grants')].id = i
      BY <2>3, GrantsAppended
    <3>2. CASE k \in 1 .. Len(grants)
      <4>1. Latest(k)' => Latest(k) /\ i # grants[k].id
        BY <3>1, <3>2 DEF Latest
      <4>2. ASSUME NEW z \in Conns, NEW j \in Ids, GrantsId(z, j)
            PROVE  j = i
        BY <3>1, <4>2, GrantsAppended
      <4> QED
        BY <2>1, <3>1, <3>2, <4>1, <4>2
    <3>3. CASE k = Len(grants')
      <4>1. (grants[k].conn \in serving)'
        BY <2>3, <3>1, <3>3, ServerReadFacts
      <4>2. ASSUME NEW x \in Conns, Carries(x, grants[k].id)'
            PROVE  x = y
        <5>1. answer' = answer /\ serving' = {y}
          BY <2>3, ServerReadFacts
        <5>2. (grants[k].id)' = i
          BY <3>1, <3>3
        <5>3. answer[x] = Granted(i) \/ x = y
          BY <4>2, <5>1, <5>2 DEF Carries, Granted
        <5> QED
          BY <2>3, <5>3, CarriedIsUsed DEF GrantsId
      <4> QED
        BY <3>1, <3>3, <4>1, <4>2
    <3> QED
      BY <3>1, <3>2, <3>3
  <2> QED
    BY <2>2, <2>3, GrantsStep
<1> QED
  BY <1>1, <1>2, <1>3 DEF GrantInv, Carries

-----------------------------------------------------------------------------
(* Ids that nobody has.                                                    *)

(* A client loses an id with a call to give it back, or by giving up. *)
LEMMA DropCause ==
  ASSUME TypeOK, CallInv, ConnInv, [Next]_vars,
         NEW c \in Clients, NEW i \in OnTheWay(c), i \notin OnTheWay(c)'
  PROVE  Call(c) \/ Leaves(c)
<1>1. ASSUME NEW d \in Clients, ClientCase(d)
      PROVE  Call(c) \/ Leaves(c)
  BY <1>1, OthersKeep, ClientEffect DEF ClientCase
<1>2. ASSUME NEW x \in Conns, ServerRead(x)
      PROVE  FALSE
  BY <1>2, ServerReadOnTheWay
<1>3. ASSUME NEW x \in Conns, ServerWrite(x)
      PROVE  FALSE
  BY <1>3, ServerWriteKeeps DEF Keeps
<1>4. CASE ServerExit \/ Quiet \/ \E x \in Conns : Accept(x)
  BY <1>4 DEF ServerExit, Quiet, Accept, OnTheWay, Conn, clientVars
<1> QED
  BY <1>1, <1>2, <1>3, <1>4, StepCases DEF ServerCase

(* A call to give an id back accounts for it until the id is freed. *)
LEMMA ExitAccounts ==
  ASSUME TypeOK, CallInv, ConnInv, GrantInv, [Next]_vars,
         NEW y \in Conns, NEW i \in Ids, request[y] = Exit(i), Alive(y), ~ Succeeded(y), i \in used'
  PROVE  y \in told' \/ (Alive(y) /\ ~ Succeeded(y))'
<1>0. y = Conn(y[1]) /\ y[1] \in Clients /\ answer[y] \in Replies \cup {NoReply}
  BY AliveMeans, ConnsElements DEF TypeOK
<1>1. CASE Leaves(y[1])
  BY <1>0, <1>1, LeaveClears
<1>2. CASE Read(y[1])
  <2>1. answer[y] \in Replies
    BY <1>0, <1>2 DEF Read
  <2>2. answer[y].tag # "thread" /\ answer[y].tag # "none"
    BY RequestsFields DEF GrantInv, Succeeded
  <2>3. answer[y].tag \in {"invalid", "unknown"}
    BY <2>1, <2>2, RepliesCases
  <2> QED
    BY <1>0, <1>2, <2>3 DEF Read
<1>3. CASE Alive(y)'
  <2>1. answer'[y].tag # "none"
    <3>1. CASE answer'[y] = answer[y]
      BY <3>1 DEF Succeeded
    <3>2. CASE answer'[y] = NoReply
      BY <3>2, RepliesFields
    <3>3. CASE answer'[y] = result /\ ServerWrite(y)
      BY <3>3 DEF ServerWrite, Succeeded
    <3> QED
      BY <3>1, <3>2, <3>3, AnswerStep
  <2>2. ASSUME y \in serving', result'.tag = "none"
        PROVE  FALSE
    <3>1. CASE serving' = serving /\ result' = result
      BY <2>2, <3>1 DEF Succeeded
    <3>2. CASE ServerRead(y)
      <4>1. ~ Refuses
        BY <2>2, RepliesFields DEF Refuses
      <4>2. \A j \in Ids : ~ GrantsId(y, j)
        BY RequestsFields DEF GrantsId
      <4>3. PICK j \in Ids : FreesId(y, j)
        BY <3>2, <4>1, <4>2, ServerReadCases
      <4>4. Exit(i).id = i /\ Exit(j).id = j /\ Exit(i) = Exit(j)
        BY <4>3, RequestsFields DEF FreesId
      <4> QED
        BY <4>3, <4>4 DEF FreesId
    <3> QED
      BY <2>2, <3>1, <3>2, ServingStep
  <2> QED
    BY <1>3, <2>1, <2>2 DEF Succeeded
<1> QED
  BY <1>1, <1>2, <1>3, AliveStep

(* Every step keeps the account of the ids that nobody has. *)
LEMMA LeakStep ==
  ASSUME TypeOK, CallInv, ConnInv, UniqueIds, PendingInv, GrantInv, LeakInv, [Next]_vars
  PROVE  LeakInv'
<1> SUFFICES ASSUME NEW k \in 1 .. Len(grants'), (grants[k].id \in used /\ Latest(k))'
             PROVE  Accounted(k)'
  BY DEF LeakInv
<1>1. ASSUME k \in 1 .. Len(grants), grants'[k] = grants[k], Latest(k),
             grants[k].id \in used, grants[k].id \in used'
      PROVE  Accounted(k)'
  <2>1. PICK x \in Conns, i \in Ids : x = grants[k].conn /\ i = grants[k].id
    BY <1>1, GrantsType
  <2>2. x[1] \in Clients /\ x[2] \in Nat
    BY ConnsElements, ServiceAssumption
  <2>3. x[2] <= calls[x[1]]
    BY <1>1, <2>1, GrantedConns
  <2> DEFINE Covered == \/ i \in OnTheWay(x[1])
                        \/ x \in told
                        \/ \E y \in Conns :
                             /\ y[1] = x[1] /\ y[2] > x[2] /\ request[y] = Exit(i)
                             /\ y \in told \/ (Alive(y) /\ ~ Succeeded(y))
  <2>4. Accounted(k) <=> Covered
    BY <2>1 DEF Accounted
  <2>5. Covered' => Accounted(k)'
    BY <1>1, <2>1 DEF Accounted, Exit
  <2> SUFFICES Covered'
    BY <2>5
  <2>6. CASE i \in OnTheWay(x[1])
    <3>1. CASE i \in OnTheWay(x[1])'
      BY <3>1
    <3>2. CASE Leaves(x[1])
      <4>1. state[x[1]] # "idle"
        BY <3>2 DEF Leaves
      <4>2. Conn(x[1]) \in Conns /\ Carries(Conn(x[1]), i)
        BY <2>2, <2>6, <4>1, ConnOfCall, OnTheWayWaiting DEF Carries
      <4>3. Conn(x[1]) = x
        BY <1>1, <2>1, <4>2 DEF GrantInv, Carries
      <4> QED
        BY <2>2, <3>2, <4>3, LeaveClears
    <3>3. CASE Call(x[1])
      <4>1. PICK y \in Conns : y = <<x[1], calls[x[1]] + 1>>
        BY <2>2, <3>3, ConnOfNewCall
      <4>2. y[1] = x[1] /\ y[2] > calls[x[1]] /\ y[2] > x[2]
        BY <2>2, <2>3, <4>1 DEF TypeOK
      <4>3. held[x[1]] = i /\ i # NoId
        BY <2>2, <2>6, <3>3, OnTheWayIdle, NoIdIsNone DEF Call
      <4>4. request'[y] = Exit(i)
        BY <3>3, <4>1, <4>3 DEF Call, TypeOK
      <4>5. answer'[y] = NoReply /\ y \notin serving'
        BY <3>3, <4>2 DEF Call, ConnInv
      <4>6. y \in told' \/ Alive(y)'
        BY <2>2, <3>3, <4>1, <4>2 DEF Call, Alive, Conn, TypeOK
      <4>7. ~ Succeeded(y)'
        BY <4>5, RepliesFields DEF Succeeded
      <4> QED
        BY <4>2, <4>4, <4>6, <4>7 DEF Exit
    <3> QED
      BY <2>2, <2>6, <3>1, <3>2, <3>3, DropCause
  <2>7. CASE x \in told
    BY <2>7, ToldGrows
  <2>8. ASSUME NEW y \in Conns, y[1] = x[1], y[2] > x[2], request[y] = Exit(i),
               y \in told \/ (Alive(y) /\ ~ Succeeded(y))
        PROVE  Covered'
    <3>1. request'[y] = request[y]
      <4>1. ~ (y = <<y[1], calls[y[1]] + 1>>)
        <5>1. y[2] <= calls[y[1]]
          <6>1. request[y] # Enter
            <7>1. Exit(i).op = "exit" /\ Enter.op = "enter"
              BY RequestsFields
            <7> QED
              BY <2>8, <7>1
          <6>2. y[2] \in Nat /\ calls[y[1]] \in Nat
            BY <2>2, <2>8, ConnsElements, ServiceAssumption DEF TypeOK
          <6> QED
            BY <6>1, <6>2 DEF ConnInv
        <5> QED
          BY <2>2, <2>8, <5>1 DEF TypeOK
      <4> QED
        BY <4>1, RequestStep
    <3>2. y \in told' \/ (Alive(y) /\ ~ Succeeded(y))'
      BY <1>1, <2>1, <2>8, ExitAccounts, ToldGrows
    <3> QED
      BY <2>8, <3>1, <3>2 DEF Exit
  <2> QED
    BY <1>1, <2>4, <2>6, <2>7, <2>8 DEF LeakInv
<1>2. CASE grants' = grants
  <2>1. grants[k].id \in used
    <3>1. ASSUME NEW x \in Conns, ServerRead(x)
          PROVE  used' \subseteq used
      <4>1. ASSUME NEW i \in Ids
            PROVE  ~ GrantsId(x, i)
        BY <1>2, GrantsAppended DEF TypeOK
      <4> QED
        BY <3>1, <4>1, ServerReadCases DEF Refuses, FreesId
    <3>2. ASSUME NEW c \in Clients, ClientCase(c)
          PROVE  used' = used
      BY <3>2, ClientEffect
    <3> QED
      BY <1>2, <3>1, <3>2, StepCases DEF ServerCase, Accept, ServerWrite, ServerExit, Quiet, idVars
  <2> QED
    BY <1>1, <1>2, <2>1 DEF Latest
<1>3. ASSUME NEW x \in Conns, NEW i \in Ids, ServerRead(x), GrantsId(x, i)
      PROVE  Accounted(k)'
  <2>1. /\ Len(grants) \in Nat /\ Len(grants') = Len(grants) + 1
        /\ \A j \in 1 .. Len(grants) : grants'[j] = grants[j]
        /\ grants'[Len(grants')].conn = x /\ grants'[Len(grants')].id = i
    BY <1>3, GrantsAppended
  <2>2. CASE k \in 1 .. Len(grants)
    <3>1. Latest(k) /\ grants[k].id # i
      BY <2>1, <2>2 DEF Latest
    <3>2. grants[k].id \in used
      BY <1>3, <2>1, <2>2, <3>1 DEF GrantsId
    <3> QED
      BY <1>1, <2>1, <2>2, <3>1, <3>2
  <2>3. CASE k = Len(grants')
    <3>1. x[1] \in Clients
      BY ConnsElements
    <3>2. CASE Alive(x)
      <4>1. x = Conn(x[1]) /\ state[x[1]] # "idle"
        BY <3>2, AliveMeans
      <4>2. i \in OnTheWay(x[1])'
        BY <1>3, <3>1, <4>1, ServerReadOnTheWay DEF GrantsId
      <4> QED
        BY <2>1, <2>3, <4>2 DEF Accounted
    <3>3. CASE ~ Alive(x)
      <4>1. x \in told'
        BY <1>3, <3>3, ServerReadFacts DEF ConnInv
      <4> QED
        BY <2>1, <2>3, <4>1 DEF Accounted
    <3> QED
      BY <3>2, <3>3
  <2> QED
    BY <2>1, <2>2, <2>3
<1> QED
  BY <1>2, <1>3, GrantsStep

-----------------------------------------------------------------------------
(* The theorems.                                                           *)

(* The invariant holds when the server starts. *)
LEMMA InitIInv == Init => IInv
<1> SUFFICES ASSUME Init
             PROVE  IInv
  OBVIOUS
<1> USE ServiceAssumption DEF Init
<1>1. TypeOK
  <2>1. nextId \in Ids /\ request \in [Conns -> Requests] /\ Cardinality(serving) <= 1
    BY SmallServing, RequestsFields DEF Ids
  <2>2. /\ calls \in [Clients -> Nat] /\ \A c \in Clients : calls[c] <= MaxCalls[c]
        /\ tries \in [Clients -> 0 .. MaxRetries] /\ copies \in [Conns -> 0 .. MaxRetries]
    OBVIOUS
  <2>3. grants \in Seq([conn : Conns, id : Ids])
    OBVIOUS
  <2> QED
    BY <2>1, <2>2, <2>3 DEF TypeOK
<1>2. CallInv /\ ConnInv
  BY DEF CallInv, ConnInv
<1>3. \A c \in Clients : OnTheWay(c) = {}
  BY NoIdIsNone DEF OnTheWay
<1>4. UniqueIds /\ PendingInv
  BY <1>3, RequestsFields DEF UniqueIds, PendingInv, Pending
<1>5. Len(grants) = 0
  OBVIOUS
<1>6. GrantInv
  <2>1. \A x \in Conns : answer[x].tag = "no reply"
    BY RepliesFields
  <2>2. \A k : k \notin 1 .. Len(grants)
    BY <1>5
  <2>3. OneGrantPerCall
    BY <2>2 DEF OneGrantPerCall
  <2>4. serving = {}
    OBVIOUS
  <2> HIDE DEF Init
  <2> QED
    BY <2>1, <2>2, <2>3, <2>4 DEF GrantInv
<1>7. LeakInv
  BY <1>5 DEF LeakInv
<1> QED
  BY <1>1, <1>2, <1>4, <1>6, <1>7 DEF IInv

(* The invariant holds of the server and its clients whatever is retried,  *)
(* late or lost (service.rs, Server::run and send_request).                *)
THEOREM Invariance == Spec => []IInv
<1>1. IInv /\ [Next]_vars => IInv'
  BY TypeStep, CallStep, ConnStep, IdEffects, UniqueStep, PendingStep, GrantStep, LeakStep DEF IInv
<1> QED
  BY InitIInv, <1>1, PTL DEF Spec

(* Retries and counters stay in their ranges: a connection never has more  *)
(* requests in it than send_request has turns (MAX_RETRIES).               *)
THEOREM TypeCorrect == Spec => []TypeOK
BY Invariance, PTL DEF IInv

(* No two threads ever have the same thread id, and the server has every   *)
(* id in use marked as used (ThreadId::next, ThreadId::free).              *)
THEOREM IdsUnique == Spec => []UniqueIds
BY Invariance, PTL DEF IInv

(* However often send_request writes a request again, the server grants    *)
(* one id at most for it.                                                  *)
THEOREM OneGrant == Spec => []OneGrantPerCall
BY Invariance, PTL DEF IInv, GrantInv

(* An id gets lost only in a call that ended with an error. *)
THEOREM LeaksReported == Spec => []NoSilentLeak
<1>1. IInv => NoSilentLeak
  BY DEF IInv, LeakInv, Accounted, Latest, NoSilentLeak
<1> QED
  BY Invariance, <1>1, PTL

(* The service implements ThreadIds: each step of the server or of a       *)
(* client grants an id that nobody has, lets go of one, frees one that     *)
(* nobody has, or is invisible.                                            *)
THEOREM ServiceImplementsIds == Spec => IdSpec
<1>1. Init => Id!Init
  <2> SUFFICES ASSUME Init
               PROVE  Id!Init
    OBVIOUS
  <2>1. \A c \in Clients : OnTheWay(c) = {}
    BY NoIdIsNone DEF Init, OnTheWay
  <2> QED
    BY <2>1 DEF Init, Id!Init
<1>2. IInv /\ [Next]_vars => [Id!Next]_(Id!vars)
  <2> SUFFICES ASSUME IInv, [Next]_vars
               PROVE  [Id!Next]_(Id!vars)
    OBVIOUS
  <2>1. IdEffect
    BY IdEffects DEF IInv
  <2>2. CASE Keeps
    BY <2>2 DEF Keeps, Id!vars
  <2>3. ASSUME NEW c \in Clients, Drops(c)
        PROVE  Id!GiveUp(c)
    BY <2>3 DEF Drops, Id!GiveUp
  <2>4. ASSUME NEW c \in Clients, NEW i \in Ids, Gets(c, i)
        PROVE  Id!Grant(c, i)
    BY <2>4 DEF Gets, Id!Grant
  <2>5. ASSUME NEW i \in Ids, Misses(i)
        PROVE  Id!GrantLost(i)
    BY <2>5 DEF Misses, Id!GrantLost
  <2>6. ASSUME NEW i \in Ids, Frees(i)
        PROVE  Id!Free(i)
    BY <2>6 DEF Frees, Id!Free
  <2> QED
    BY <2>1, <2>2, <2>3, <2>4, <2>5, <2>6 DEF IdEffect, Id!Next
<1> QED
  BY <1>1, <1>2, Invariance, PTL DEF Spec, IdSpec, Id!Spec
=============================================================================
