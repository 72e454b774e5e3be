------------------------------ MODULE Service ------------------------------
(***************************************************************************)
(* The service of the engine (omnistack-core/src/service.rs): the server   *)
(* thread, which hands out thread ids over a Unix socket, and the client   *)
(* function send_request, which workers (engine.rs, Worker::run) and user  *)
(* programs call.  Every call uses a connection of its own.  A client that *)
(* waits too long writes its request again on the same connection; the     *)
(* server answers whatever it reads first and closes the connection.       *)
(*                                                                         *)
(* JSON is left out, up to what it makes of a repeated request: two        *)
(* documents one after the other do not parse.  The socket buffers hold    *)
(* the retries of a call, so a write never blocks.                         *)
(***************************************************************************)
EXTENDS Integers, Sequences, FiniteSets

CONSTANTS
  Clients,      \* threads that call send_request
  MaxCalls,     \* MaxCalls[c]: bound on the calls of client c
  MaxRetries,   \* send_request's MAX_RETRIES
  MaxThreads    \* MAX_THREAD_NUM

ASSUME ServiceAssumption ==
  /\ MaxCalls \in [Clients -> Nat]
  /\ MaxRetries \in Nat \ {0}
  /\ MaxThreads \in Nat \ {0}

Ids == 0 .. MaxThreads - 1

NoId == -1

Conns == UNION {{c} \X (1 .. MaxCalls[c]) : c \in Clients}

VARIABLES
  calls,     \* calls a client has begun; the last one uses connection <<c, calls[c]>>
  state,     \* "idle", or where the client is in send_request: "write" or "read"
  tries,     \* turns of the retry loop that have ended
  held,      \* the id a client uses, as its thread-local THREAD_ID
  request,   \* the request of a connection
  link,      \* the server's end of a connection
  copies,    \* requests written and not yet read by the server
  answer,    \* the response in the client's receive buffer
  serving,   \* the connections whose request the server has handled and not answered
  result,    \* the response the server is about to write
  used,      \* THREAD_ID_USED
  nextId,    \* NEXT_THREAD_ID
  grants,    \* the ids given out, and for which connection (history)
  told,      \* the calls whose client has been told of an error (history)
  up,        \* the server is in its loop
  stop       \* STOP_FLAG

clientVars == <<calls, state, tries, held, request, told>>
idVars == <<used, nextId, grants>>
vars == <<calls, state, tries, held, request, link, copies, answer,
          serving, result, used, nextId, grants, told, up, stop>>

Enter == [op |-> "enter", id |-> NoId]
Exit(i) == [op |-> "exit", id |-> i]
Requests == {Enter} \cup {Exit(i) : i \in Ids}

(* Response::data: an id, nothing, or one of the errors. *)
Reply(tag) == [tag |-> tag, id |-> NoId]
Granted(i) == [tag |-> "thread", id |-> i]
NoReply == Reply("no reply")
Replies == {Reply(t) : t \in {"none", "invalid", "unknown"}} \cup {Granted(i) : i \in Ids}

TypeOK ==
  /\ calls \in [Clients -> Nat] /\ \A c \in Clients : calls[c] <= MaxCalls[c]
  /\ state \in [Clients -> {"idle", "write", "read"}]
  /\ tries \in [Clients -> 0 .. MaxRetries]
  /\ held \in [Clients -> Ids \cup {NoId}]
  /\ request \in [Conns -> Requests]
  /\ link \in [Conns -> {"none", "backlog", "open", "closed"}]
  /\ copies \in [Conns -> 0 .. MaxRetries]
  /\ answer \in [Conns -> Replies \cup {NoReply}]
  /\ serving \in SUBSET Conns /\ Cardinality(serving) <= 1
  /\ result \in Replies \cup {NoReply}
  /\ used \subseteq Ids
  /\ nextId \in Ids
  /\ grants \in Seq([conn : Conns, id : Ids])
  /\ told \subseteq Conns
  /\ up \in BOOLEAN
  /\ stop \in BOOLEAN

Init ==
  /\ calls = [c \in Clients |-> 0]
  /\ state = [c \in Clients |-> "idle"]
  /\ tries = [c \in Clients |-> 0]
  /\ held = [c \in Clients |-> NoId]
  /\ request = [x \in Conns |-> Enter]
  /\ link = [x \in Conns |-> "none"]
  /\ copies = [x \in Conns |-> 0]
  /\ answer = [x \in Conns |-> NoReply]
  /\ serving = {}
  /\ result = NoReply
  /\ used = {}
  /\ nextId = 0
  /\ grants = <<>>
  /\ told = {}
  /\ up = TRUE
  /\ stop = FALSE

Conn(c) == <<c, calls[c]>>

(* The client's end of a connection is open while its call lasts. *)
Alive(x) == x = Conn(x[1]) /\ state[x[1]] # "idle"

-----------------------------------------------------------------------------
(* send_request.                                                           *)

(* A thread without an id asks for one; a thread that has one gives it up: *)
(* it does not use the id once it has asked.                               *)
Call(c) ==
  /\ state[c] = "idle"
  /\ calls[c] < MaxCalls[c]
  /\ calls' = [calls EXCEPT ![c] = @ + 1]
  /\ LET x == <<c, calls[c] + 1>>
     IN  /\ request' = [request EXCEPT ![x] = IF held[c] = NoId THEN Enter ELSE Exit(held[c])]
         /\ held' = [held EXCEPT ![c] = NoId]
         /\ \/ /\ up
               /\ link' = [link EXCEPT ![x] = "backlog"]
               /\ state' = [state EXCEPT ![c] = "write"]
               /\ UNCHANGED told
            \/ /\ ~ up          \* connect fails
               /\ told' = told \cup {x}
               /\ UNCHANGED <<link, state>>
  /\ UNCHANGED <<tries, copies, answer, serving, result, idVars, up, stop>>

(* send_request returns an error and drops its stream. *)
Returns(c) ==
  /\ state' = [state EXCEPT ![c] = "idle"]
  /\ tries' = [tries EXCEPT ![c] = 0]
  /\ answer' = [answer EXCEPT ![Conn(c)] = NoReply]
  /\ told' = told \cup {Conn(c)}
  /\ UNCHANGED <<calls, held, request>>

Write(c) ==
  /\ state[c] = "write"
  /\ \/ /\ link[Conn(c)] # "closed"
        /\ copies' = [copies EXCEPT ![Conn(c)] = @ + 1]
        /\ state' = [state EXCEPT ![c] = "read"]
        /\ UNCHANGED <<calls, tries, held, request, told, answer>>
     \/ /\ link[Conn(c)] = "closed"     \* EPIPE: break
        /\ Returns(c)
        /\ UNCHANGED copies
  /\ UNCHANGED <<link, serving, result, idVars, up, stop>>

(* The answer has arrived.  Worker::run keeps the id it is given. *)
Read(c) ==
  /\ state[c] = "read"
  /\ answer[Conn(c)] # NoReply
  /\ state' = [state EXCEPT ![c] = "idle"]
  /\ held' = [held EXCEPT ![c] = answer[Conn(c)].id]
  /\ answer' = [answer EXCEPT ![Conn(c)] = NoReply]
  /\ tries' = [tries EXCEPT ![c] = 0]
  /\ told' = IF answer[Conn(c)].tag \in {"invalid", "unknown"} THEN told \cup {Conn(c)} ELSE told
  /\ UNCHANGED <<calls, request, link, copies, serving, result, idVars, up, stop>>

(* The server's end is gone and there is nothing to read. *)
ReadEof(c) ==
  /\ state[c] = "read"
  /\ answer[Conn(c)] = NoReply
  /\ link[Conn(c)] = "closed"
  /\ Returns(c)
  /\ UNCHANGED <<link, copies, serving, result, idVars, up, stop>>

(* A second has passed: try again while `again' holds, or do as at the end. *)
TimedOut(c, again, atEnd) ==
  /\ state[c] = "read"
  /\ answer[Conn(c)] = NoReply
  /\ link[Conn(c)] # "closed"
  /\ \/ /\ again
        /\ tries' = [tries EXCEPT ![c] = @ + 1]
        /\ state' = [state EXCEPT ![c] = "write"]
        /\ UNCHANGED <<calls, held, request, told, answer>>
     \/ /\ ~ again
        /\ atEnd
  /\ UNCHANGED <<link, copies, serving, result, idVars, up, stop>>

(* Mutation of Timeout: one turn too many. *)
TimeoutOnceMore(c) == TimedOut(c, tries[c] + 1 <= MaxRetries, Returns(c))

(* Mutation of Timeout: after the last turn the client goes on reading. *)
TimeoutReadsOn(c) ==
  TimedOut(c, tries[c] + 1 < MaxRetries, UNCHANGED <<clientVars, answer>>)

Timeout(c) == TimedOut(c, tries[c] + 1 < MaxRetries, Returns(c))

-----------------------------------------------------------------------------
(* ThreadId.                                                               *)

(* ThreadId::next looks at every id once, beginning at NEXT_THREAD_ID.     *)
Scan(k) == (nextId + k) % MaxThreads

(* Mutation of Found: the first id is taken without a look at the table. *)
FoundFirst(k) == k = 0

Found(k) ==
  /\ k \in Ids
  /\ Scan(k) \notin used
  /\ \A j \in 0 .. k - 1 : Scan(j) \in used

(* Mutation of Free: the entry of the next id is cleared. *)
FreeNext(i) == used' = used \ {(i + 1) % MaxThreads}

(* ThreadId::free *)
Free(i) == used' = used \ {i}

-----------------------------------------------------------------------------
(* Server::run.                                                            *)

Accept(x) ==
  /\ up
  /\ serving = {}
  /\ link[x] = "backlog"
  /\ link' = [link EXCEPT ![x] = "open"]
  /\ UNCHANGED <<clientVars, copies, answer, serving, result, idVars, up, stop>>

(* The answer to what was read: one request is handled; two or more that   *)
(* arrived together, or an end of file, are not a request.                 *)
Handle(x) ==
  \/ /\ copies[x] = 1
     /\ request[x].op = "enter"
     /\ \/ \E k \in Ids :
             /\ Found(k)
             /\ used' = used \cup {Scan(k)}
             /\ nextId' = (Scan(k) + 1) % MaxThreads
             /\ grants' = Append(grants, [conn |-> x, id |-> Scan(k)])
             /\ result' = Granted(Scan(k))
        \/ /\ used = Ids
           /\ result' = Reply("unknown")
           /\ UNCHANGED idVars
  \/ /\ copies[x] = 1
     /\ request[x].op = "exit"
     /\ Free(request[x].id)
     /\ result' = Reply("none")
     /\ UNCHANGED <<nextId, grants>>
  \/ /\ copies[x] # 1
     /\ result' = Reply("invalid")
     /\ UNCHANGED idVars

(* The connection is readable: there are requests, or its client is gone.  *)
ServerRead(x) ==
  /\ up
  /\ serving = {}
  /\ link[x] = "open"
  /\ copies[x] > 0 \/ ~ Alive(x)
  /\ Handle(x)
  /\ copies' = [copies EXCEPT ![x] = 0]
  /\ serving' = {x}
  /\ UNCHANGED <<clientVars, link, answer, up, stop>>

(* Mutation of ServerWrite: the stream is not dropped. *)
ServerWriteKeepsOpen(x) ==
  /\ x \in serving
  /\ answer' = [answer EXCEPT ![x] = IF Alive(x) THEN result ELSE @]
  /\ serving' = {}
  /\ result' = NoReply
  /\ UNCHANGED <<clientVars, link, copies, idVars, up, stop>>

(* The response is written, if the client is still there, and the stream   *)
(* is dropped, which closes it, with what was written to it meanwhile.     *)
ServerWrite(x) ==
  /\ x \in serving
  /\ answer' = [answer EXCEPT ![x] = IF Alive(x) THEN result ELSE @]
  /\ link' = [link EXCEPT ![x] = "closed"]
  /\ copies' = [copies EXCEPT ![x] = 0]
  /\ serving' = {}
  /\ result' = NoReply
  /\ UNCHANGED <<clientVars, idVars, up, stop>>

(* The loop ends on STOP_FLAG, or on a poll that the signal interrupts.    *)
(* The listener is closed, and with it the connections it has not          *)
(* accepted; the streams accepted and forgotten stay open.                 *)
ServerExit ==
  /\ up
  /\ stop
  /\ serving = {}
  /\ up' = FALSE
  /\ link' = [x \in Conns |-> IF link[x] = "backlog" THEN "closed" ELSE link[x]]
  /\ UNCHANGED <<clientVars, copies, answer, serving, result, idVars, stop>>

Shutdown ==
  /\ ~ stop
  /\ stop' = TRUE
  /\ UNCHANGED <<clientVars, link, copies, answer, serving, result, idVars, up>>

-----------------------------------------------------------------------------

(* What a thread does once it is inside send_request. *)
ClientStep(c) == Write(c) \/ Read(c) \/ ReadEof(c) \/ Timeout(c)

ServerStep == \/ \E x \in Conns : Accept(x) \/ ServerRead(x) \/ ServerWrite(x)
              \/ ServerExit

(* Every client has made its calls. *)
Finished ==
  /\ \A c \in Clients : state[c] = "idle" /\ calls[c] = MaxCalls[c]
  /\ UNCHANGED vars

Next ==
  \/ \E c \in Clients : Call(c) \/ ClientStep(c)
  \/ ServerStep
  \/ Shutdown
  \/ Finished

Spec == Init /\ [][Next]_vars

(* A thread inside send_request keeps running: its reads time out.  Of the *)
(* server nothing is assumed.                                              *)
FairSpec == Spec /\ \A c \in Clients : WF_vars(ClientStep(c))

-----------------------------------------------------------------------------
(* Properties.                                                             *)

(* The ids a client uses or will use when it reads its answer. *)
OnTheWay(c) ==
  {i \in Ids : \/ held[c] = i
               \/ /\ state[c] # "idle"
                  /\ \/ answer[Conn(c)] = Granted(i)
                     \/ Conn(c) \in serving /\ result = Granted(i)}

(* Two threads never have the same id, and the server knows every id that  *)
(* is in use: a thread id selects a thread's cache of the packet pool, and *)
(* the caches are not locked (memory.rs).                                  *)
UniqueIds ==
  /\ \A c, d \in Clients : c # d => OnTheWay(c) \cap OnTheWay(d) = {}
  /\ \A c \in Clients : OnTheWay(c) \subseteq used

(* However often a call is retried it is granted one id at most: the       *)
(* server closes the connection with its first answer.                     *)
OneGrantPerCall ==
  \A j, k \in 1 .. Len(grants) : j # k => grants[j].conn # grants[k].conn

(* An id that is marked as used and that nobody has, or is giving back,    *)
(* got lost in a call whose client was told of an error: the last call it  *)
(* was granted to, or that client's call to give it back.  No exchange     *)
(* that both sides believe to have succeeded uses up an id.                *)
NoSilentLeak ==
  \A k \in 1 .. Len(grants) :
    LET x == grants[k].conn
        i == grants[k].id
    IN  (i \in used /\ \A j \in k + 1 .. Len(grants) : grants[j].id # i) =>
          \/ i \in OnTheWay(x[1])
          \/ x \in told
          \/ \E y \in Conns :
               /\ y[1] = x[1]
               /\ y[2] > x[2]
               /\ request[y] = Exit(i)
               /\ y \in told \/ Alive(y)

(* The service implements the ids of module ThreadIds, whatever is         *)
(* retried, lost or late: an id that a thread has is not given to another  *)
(* and not freed.                                                          *)
Id == INSTANCE ThreadIds WITH ids <- [c \in Clients |-> OnTheWay(c)]

IdSpec == Id!Spec

(* A call of send_request returns, whatever the server does. *)
CallReturns == \A c \in Clients : (state[c] # "idle") ~> (state[c] = "idle")

(* "invalid request" is the answer to a request that is not valid.  Every  *)
(* request here is a ThreadEnter or a ThreadExit, so nobody gets it.       *)
OnlyInvalidRejected == \A x \in Conns : answer[x] # Reply("invalid")
=============================================================================
