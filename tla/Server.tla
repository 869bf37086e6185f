------------------------------- MODULE Server -------------------------------
(***************************************************************************)
(* src/src/server/server.cpp: one thread accepts connections and queues     *)
(* their sockets; workers take a socket each from the queue and answer its  *)
(* requests until the client hangs up.  The queue is shared under a mutex.  *)
(*                                                                          *)
(* The kernel and the clients are the environment.  A socket is a file      *)
(* descriptor, the lowest one free, and is used again once closed.  Clients *)
(* behave as the bots of trading_bots/ do: a request at a time, the next    *)
(* only after the answer to the last.  A recv returns a request whole, or   *)
(* the first part of one that was split on its way and then the rest.  A    *)
(* client hangs up between two requests, an abrupt one also before it is    *)
(* answered, and may come back; an answer sent after it is lost, or ends    *)
(* the process.  What a request does to the exchange is in Exchange.tla.    *)
(***************************************************************************)
EXTENDS Integers, Sequences, FiniteSets

CONSTANTS
  Client,      \* clients: one connection each at a time
  Asking,      \* those that send requests
  Abrupt,      \* those that may hang up while they wait for an answer
  Worker,      \* threads there are for workers
  acceptor,    \* the thread in start
  Cores,       \* what hardware_concurrency says
  Request,     \* requests that are answered from the exchange
  BadRequest,  \* requests whose handling throws: malformed, or refused by the exchange
  Piece,       \* a part of a request: malformed
  None,        \* no thread, client or request
  MaxFd,       \* the process's limit on descriptors
  MaxPending   \* MAX_PENDING_CONNECTIONS: connections that wait to be accepted

ASSUME ServerAssumption ==
  /\ acceptor \notin Worker
  /\ None \notin Client \cup Worker \cup {acceptor, Piece} \cup Request \cup BadRequest
  /\ Piece \notin Request \cup BadRequest
  /\ Request \cap BadRequest = {}
  /\ Asking \subseteq Client /\ Abrupt \subseteq Client
  /\ Cores \in Nat
  /\ IsFiniteSet(Worker) /\ Cardinality(Worker) >= Cores - 2
  /\ MaxFd \in Nat /\ MaxPending \in Nat

Fd == 1..MaxFd
NoFd == 0
Thread == Worker \cup {acceptor}

VARIABLES
  client_queue,   \* sockets accepted and not taken
  queue_mutex,    \* the thread that holds it
  pc,             \* thread -> where it is
  socket,         \* thread -> new_socket of the acceptor, client_socket of a worker
  request,        \* worker -> the request it is handling
  peer,           \* kernel: descriptor -> the client at the other end, None when closed
  pending,        \* kernel: connections that wait to be accepted
  link,           \* client -> its end: "away", "open" or "closed"
  sent,           \* kernel: client -> its request no recv has returned
  waits,          \* client -> the request it waits for an answer to
  answer,         \* kernel: client -> the answers it has not read
  whole           \* auxiliary: client -> no request of this connection has been split

vars == <<client_queue, queue_mutex, pc, socket, request, peer, pending, link, sent, waits, answer,
          whole>>
env == <<peer, pending, link, sent, waits, answer, whole>>

Init ==
  /\ client_queue = <<>>
  /\ queue_mutex = None
  /\ pc = [t \in Thread |-> IF t = acceptor THEN "listen" ELSE "unborn"]
  /\ socket = [t \in Thread |-> NoFd]
  /\ request = [w \in Worker |-> None]
  /\ peer = [fd \in Fd |-> None]
  /\ pending = <<>>
  /\ link = [c \in Client |-> "away"]
  /\ sent = [c \in Client |-> None]
  /\ waits = [c \in Client |-> None]
  /\ answer = [c \in Client |-> <<>>]
  /\ whole = [c \in Client |-> TRUE]

Goto(t, label) == pc' = [pc EXCEPT ![t] = label]

-----------------------------------------------------------------------------
(* Clients.                                                                *)

\* A client finds the server once it listens, with room for one more.
Connect(c) ==
  /\ link[c] = "away"
  /\ pc[acceptor] \notin {"listen", "ended"}
  /\ Len(pending) < MaxPending
  /\ link' = [link EXCEPT ![c] = "open"]
  /\ pending' = Append(pending, c)
  /\ whole' = [whole EXCEPT ![c] = TRUE]
  /\ UNCHANGED <<client_queue, queue_mutex, pc, socket, request, peer, sent, waits, answer>>

Send(c, r) ==
  /\ c \in Asking
  /\ link[c] = "open"
  /\ waits[c] = None /\ sent[c] = None
  /\ waits' = [waits EXCEPT ![c] = r]
  /\ sent' = [sent EXCEPT ![c] = r]
  /\ UNCHANGED <<client_queue, queue_mutex, pc, socket, request, peer, pending, link, answer,
                 whole>>

\* A client's recv returns what has come.
Read(c) ==
  /\ answer[c] # <<>>
  /\ answer' = [answer EXCEPT ![c] = <<>>]
  /\ waits' = [waits EXCEPT ![c] = None]
  /\ UNCHANGED <<client_queue, queue_mutex, pc, socket, request, peer, pending, link, sent, whole>>

HangUp(c) ==
  /\ link[c] = "open"
  /\ c \in Abrupt \/ waits[c] = None
  /\ link' = [link EXCEPT ![c] = "closed"]
  /\ answer' = [answer EXCEPT ![c] = <<>>]
  /\ waits' = [waits EXCEPT ![c] = None]
  /\ UNCHANGED <<client_queue, queue_mutex, pc, socket, request, peer, pending, sent, whole>>

-----------------------------------------------------------------------------
(* The mutex.  An operator named Broken... is a definition with a slip in   *)
(* it: the properties below are tried on it, and it is part of no           *)
(* specification.                                                           *)

BrokenAcquire(t) ==  \* does not wait for the holder
  queue_mutex' = t

Acquire(t) ==
  /\ queue_mutex = None
  /\ queue_mutex' = t

Release(t) == queue_mutex' = None

-----------------------------------------------------------------------------
(* start.                                                                  *)

\* The socket is bound and listens.  (If that fails the process ends.)
Listen ==
  /\ pc[acceptor] = "listen"
  /\ Goto(acceptor, "start")
  /\ UNCHANGED <<client_queue, queue_mutex, socket, request, env>>

BrokenNumThreads == Cores - 3  \* counts itself twice

NumThreads == Cores - 2

Started == {w \in Worker : pc[w] # "unborn"}

StartWorker(w) ==
  /\ pc[acceptor] = "start"
  /\ pc[w] = "unborn"
  /\ Cardinality(Started) < NumThreads
  /\ Goto(w, "lock")
  /\ UNCHANGED <<client_queue, queue_mutex, socket, request, env>>

AllStarted ==
  /\ pc[acceptor] = "start"
  /\ Cardinality(Started) >= NumThreads
  /\ Goto(acceptor, "accept")
  /\ UNCHANGED <<client_queue, queue_mutex, socket, request, env>>

FreeFd(fd) ==
  /\ fd \in Fd /\ peer[fd] = None
  /\ \A other \in Fd : peer[other] = None => fd <= other

BrokenAccept ==  \* queues what a failed accept returned
  /\ pc[acceptor] = "accept"
  /\ Goto(acceptor, "lock")
  /\ UNCHANGED <<client_queue, queue_mutex, socket, request, env>>

\* An accept fails as long as no descriptor is free, and is tried again.
Accept ==
  /\ pc[acceptor] = "accept"
  /\ pending # <<>>
  /\ \E fd \in Fd :
       /\ FreeFd(fd)
       /\ peer' = [peer EXCEPT ![fd] = Head(pending)]
       /\ socket' = [socket EXCEPT ![acceptor] = fd]
  /\ pending' = Tail(pending)
  /\ Goto(acceptor, "lock")
  /\ UNCHANGED <<client_queue, queue_mutex, request, link, sent, waits, answer, whole>>

LockToPush ==
  /\ pc[acceptor] = "lock"
  /\ Acquire(acceptor)
  /\ Goto(acceptor, "push")
  /\ UNCHANGED <<client_queue, socket, request, env>>

Push ==
  /\ pc[acceptor] = "push"
  /\ client_queue' = Append(client_queue, socket[acceptor])
  /\ socket' = [socket EXCEPT ![acceptor] = NoFd]
  /\ Release(acceptor)
  /\ Goto(acceptor, "accept")
  /\ UNCHANGED <<request, env>>

-----------------------------------------------------------------------------
(* worker_thread.                                                          *)

LockToTake(w) ==
  /\ pc[w] = "lock"
  /\ Acquire(w)
  /\ Goto(w, "empty")
  /\ UNCHANGED <<client_queue, socket, request, env>>

FoundEmpty(w) ==
  /\ pc[w] = "empty"
  /\ client_queue = <<>>
  /\ Release(w)
  /\ Goto(w, "lock")
  /\ UNCHANGED <<client_queue, socket, request, env>>

BrokenLookAtFront(w) ==  \* client_socket is one variable of all the workers
  /\ pc[w] = "empty"
  /\ client_queue # <<>>
  /\ socket' = [t \in Thread |-> IF t = acceptor THEN socket[t] ELSE Head(client_queue)]
  /\ Goto(w, "pop")
  /\ UNCHANGED <<client_queue, queue_mutex, request, env>>

LookAtFront(w) ==
  /\ pc[w] = "empty"
  /\ client_queue # <<>>
  /\ socket' = [socket EXCEPT ![w] = Head(client_queue)]
  /\ Goto(w, "pop")
  /\ UNCHANGED <<client_queue, queue_mutex, request, env>>

Pop(w) ==
  /\ pc[w] = "pop"
  /\ client_queue' = IF client_queue = <<>> THEN <<>> ELSE Tail(client_queue)
  /\ Release(w)
  /\ Goto(w, "recv")
  /\ UNCHANGED <<socket, request, env>>

-----------------------------------------------------------------------------
(* handle_client.                                                          *)

Receive(w) ==
  LET c == peer[socket[w]]
  IN  /\ pc[w] = "recv"
      /\ sent[c] # None
      /\ \/ /\ request' = [request EXCEPT ![w] = sent[c]]
            /\ sent' = [sent EXCEPT ![c] = None]
            /\ UNCHANGED whole
         \/ /\ sent[c] # Piece
            /\ request' = [request EXCEPT ![w] = Piece]
            /\ sent' = [sent EXCEPT ![c] = Piece]
            /\ whole' = [whole EXCEPT ![c] = FALSE]
      /\ Goto(w, "reply")
      /\ UNCHANGED <<client_queue, queue_mutex, socket, peer, pending, link, waits, answer>>

BrokenClose(w) ==  \* returns without closing the socket
  LET c == peer[socket[w]]
  IN  /\ pc[w] = "recv"
      /\ sent[c] = None /\ link[c] = "closed"
      /\ link' = [link EXCEPT ![c] = "away"]
      /\ socket' = [socket EXCEPT ![w] = NoFd]
      /\ Goto(w, "lock")
      /\ UNCHANGED <<client_queue, queue_mutex, request, peer, pending, sent, waits, answer,
                     whole>>

\* recv finds the connection at its end.
Close(w) ==
  LET c == peer[socket[w]]
  IN  /\ pc[w] = "recv"
      /\ sent[c] = None /\ link[c] = "closed"
      /\ peer' = [peer EXCEPT ![socket[w]] = None]
      /\ link' = [link EXCEPT ![c] = "away"]
      /\ socket' = [socket EXCEPT ![w] = NoFd]
      /\ Goto(w, "lock")
      /\ UNCHANGED <<client_queue, queue_mutex, request, pending, sent, waits, answer, whole>>

BrokenReply(w) ==  \* sends inside the try block, which an exception leaves
  LET c == peer[socket[w]]
  IN  /\ pc[w] = "reply"
      /\ answer' = IF link[c] = "open" /\ request[w] \in Request
                   THEN [answer EXCEPT ![c] = Append(@, request[w])] ELSE answer
      /\ request' = [request EXCEPT ![w] = None]
      /\ Goto(w, "recv")
      /\ UNCHANGED <<client_queue, queue_mutex, socket, peer, pending, link, sent, waits, whole>>

\* Whatever became of the request, an answer is sent; it is lost on a client
\* that has hung up.  An answer is identified with the request it is for.
Reply(w) ==
  LET c == peer[socket[w]]
  IN  /\ pc[w] = "reply"
      /\ answer' = IF link[c] = "open" THEN [answer EXCEPT ![c] = Append(@, request[w])]
                   ELSE answer
      /\ request' = [request EXCEPT ![w] = None]
      /\ Goto(w, "recv")
      /\ UNCHANGED <<client_queue, queue_mutex, socket, peer, pending, link, sent, waits, whole>>

\* To send to a client that has hung up may raise SIGPIPE, which nobody handles: the
\* process ends, and with it its threads, its queue and its connections.
Killed(w) ==
  /\ pc[w] = "reply" /\ link[peer[socket[w]]] = "closed"
  /\ client_queue' = <<>>
  /\ queue_mutex' = None
  /\ pc' = [t \in Thread |-> "ended"]
  /\ socket' = [t \in Thread |-> NoFd]
  /\ request' = [v \in Worker |-> None]
  /\ peer' = [fd \in Fd |-> None]
  /\ pending' = <<>>
  /\ UNCHANGED <<link, sent, waits, answer, whole>>

Ended == pc[acceptor] = "ended"

-----------------------------------------------------------------------------

AcceptorStep ==
  \/ Listen
  \/ \E w \in Worker : StartWorker(w)
  \/ AllStarted
  \/ Accept
  \/ LockToPush
  \/ Push

BrokenWorkerStep(w) ==  \* the lock lives until the client hangs up
  \/ LockToTake(w)
  \/ FoundEmpty(w)
  \/ LookAtFront(w)
  \/ /\ pc[w] = "pop"
     /\ client_queue' = Tail(client_queue)
     /\ Goto(w, "recv")
     /\ UNCHANGED <<queue_mutex, socket, request, env>>
  \/ Receive(w)
  \/ /\ pc[w] = "recv"
     /\ sent[peer[socket[w]]] = None /\ link[peer[socket[w]]] = "closed"
     /\ peer' = [peer EXCEPT ![socket[w]] = None]
     /\ link' = [link EXCEPT ![peer[socket[w]]] = "away"]
     /\ socket' = [socket EXCEPT ![w] = NoFd]
     /\ Release(w)
     /\ Goto(w, "lock")
     /\ UNCHANGED <<client_queue, request, pending, sent, waits, answer, whole>>
  \/ Reply(w)

WorkerStep(w) ==
  \/ LockToTake(w)
  \/ FoundEmpty(w)
  \/ LookAtFront(w)
  \/ Pop(w)
  \/ Receive(w)
  \/ Close(w)
  \/ Reply(w)
  \/ Killed(w)

ClientStep(c) ==
  \/ Connect(c)
  \/ \E r \in Request \cup BadRequest : Send(c, r)
  \/ Read(c)
  \/ HangUp(c)

\* Clients find nobody to connect to.
NothingIsServed == Ended /\ UNCHANGED vars

Next ==
  \/ AcceptorStep
  \/ \E w \in Worker : WorkerStep(w)
  \/ \E c \in Client : ClientStep(c)
  \/ NothingIsServed

\* Every thread keeps running.  Nothing is assumed of the mutex but that one of
\* the threads that want it gets it when it is free: std::mutex is not fair, and a
\* worker that finds the queue empty wants it again at once.  Clients owe nothing.
Fairness == WF_vars(AcceptorStep) /\ \A w \in Worker : WF_vars(WorkerStep(w))

Spec == Init /\ [][Next]_vars /\ Fairness

-----------------------------------------------------------------------------
(* What must hold.                                                         *)

Requests == Request \cup BadRequest \cup {Piece, None}
Label == {"listen", "start", "unborn", "accept", "push", "lock", "empty", "pop", "recv", "reply",
          "ended"}

\* Threads, sockets, the queue and the connections have their types.
TypeOK ==
  /\ client_queue \in Seq(Fd)
  /\ queue_mutex \in Thread \cup {None}
  /\ pc \in [Thread -> Label]
  /\ socket \in [Thread -> Fd \cup {NoFd}]
  /\ request \in [Worker -> Requests]
  /\ peer \in [Fd -> Client \cup {None}]
  /\ pending \in Seq(Client)
  /\ link \in [Client -> {"away", "open", "closed"}]
  /\ sent \in [Client -> Requests]
  /\ waits \in [Client -> Requests]
  /\ answer \in [Client -> Seq(Requests)]
  /\ whole \in [Client -> BOOLEAN]

Serves(w, fd) == pc[w] \in {"recv", "reply"} /\ socket[w] = fd
Holds(t, fd) == IF t = acceptor THEN socket[t] = fd ELSE Serves(t, fd)
Queued(i, fd) == client_queue[i] = fd

\* A socket that is open belongs to the acceptor, to one place of the queue or
\* to one worker, and one that is closed to nobody, though descriptors are used
\* again: no connection is lost, none is answered by two workers, and none is
\* closed under another's hands.
EverySocketHasOneOwner ==
  \A fd \in Fd :
    /\ peer[fd] # None <=> \/ \E t \in Thread : Holds(t, fd)
                           \/ \E i \in DOMAIN client_queue : Queued(i, fd)
    /\ \A t \in Thread : Holds(t, fd) => \A u \in Thread : Holds(u, fd) => t = u
    /\ \A i \in DOMAIN client_queue : Queued(i, fd) =>
         /\ \A j \in DOMAIN client_queue : Queued(j, fd) => i = j
         /\ \A t \in Thread : ~Holds(t, fd)

\* What a client is about to read is the answer to the request it waits for, and
\* nothing else: not an answer to a connection that had its socket, or its
\* worker, before.  (Only to a request that was split does it get two answers.)
AnswersMatchRequests ==
  \A c \in Client : whole[c] /\ answer[c] # <<>> => answer[c] = <<waits[c]>>

Served(c) == \E w \in Worker, fd \in Fd : Serves(w, fd) /\ peer[fd] = c

\* A client whose connection a worker has is answered, also when its request
\* comes in parts or makes the handler throw, unless it hangs up, or the answer to
\* one that did ends the process.
ServedClientsAreAnswered ==
  \A c \in Client :
    (waits[c] # None /\ Served(c)) ~> (answer[c] # <<>> \/ waits[c] = None \/ Ended)

\* The clients that stay are fewer than the workers, and than the descriptors.
FewClientsStay ==
  \E S \in SUBSET Client :
    /\ Cardinality(S) < Cores - 2 /\ Cardinality(S) < MaxFd
    /\ \A c \in Client \ S : []<>(link[c] # "open")

QueuedClient(c) == \E i \in DOMAIN client_queue : peer[client_queue[i]] = c

\* A worker stays with a client until it hangs up, so a connection may wait in the
\* queue for ever behind clients that stay.  But with fewer of those than workers
\* every connection in the queue is served, whichever thread the mutex favours, as
\* long as there is a process.
QueuedClientsAreServed ==
  FewClientsStay => \A c \in Client : QueuedClient(c) ~> (Served(c) \/ Ended)

Pending(c) == \E i \in DOMAIN pending : pending[i] = c

\* No connection waits to be accepted for ever when descriptors run out: workers
\* give them back, unless the acceptor is kept from queueing what it accepted or the
\* process ends.
PendingClientsAreAccepted ==
  FewClientsStay /\ []<>(pc[acceptor] # "lock") =>
    \A c \in Client : Pending(c) ~> ((\E fd \in Fd : peer[fd] = c) \/ Ended)

\* Only a worker that polls the empty queue can keep the acceptor from the mutex
\* for ever; no worker does that by serving a client, however long it stays.
OnlyPollingKeepsTheAcceptorOut ==
  <>[](pc[acceptor] = "lock") =>
    \E w \in Worker : []<>(pc[w] = "empty" /\ client_queue = <<>>)
=============================================================================
