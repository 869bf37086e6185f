---------------------------- MODULE ServerProofs ----------------------------
(***************************************************************************)
(* The safety of Server.tla for any number of clients, workers, requests,   *)
(* descriptors and places before the acceptor.                              *)
(***************************************************************************)
EXTENDS Server, CommonLemmas

\* Threads, clients and requests are told apart from one another and from none.
LEMMA Apart ==
  /\ acceptor \notin Worker
  /\ None \notin Client /\ None \notin Thread
  /\ None \notin Request \cup BadRequest \cup {Piece}
  /\ MaxFd \in Nat
BY ServerAssumption DEF Thread

\* Which labels a thread comes to.
PcOK ==
  /\ pc[acceptor] \in {"listen", "start", "accept", "lock", "push", "ended"}
  /\ \A w \in Worker : pc[w] \in {"unborn", "lock", "empty", "pop", "recv", "reply", "ended"}

\* The mutex is held by the thread that is between taking and releasing it: at
\* most one is.
MutexOK == \A t \in Thread : queue_mutex = t <=> pc[t] \in {"push", "empty", "pop"}

\* The acceptor has a socket from accept to push, a worker from front to close;
\* one that has still to pop has the socket at the front of the queue.
SocketOK ==
  /\ socket[acceptor] # NoFd <=> pc[acceptor] \in {"lock", "push"}
  /\ \A w \in Worker :
       /\ socket[w] # NoFd <=> pc[w] \in {"pop", "recv", "reply"}
       /\ pc[w] = "pop" => client_queue # <<>> /\ socket[w] = Head(client_queue)

\* What the queue of sockets rests on.
QInv == TypeOK /\ PcOK /\ MutexOK /\ SocketOK /\ EverySocketHasOneOwner

-----------------------------------------------------------------------------
(* The queue of sockets, its mutex and who has a socket.                   *)

LEMMA InitQ == Init => QInv
<1> SUFFICES ASSUME Init PROVE QInv
  OBVIOUS
<1>1. TypeOK
  BY Apart, EmptySeq DEF Init, TypeOK, Thread, Requests, Label
<1>2. PcOK /\ MutexOK /\ SocketOK
  BY Apart DEF Init, PcOK, MutexOK, SocketOK, Thread
<1>3. EverySocketHasOneOwner
  <2>1. DOMAIN client_queue = {}
    BY DEF Init
  <2>2. \A fd \in Fd : peer[fd] = None /\ \A t \in Thread : ~Holds(t, fd)
    BY DEF Init, Holds, Serves, Fd, NoFd
  <2> QED BY <2>1, <2>2 DEF EverySocketHasOneOwner
<1> QED BY <1>1, <1>2, <1>3 DEF QInv

\* Owners stay when nobody's hold, the queue or the other ends change.
LEMMA OwnersStay ==
  ASSUME EverySocketHasOneOwner, peer' = peer, client_queue' = client_queue,
         \A t \in Thread, fd \in Fd : Holds(t, fd)' <=> Holds(t, fd)
  PROVE  EverySocketHasOneOwner'
BY DEF EverySocketHasOneOwner, Queued

\* A client's step leaves the threads and their sockets alone.
LEMMA ClientKeepsQ ==
  ASSUME QInv, NEW c \in Client, ClientStep(c)
  PROVE  QInv'
<1>1. TypeOK'
  <2>1. CASE Connect(c)
    <3>1. Append(pending, c) \in Seq(Client)
      BY Appended DEF QInv, TypeOK
    <3> QED BY <2>1, <3>1 DEF QInv, TypeOK, Connect
  <2>2. CASE \E r \in Request \cup BadRequest : Send(c, r)
    BY <2>2 DEF QInv, TypeOK, Send, Requests
  <2>3. CASE Read(c)
    BY <2>3, EmptySeq DEF QInv, TypeOK, Read, Requests
  <2>4. CASE HangUp(c)
    BY <2>4, EmptySeq DEF QInv, TypeOK, HangUp, Requests
  <2> QED BY <2>1, <2>2, <2>3, <2>4 DEF ClientStep
<1>2. UNCHANGED <<client_queue, queue_mutex, pc, socket, peer>>
  BY DEF ClientStep, Connect, Send, Read, HangUp
<1>3. PcOK' /\ MutexOK' /\ SocketOK'
  BY <1>2 DEF QInv, PcOK, MutexOK, SocketOK
<1>4. EverySocketHasOneOwner'
  BY <1>2, OwnersStay DEF QInv, Holds, Serves
<1> QED BY <1>1, <1>3, <1>4 DEF QInv

\* The acceptor gets a socket for the connection that has waited longest.
LEMMA AcceptKeepsQ ==
  ASSUME QInv, Accept
  PROVE  QInv'
<1>1. PICK fd \in Fd : /\ peer[fd] = None
                      /\ peer' = [peer EXCEPT ![fd] = Head(pending)]
                      /\ socket' = [socket EXCEPT ![acceptor] = fd]
  BY DEF Accept, FreeFd
<1>2. Tail(pending) \in Seq(Client) /\ Head(pending) \in Client /\ Head(pending) # None
  BY Shortened, Apart DEF QInv, TypeOK, Accept
<1>3. acceptor \in Thread /\ fd # NoFd /\ pc[acceptor] = "accept"
  BY DEF Thread, Fd, NoFd, Accept
<1>4. TypeOK'
  BY <1>1, <1>2, <1>3 DEF QInv, TypeOK, Accept, Goto, Label
<1>5. PcOK' /\ MutexOK' /\ SocketOK'
  BY <1>1, <1>3, Apart DEF QInv, TypeOK, PcOK, MutexOK, SocketOK, Accept, Goto, Thread
<1>6. EverySocketHasOneOwner'
  <2>1. socket[acceptor] = NoFd
    BY <1>3 DEF QInv, SocketOK
  <2>2. \A f \in Fd : Holds(acceptor, f)' <=> f = fd
    BY <1>1, <1>3 DEF QInv, TypeOK, Holds
  <2>3. \A f \in Fd : ~Holds(acceptor, f)
    BY <2>1 DEF Holds, Fd, NoFd
  <2>4. \A w \in Worker, f \in Fd : Holds(w, f)' <=> Holds(w, f)
    BY <1>1, <1>3, Apart DEF QInv, TypeOK, Holds, Serves, Accept, Goto, Thread
  <2>5. client_queue' = client_queue
    BY DEF Accept
  <2>6. \A f \in Fd : peer'[f] = IF f = fd THEN Head(pending) ELSE peer[f]
    BY <1>1 DEF QInv, TypeOK
  <2> HIDE DEF Holds
  <2> QED BY <1>1, <1>2, <1>3, <2>2, <2>3, <2>4, <2>5, <2>6
          DEF QInv, EverySocketHasOneOwner, Queued, Thread
<1> QED BY <1>4, <1>5, <1>6 DEF QInv

\* Starting, and taking the mutex, changes no thread's hold on a socket.
LEMMA AcceptorKeepsQ ==
  ASSUME QInv,
         \/ Listen \/ (\E w \in Worker : StartWorker(w)) \/ AllStarted
         \/ LockToPush
  PROVE  QInv'
<1>1. UNCHANGED <<client_queue, socket, peer, request, pending, link, sent, waits, answer, whole>>
  BY DEF Listen, StartWorker, AllStarted, LockToPush, env
<1>2. TypeOK' /\ PcOK' /\ MutexOK' /\ SocketOK'
  <2>1. CASE Listen
    BY <2>1, <1>1, Apart
       DEF Listen, QInv, TypeOK, PcOK, MutexOK, SocketOK, Goto, Label, Thread
  <2>2. CASE \E w \in Worker : StartWorker(w)
    BY <2>2, <1>1, Apart
       DEF StartWorker, QInv, TypeOK, PcOK, MutexOK, SocketOK, Goto, Label, Thread
  <2>3. CASE AllStarted
    BY <2>3, <1>1, Apart
       DEF AllStarted, QInv, TypeOK, PcOK, MutexOK, SocketOK, Goto, Label, Thread
  <2>4. CASE LockToPush
    BY <2>4, <1>1, Apart
       DEF LockToPush, Acquire, QInv, TypeOK, PcOK, MutexOK, SocketOK, Goto, Label, Thread
  <2> QED BY <2>1, <2>2, <2>3, <2>4
<1>3. \A w \in Worker : pc'[w] \in {"recv", "reply"} <=> pc[w] \in {"recv", "reply"}
  BY Apart DEF Listen, StartWorker, AllStarted, LockToPush, Goto, QInv, TypeOK, Thread
<1>4. EverySocketHasOneOwner'
  BY <1>1, <1>3, OwnersStay DEF QInv, Holds, Serves, Thread
<1> QED BY <1>2, <1>4 DEF QInv

\* The acceptor's socket goes to the end of the queue.
LEMMA PushKeepsQ ==
  ASSUME QInv, Push
  PROVE  QInv'
<1> DEFINE fd == socket[acceptor]
           n == Len(client_queue)
<1>1. acceptor \in Thread /\ pc[acceptor] = "push" /\ fd \in Fd /\ fd # NoFd
  BY DEF Push, Thread, QInv, TypeOK, SocketOK
<1>2. UNCHANGED <<request, peer, pending, link, sent, waits, answer, whole>>
  BY DEF Push, env
<1>3. /\ client_queue' \in Seq(Fd) /\ client_queue' # <<>>
      /\ n \in Nat /\ DOMAIN client_queue = 1..n /\ DOMAIN client_queue' = 1..(n + 1)
      /\ client_queue'[n + 1] = fd
      /\ \A i \in 1..n : client_queue'[i] = client_queue[i]
  <2>1. client_queue' = Append(client_queue, fd) /\ client_queue \in Seq(Fd)
    BY DEF Push, QInv, TypeOK
  <2> HIDE DEF fd
  <2> QED BY <1>1, <2>1, Appended
<1>4. TypeOK' /\ PcOK'
  <2>1. /\ queue_mutex' = None
        /\ pc' = [pc EXCEPT ![acceptor] = "accept"]
        /\ socket' = [socket EXCEPT ![acceptor] = NoFd]
    BY DEF Push, Goto, Release
  <2>2. PcOK'
    BY <1>1, <2>1, Apart DEF QInv, TypeOK, PcOK, Thread
  <2>3. pc' \in [Thread -> Label] /\ socket' \in [Thread -> Fd \cup {NoFd}]
    BY <1>1, <2>1 DEF QInv, TypeOK, Label
  <2> QED BY <1>2, <1>3, <2>1, <2>2, <2>3 DEF QInv, TypeOK
<1>5. MutexOK'
  BY <1>1, Apart DEF Push, QInv, TypeOK, MutexOK, Goto, Release, Thread
<1>6. SocketOK'
  <2>1. \A w \in Worker : pc[w] # "pop"
    BY <1>1, Apart DEF QInv, MutexOK, Thread
  <2>2. \A w \in Worker : pc'[w] = pc[w] /\ socket'[w] = socket[w]
    BY Apart DEF Push, Goto, QInv, TypeOK, Thread
  <2>3. pc'[acceptor] = "accept" /\ socket'[acceptor] = NoFd
    BY <1>1 DEF Push, Goto, QInv, TypeOK
  <2> QED BY <2>1, <2>2, <2>3 DEF QInv, SocketOK
<1>7. EverySocketHasOneOwner'
  <2>1. \A f \in Fd : ~Holds(acceptor, f)' /\ (Holds(acceptor, f) <=> f = fd)
    BY <1>1 DEF Push, Holds, QInv, TypeOK, Fd, NoFd
  <2>2. \A w \in Worker, f \in Fd : Holds(w, f)' <=> Holds(w, f)
    BY Apart DEF Push, Goto, Holds, Serves, QInv, TypeOK, Thread
  <2>3. peer[fd] # None /\ \A i \in 1..n : client_queue[i] # fd
    BY <1>1, <1>3, <2>1 DEF QInv, EverySocketHasOneOwner, Queued
  <2> HIDE DEF Holds
  <2> QED BY <1>1, <1>2, <1>3, <2>1, <2>2, <2>3
          DEF QInv, EverySocketHasOneOwner, Queued, Thread
<1> QED BY <1>4, <1>5, <1>6, <1>7 DEF QInv

\* The types of what threads do.
LEMMA ThreadTypes ==
  ASSUME QInv
  PROVE  /\ pc \in [Thread -> Label]
         /\ socket \in [Thread -> Fd \cup {NoFd}]
         /\ client_queue \in Seq(Fd)
         /\ \A w \in Worker : w \in Thread /\ w # acceptor
         /\ acceptor \in Thread
BY Apart DEF QInv, TypeOK, Thread

\* A worker that takes the mutex, finds nothing, receives or replies keeps hold
\* of what it has.
LEMMA WorkerKeepsQ ==
  ASSUME QInv, NEW w \in Worker, LockToTake(w) \/ FoundEmpty(w) \/ Receive(w) \/ Reply(w)
  PROVE  QInv'
<1>1. UNCHANGED <<client_queue, socket, peer, pending, link, waits>> /\ w \in Thread
  BY DEF LockToTake, FoundEmpty, Receive, Reply, env, Thread
<1>2. \/ /\ pc[w] = "lock" /\ pc' = [pc EXCEPT ![w] = "empty"]
         /\ queue_mutex = None /\ queue_mutex' = w
      \/ /\ pc[w] = "empty" /\ pc' = [pc EXCEPT ![w] = "lock"] /\ queue_mutex' = None
      \/ /\ pc[w] = "recv" /\ pc' = [pc EXCEPT ![w] = "reply"] /\ UNCHANGED queue_mutex
      \/ /\ pc[w] = "reply" /\ pc' = [pc EXCEPT ![w] = "recv"] /\ UNCHANGED queue_mutex
  BY DEF LockToTake, FoundEmpty, Receive, Reply, Goto, Acquire, Release
<1>3. /\ request' \in [Worker -> Requests] /\ sent' \in [Client -> Requests]
      /\ answer' \in [Client -> Seq(Requests)] /\ whole' \in [Client -> BOOLEAN]
  <2>1. CASE LockToTake(w) \/ FoundEmpty(w)
    BY <2>1 DEF LockToTake, FoundEmpty, env, QInv, TypeOK
  <2>2. CASE Receive(w) \/ Reply(w)
    <3>1. socket[w] \in Fd
      BY <1>1, <2>2 DEF Receive, Reply, QInv, TypeOK, SocketOK
    <3>2. peer[socket[w]] \in Client
      BY <1>1, <3>1, <2>2, Apart
         DEF Receive, Reply, QInv, TypeOK, EverySocketHasOneOwner, Holds, Serves
    <3>3. CASE Receive(w)
      BY <3>2, <3>3 DEF Receive, QInv, TypeOK, Requests
    <3>4. CASE Reply(w)
      <4>1. Append(answer[peer[socket[w]]], request[w]) \in Seq(Requests)
        BY <3>2, Appended DEF QInv, TypeOK
      <4> QED BY <3>2, <3>4, <4>1 DEF Reply, QInv, TypeOK, Requests
    <3> QED BY <2>2, <3>3, <3>4
  <2> QED BY <2>1, <2>2
<1>4. TypeOK'
  BY <1>1, <1>2, <1>3 DEF QInv, TypeOK, Label, Thread
<1>5. PcOK' /\ MutexOK' /\ SocketOK'
  <2>1. PcOK'
    BY <1>2, ThreadTypes DEF QInv, PcOK
  <2>2. MutexOK'
    BY <1>1, <1>2, ThreadTypes, Apart DEF QInv, MutexOK
  <2>3. SocketOK'
    BY <1>1, <1>2, ThreadTypes DEF QInv, SocketOK
  <2> QED BY <2>1, <2>2, <2>3
<1>6. \A v \in Worker : pc'[v] \in {"recv", "reply"} <=> pc[v] \in {"recv", "reply"}
  BY <1>1, <1>2, ThreadTypes
<1>7. EverySocketHasOneOwner'
  <2>1. \A t \in Thread, fd \in Fd : Holds(t, fd)' <=> Holds(t, fd)
    BY <1>1, <1>6 DEF Holds, Serves, Thread
  <2> QED BY <1>1, <2>1, OwnersStay DEF QInv
<1> QED BY <1>4, <1>5, <1>7 DEF QInv

\* A worker that looks at the front of the queue does not hold the socket yet.
LEMMA LookAtFrontKeepsQ ==
  ASSUME QInv, NEW w \in Worker, LookAtFront(w)
  PROVE  QInv'
<1>1. /\ UNCHANGED <<client_queue, queue_mutex, request, peer, pending, link, sent, waits,
                     answer, whole>>
      /\ client_queue # <<>> /\ w \in Thread /\ w # acceptor
      /\ pc[w] = "empty" /\ pc' = [pc EXCEPT ![w] = "pop"]
      /\ socket' = [socket EXCEPT ![w] = Head(client_queue)]
  BY Apart DEF LookAtFront, Goto, env, Thread
<1>2. Head(client_queue) \in Fd /\ Head(client_queue) # NoFd
  <2>1. Head(client_queue) \in Fd
    BY <1>1, ThreadTypes, Shortened
  <2> QED BY <2>1 DEF Fd, NoFd
<1>3. TypeOK' /\ PcOK' /\ MutexOK' /\ SocketOK'
  <2>1. TypeOK'
    BY <1>1, <1>2 DEF QInv, TypeOK, Label
  <2>2. PcOK' /\ MutexOK'
    BY <1>1, ThreadTypes DEF QInv, PcOK, MutexOK
  <2>3. SocketOK'
    BY <1>1, <1>2, ThreadTypes DEF QInv, SocketOK
  <2> QED BY <2>1, <2>2, <2>3
<1>4. \A t \in Thread, fd \in Fd : Holds(t, fd)' <=> Holds(t, fd)
  BY <1>1, ThreadTypes DEF Holds, Serves
<1>5. EverySocketHasOneOwner'
  BY <1>1, <1>4, OwnersStay DEF QInv
<1> QED BY <1>3, <1>5 DEF QInv

\* A worker that pops takes what it saw at the front: the mutex kept all others
\* from the queue.
LEMMA PopKeepsQ ==
  ASSUME QInv, NEW w \in Worker, Pop(w)
  PROVE  QInv'
<1> DEFINE fd == socket[w]
           n == Len(client_queue)
<1>1. /\ UNCHANGED <<socket, request, peer, pending, link, sent, waits, answer, whole>>
      /\ w \in Thread /\ w # acceptor
      /\ pc[w] = "pop" /\ pc' = [pc EXCEPT ![w] = "recv"]
      /\ queue_mutex' = None
  BY ThreadTypes DEF Pop, Goto, Release, env
<1>2. client_queue # <<>> /\ fd = Head(client_queue)
  BY <1>1 DEF QInv, SocketOK
<1>3. client_queue' = Tail(client_queue)
  BY <1>2 DEF Pop
<1>4. /\ client_queue' \in Seq(Fd) /\ fd \in Fd
      /\ n \in Nat \ {0} /\ DOMAIN client_queue = 1..n /\ DOMAIN client_queue' = 1..(n - 1)
      /\ client_queue[1] = fd
      /\ \A i \in 1..(n - 1) : client_queue'[i] = client_queue[i + 1]
  <2> HIDE DEF fd
  <2> QED BY <1>2, <1>3, ThreadTypes, Shortened
<1>5. \A t \in Thread : t # w => pc[t] \notin {"push", "empty", "pop"}
  BY <1>1 DEF QInv, MutexOK
<1>6. TypeOK'
  BY <1>1, <1>4 DEF QInv, TypeOK, Label
<1>7. PcOK'
  BY <1>1, ThreadTypes DEF QInv, PcOK
<1>8. MutexOK'
  BY <1>1, <1>5, ThreadTypes, Apart DEF MutexOK
<1>9. SocketOK'
  BY <1>1, <1>5, ThreadTypes DEF QInv, SocketOK
<1>10. EverySocketHasOneOwner'
  <2>1. \A f \in Fd : ~Holds(w, f) /\ (Holds(w, f)' <=> f = fd)
    BY <1>1, ThreadTypes DEF Holds, Serves
  <2>2. \A t \in Thread, f \in Fd : t # w => (Holds(t, f)' <=> Holds(t, f))
    BY <1>1, ThreadTypes DEF Holds, Serves
  <2>3. /\ peer[fd] # None
        /\ \A i \in 2..n : client_queue[i] # fd
        /\ \A t \in Thread : ~Holds(t, fd)
    BY <1>4 DEF QInv, EverySocketHasOneOwner, Queued
  <2>4. \A f \in Fd :
          /\ (peer[f] # None)' <=> \/ \E t \in Thread : Holds(t, f)'
                                  \/ \E i \in DOMAIN client_queue' : Queued(i, f)'
    <3>1. \A f \in Fd : f # fd =>
            ((\E i \in DOMAIN client_queue' : Queued(i, f)')
               <=> \E i \in DOMAIN client_queue : Queued(i, f))
      <4> TAKE f \in Fd
      <4> HAVE f # fd
      <4>1. ASSUME NEW i \in 1..n, client_queue[i] = f
            PROVE  i - 1 \in 1..(n - 1) /\ client_queue'[i - 1] = f
        BY <1>4, <4>1
      <4>2. ASSUME NEW i \in 1..(n - 1), client_queue'[i] = f
            PROVE  i + 1 \in 1..n /\ client_queue[i + 1] = f
        BY <1>4, <4>2
      <4> QED BY <1>4, <4>1, <4>2 DEF Queued
    <3> HIDE DEF Holds
    <3> QED BY <1>1, <2>1, <2>2, <2>3, <3>1 DEF QInv, EverySocketHasOneOwner
  <2>5. \A f \in Fd, t \in Thread, u \in Thread : Holds(t, f)' /\ Holds(u, f)' => t = u
    BY <1>1, <2>1, <2>2, <2>3 DEF QInv, EverySocketHasOneOwner
  <2>6. ASSUME NEW f \in Fd, NEW i \in DOMAIN client_queue', Queued(i, f)'
        PROVE  /\ \A j \in DOMAIN client_queue' : Queued(j, f)' => i = j
               /\ \A t \in Thread : ~Holds(t, f)'
    <3>1. i + 1 \in 2..n /\ client_queue[i + 1] = f
      BY <1>4, <2>6 DEF Queued
    <3>2. f # fd /\ \A t \in Thread : ~Holds(t, f)
      BY <1>4, <2>3, <3>1 DEF QInv, EverySocketHasOneOwner, Queued
    <3>3. ASSUME NEW j \in 1..(n - 1), client_queue'[j] = f
          PROVE  i = j
      <4>1. j + 1 \in 1..n /\ client_queue[j + 1] = f
        BY <1>4, <3>3
      <4>2. i + 1 = j + 1
        BY <1>4, <3>1, <4>1 DEF QInv, EverySocketHasOneOwner, Queued
      <4> QED BY <1>4, <4>2
    <3> QED BY <1>4, <2>1, <2>2, <3>2, <3>3 DEF Queued
  <2> HIDE DEF Holds, Queued
  <2> QED BY <2>4, <2>5, <2>6 DEF EverySocketHasOneOwner
<1> QED BY <1>6, <1>7, <1>8, <1>9, <1>10 DEF QInv

\* A worker closes a socket that is its own, so nobody is left with it.
LEMMA CloseKeepsQ ==
  ASSUME QInv, NEW w \in Worker, Close(w)
  PROVE  QInv'
<1> DEFINE fd == socket[w]
           c == peer[fd]
<1>1. /\ UNCHANGED <<client_queue, queue_mutex, request, pending, sent, waits, answer, whole>>
      /\ w \in Thread /\ w # acceptor
      /\ pc[w] = "recv" /\ pc' = [pc EXCEPT ![w] = "lock"]
      /\ peer' = [peer EXCEPT ![fd] = None]
      /\ link' = [link EXCEPT ![c] = "away"]
      /\ socket' = [socket EXCEPT ![w] = NoFd]
  BY ThreadTypes DEF Close, Goto
<1>2. fd \in Fd
  BY <1>1, ThreadTypes DEF QInv, SocketOK
<1>3. Holds(w, fd)
  BY <1>1 DEF Holds, Serves
<1>4. TypeOK'
  <2>1. link' \in [Client -> {"away", "open", "closed"}]
    BY <1>1 DEF QInv, TypeOK
  <2> HIDE DEF c
  <2> QED BY <1>1, <1>2, <2>1 DEF QInv, TypeOK, Label
<1>5. PcOK' /\ MutexOK' /\ SocketOK'
  <2>1. PcOK' /\ MutexOK'
    BY <1>1, ThreadTypes DEF QInv, PcOK, MutexOK
  <2>2. SocketOK'
    BY <1>1, ThreadTypes DEF QInv, SocketOK
  <2> QED BY <2>1, <2>2
<1>6. EverySocketHasOneOwner'
  <2>1. \A f \in Fd : ~Holds(w, f)' /\ (Holds(w, f) <=> f = fd)
    BY <1>1, <1>2, ThreadTypes DEF Holds, Serves, Fd, NoFd
  <2>2. \A t \in Thread, f \in Fd : t # w => (Holds(t, f)' <=> Holds(t, f))
    BY <1>1, ThreadTypes DEF Holds, Serves
  <2>3. \A f \in Fd : peer'[f] = IF f = fd THEN None ELSE peer[f]
    BY <1>1 DEF QInv, TypeOK
  <2>4. \A i \in DOMAIN client_queue : client_queue[i] # fd
    BY <1>1, <1>2, <1>3 DEF QInv, EverySocketHasOneOwner, Queued
  <2> HIDE DEF Holds, c
  <2> QED BY <1>1, <1>2, <1>3, <2>1, <2>2, <2>3, <2>4
          DEF QInv, EverySocketHasOneOwner, Queued
<1> QED BY <1>4, <1>5, <1>6 DEF QInv

\* The process ends, and nobody is left with anything.
LEMMA KilledKeepsQ ==
  ASSUME QInv, NEW w \in Worker, Killed(w)
  PROVE  QInv'
<1>1. /\ UNCHANGED <<link, sent, waits, answer, whole>>
      /\ client_queue' = <<>> /\ queue_mutex' = None /\ pending' = <<>>
      /\ pc' = [t \in Thread |-> "ended"]
      /\ socket' = [t \in Thread |-> NoFd]
      /\ request' = [v \in Worker |-> None]
      /\ peer' = [fd \in Fd |-> None]
  BY DEF Killed
<1>2. TypeOK'
  BY <1>1, EmptySeq DEF QInv, TypeOK, Label, Requests
<1>3. PcOK' /\ MutexOK' /\ SocketOK'
  BY <1>1, Apart DEF PcOK, MutexOK, SocketOK, Thread
<1>4. EverySocketHasOneOwner'
  <2>1. DOMAIN client_queue' = {}
    BY <1>1
  <2>2. \A fd \in Fd : peer'[fd] = None /\ \A t \in Thread : ~Holds(t, fd)'
    BY <1>1 DEF Holds, Serves, Fd, NoFd
  <2> QED BY <2>1, <2>2 DEF EverySocketHasOneOwner
<1> QED BY <1>2, <1>3, <1>4 DEF QInv

\* The server's safety: its queue and its descriptors, whatever the clients do.
LEMMA QInductive == QInv /\ [Next]_vars => QInv'
<1> SUFFICES ASSUME QInv, [Next]_vars PROVE QInv'
  OBVIOUS
<1>1. CASE AcceptorStep
  BY <1>1, AcceptKeepsQ, PushKeepsQ, AcceptorKeepsQ DEF AcceptorStep
<1>2. CASE \E w \in Worker : WorkerStep(w)
  BY <1>2, WorkerKeepsQ, LookAtFrontKeepsQ, PopKeepsQ, CloseKeepsQ, KilledKeepsQ DEF WorkerStep
<1>3. CASE \E c \in Client : ClientStep(c)
  BY <1>3, ClientKeepsQ
<1>4. CASE UNCHANGED vars
  BY <1>4 DEF vars, QInv, TypeOK, PcOK, MutexOK, SocketOK, EverySocketHasOneOwner, Holds, Serves,
              Queued
<1> QED BY <1>1, <1>2, <1>3, <1>4 DEF Next, NothingIsServed

LEMMA QInvariant == Spec => []QInv
BY InitQ, QInductive, PTL DEF Spec

\* Types.
THEOREM TypeCorrect == Spec => []TypeOK
<1>1. QInv => TypeOK
  BY DEF QInv
<1> QED BY <1>1, QInvariant, PTL

\* However many connections there are, wait and end, and however few descriptors
\* they share: each has one owner, and only what is open has one.
THEOREM SocketsHaveOneOwner == Spec => []EverySocketHasOneOwner
<1>1. QInv => EverySocketHasOneOwner
  BY DEF QInv
<1> QED BY <1>1, QInvariant, PTL
-----------------------------------------------------------------------------
(* Connections and answers.                                                *)

\* A client has one connection: it waits to be accepted, or is at the other end
\* of one descriptor.  One that is away has none.
ConnOK ==
  /\ \A i \in DOMAIN pending :
       /\ link[pending[i]] # "away"
       /\ \A j \in DOMAIN pending : pending[i] = pending[j] => i = j
       /\ \A fd \in Fd : peer[fd] # pending[i]
  /\ \A fd \in Fd : peer[fd] # None =>
       /\ link[peer[fd]] # "away"
       /\ \A other \in Fd : peer[fd] = peer[other] => fd = other

\* A worker with a request of c to reply to.
Replies(w, c) == pc[w] = "reply" /\ peer[socket[w]] = c

\* Of the request a client waits for an answer to one copy is under way: before
\* a recv, with a worker, or answered.
AnswerOK ==
  /\ \A w \in Worker : pc[w] = "reply" => request[w] # None
  /\ \A c \in Client :
       /\ link[c] # "open" => answer[c] = <<>> /\ waits[c] = None
       /\ link[c] = "away" => sent[c] = None
       /\ link[c] = "open" /\ whole[c] =>
            /\ sent[c] # None => sent[c] = waits[c] /\ answer[c] = <<>>
            /\ answer[c] # <<>> => answer[c] = <<waits[c]>> /\ waits[c] # None
            /\ \A w \in Worker : Replies(w, c) =>
                 request[w] = waits[c] /\ answer[c] = <<>> /\ sent[c] = None

\* What the answers rest on.
AInv == QInv /\ ConnOK /\ AnswerOK

\* The types of what clients do.
LEMMA ClientTypes ==
  ASSUME QInv
  PROVE  /\ peer \in [Fd -> Client \cup {None}] /\ pending \in Seq(Client)
         /\ link \in [Client -> {"away", "open", "closed"}]
         /\ request \in [Worker -> Requests]
         /\ sent \in [Client -> Requests] /\ waits \in [Client -> Requests]
         /\ answer \in [Client -> Seq(Requests)] /\ whole \in [Client -> BOOLEAN]
         /\ Len(pending) \in Nat /\ DOMAIN pending = 1..Len(pending)
<1>1. pending \in Seq(Client)
  BY DEF QInv, TypeOK
<1>2. Len(pending) \in Nat /\ DOMAIN pending = 1..Len(pending)
  BY <1>1, LenProperties
<1> QED BY <1>2 DEF QInv, TypeOK

LEMMA InitA == Init => AInv
<1> SUFFICES ASSUME Init PROVE AInv
  OBVIOUS
<1>1. DOMAIN pending = {}
  BY DEF Init
<1>2. ConnOK
  BY <1>1 DEF Init, ConnOK
<1>3. AnswerOK
  BY Apart DEF Init, AnswerOK, Replies, Thread
<1> QED BY <1>2, <1>3, InitQ DEF AInv

\* A worker at recv or reply has a client at the other end, and no other worker
\* has the same client.
LEMMA ServedEnds ==
  ASSUME QInv, NEW w \in Worker, pc[w] \in {"recv", "reply"}
  PROVE  /\ socket[w] \in Fd
         /\ peer[socket[w]] \in Client
         /\ ConnOK => \A v \in Worker :
              pc[v] \in {"recv", "reply"} /\ peer[socket[v]] = peer[socket[w]] => v = w
<1>1. \A v \in Worker : pc[v] \in {"recv", "reply"} =>
        /\ socket[v] \in Fd /\ v \in Thread /\ Holds(v, socket[v])
        /\ peer[socket[v]] # None
  <2> TAKE v \in Worker
  <2> HAVE pc[v] \in {"recv", "reply"}
  <2>1. socket[v] \in Fd
    BY ThreadTypes DEF QInv, SocketOK
  <2>2. v \in Thread /\ Holds(v, socket[v])
    BY ThreadTypes DEF Holds, Serves
  <2>3. peer[socket[v]] # None
    BY <2>1, <2>2 DEF QInv, EverySocketHasOneOwner
  <2> QED BY <2>1, <2>2, <2>3
<1>2. peer[socket[w]] \in Client
  BY <1>1, ClientTypes
<1>3. ASSUME ConnOK, NEW v \in Worker, pc[v] \in {"recv", "reply"},
             peer[socket[v]] = peer[socket[w]]
      PROVE  v = w
  <2>1. socket[v] = socket[w]
    BY <1>1, <1>3 DEF ConnOK
  <2>2. Holds(v, socket[w]) /\ Holds(w, socket[w]) /\ socket[w] \in Fd
    BY <1>1, <1>3, <2>1
  <2> QED BY <1>1, <1>3, <2>2 DEF QInv, EverySocketHasOneOwner
<1> QED BY <1>1, <1>2, <1>3

\* The threads' own steps, which touch no connection.
LEMMA ThreadsKeepA ==
  ASSUME AInv, UNCHANGED <<request, env>>,
         \A w \in Worker : /\ pc'[w] = "reply" <=> pc[w] = "reply"
                           /\ pc[w] = "reply" => socket'[w] = socket[w]
  PROVE  ConnOK' /\ AnswerOK'
<1>1. ConnOK'
  BY DEF AInv, ConnOK, env
<1>2. AnswerOK'
  BY DEF AInv, AnswerOK, Replies, env
<1> QED BY <1>1, <1>2

LEMMA ConnectKeepsA ==
  ASSUME AInv, NEW c \in Client, Connect(c)
  PROVE  ConnOK' /\ AnswerOK'
<1> DEFINE n == Len(pending)
<1>1. /\ UNCHANGED <<pc, socket, request, peer, sent, waits, answer>>
      /\ link[c] = "away" /\ link' = [link EXCEPT ![c] = "open"]
      /\ pending' = Append(pending, c)
      /\ whole' = [whole EXCEPT ![c] = TRUE]
  BY DEF Connect
<1>2. QInv
  BY DEF AInv
<1>3. /\ n \in Nat /\ DOMAIN pending = 1..n /\ DOMAIN pending' = 1..(n + 1)
      /\ pending'[n + 1] = c
      /\ \A i \in 1..n : pending'[i] = pending[i] /\ pending[i] \in Client
  <2>1. pending \in Seq(Client)
    BY <1>2, ClientTypes
  <2> QED BY <1>1, <2>1, Appended, ElementOfSeq
<1>4. /\ \A i \in 1..n : pending[i] # c
      /\ \A fd \in Fd : peer[fd] # c
  BY <1>1, <1>3, Apart DEF AInv, ConnOK
<1>5. \A d \in Client : link'[d] = IF d = c THEN "open" ELSE link[d]
  BY <1>1, <1>2, ClientTypes
<1>6. ConnOK'
  <2>1. \A i, j \in 1..(n + 1) : pending'[i] = pending'[j] => i = j
    <3> TAKE i, j \in 1..(n + 1)
    <3>1. (i = n + 1 \/ i \in 1..n) /\ (j = n + 1 \/ j \in 1..n)
      BY <1>3
    <3> QED BY <1>3, <1>4, <3>1 DEF AInv, ConnOK
  <2>2. \A i \in 1..(n + 1) :
          link'[pending'[i]] # "away" /\ \A fd \in Fd : peer[fd] # pending'[i]
    <3> TAKE i \in 1..(n + 1)
    <3>1. i = n + 1 \/ i \in 1..n
      BY <1>3
    <3> QED BY <1>3, <1>4, <1>5, <3>1 DEF AInv, ConnOK
  <2>3. \A fd \in Fd : peer[fd] # None => link'[peer[fd]] # "away"
    BY <1>2, <1>4, <1>5, ClientTypes DEF AInv, ConnOK
  <2>4. \A fd, other \in Fd : peer[fd] # None /\ peer[fd] = peer[other] => fd = other
    BY DEF AInv, ConnOK
  <2> QED BY <1>1, <1>3, <2>1, <2>2, <2>3, <2>4 DEF ConnOK
<1>7. AnswerOK'
  <2>1. \A w \in Worker : ~Replies(w, c)
    BY <1>2, <1>4, ServedEnds DEF Replies
  <2>2. sent[c] = None /\ answer[c] = <<>> /\ waits[c] = None
    BY <1>1 DEF AInv, AnswerOK
  <2>3. \A d \in Client : d # c => whole'[d] = whole[d]
    BY <1>1, <1>2, ClientTypes
  <2>4. \A w \in Worker, d \in Client : Replies(w, d)' <=> Replies(w, d)
    BY <1>1 DEF Replies
  <2> QED BY <1>1, <1>5, <2>1, <2>2, <2>3, <2>4 DEF AInv, AnswerOK
<1> QED BY <1>6, <1>7

\* What a client sends, reads and drops by itself.
LEMMA ClientKeepsA ==
  ASSUME AInv, NEW c \in Client,
         (\E r \in Request \cup BadRequest : Send(c, r)) \/ Read(c) \/ HangUp(c)
  PROVE  ConnOK' /\ AnswerOK'
<1>1. UNCHANGED <<pc, socket, request, peer, pending, whole>>
  BY DEF Send, Read, HangUp
<1>2. QInv
  BY DEF AInv
<1>3. \A d \in Client : link'[d] = "away" <=> link[d] = "away"
  BY <1>2, ClientTypes DEF Send, Read, HangUp
<1>4. ConnOK'
  <2>1. \A i \in DOMAIN pending : pending[i] \in Client
    BY <1>2, ClientTypes, ElementOfSeq
  <2>2. \A fd \in Fd : peer[fd] # None => peer[fd] \in Client
    BY <1>2, ClientTypes
  <2> QED BY <1>1, <1>3, <2>1, <2>2 DEF AInv, ConnOK
<1>5. \A w \in Worker, d \in Client : Replies(w, d)' <=> Replies(w, d)
  BY <1>1 DEF Replies
<1>6. AnswerOK'
  <2>1. CASE \E r \in Request \cup BadRequest : Send(c, r)
    <3>1. PICK r \in Request \cup BadRequest : Send(c, r)
      BY <2>1
    <3>2. /\ UNCHANGED <<link, answer>> /\ r # None
          /\ link[c] = "open" /\ waits[c] = None /\ sent[c] = None
          /\ \A d \in Client : /\ waits'[d] = IF d = c THEN r ELSE waits[d]
                               /\ sent'[d] = IF d = c THEN r ELSE sent[d]
      BY <1>2, <3>1, ClientTypes, Apart DEF Send
    <3>3. whole[c] => answer[c] = <<>> /\ \A w \in Worker : ~Replies(w, c)
      BY <3>2 DEF AInv, AnswerOK, Replies
    <3> QED BY <1>1, <1>5, <3>2, <3>3 DEF AInv, AnswerOK
  <2>2. CASE Read(c)
    <3>1. /\ UNCHANGED <<link, sent>> /\ answer[c] # <<>>
          /\ \A d \in Client : /\ waits'[d] = IF d = c THEN None ELSE waits[d]
                               /\ answer'[d] = IF d = c THEN <<>> ELSE answer[d]
      BY <1>2, <2>2, ClientTypes DEF Read
    <3>2. whole[c] => sent[c] = None /\ \A w \in Worker : ~Replies(w, c)
      BY <3>1 DEF AInv, AnswerOK
    <3> QED BY <1>1, <1>5, <3>1, <3>2 DEF AInv, AnswerOK
  <2>3. CASE HangUp(c)
    <3>1. /\ UNCHANGED sent
          /\ \A d \in Client : /\ link'[d] = IF d = c THEN "closed" ELSE link[d]
                               /\ waits'[d] = IF d = c THEN None ELSE waits[d]
                               /\ answer'[d] = IF d = c THEN <<>> ELSE answer[d]
      BY <1>2, <2>3, ClientTypes DEF HangUp
    <3> QED BY <1>1, <1>5, <3>1 DEF AInv, AnswerOK
  <2> QED BY <2>1, <2>2, <2>3
<1> QED BY <1>4, <1>6

\* Accept moves a connection from those that wait to a descriptor no worker has.
LEMMA AcceptKeepsA ==
  ASSUME AInv, Accept
  PROVE  ConnOK' /\ AnswerOK'
<1> DEFINE n == Len(pending)
           c == Head(pending)
<1>1. PICK fd \in Fd : /\ peer[fd] = None
                      /\ peer' = [peer EXCEPT ![fd] = c]
                      /\ socket' = [socket EXCEPT ![acceptor] = fd]
  BY DEF Accept, FreeFd
<1>2. /\ QInv /\ pending # <<>> /\ pending' = Tail(pending)
      /\ UNCHANGED <<request, link, sent, waits, answer, whole>>
      /\ pc' = [pc EXCEPT ![acceptor] = "lock"]
  BY DEF AInv, Accept, Goto
<1>3. /\ n \in Nat \ {0} /\ DOMAIN pending = 1..n /\ DOMAIN pending' = 1..(n - 1)
      /\ c \in Client /\ c = pending[1]
      /\ \A i \in 1..(n - 1) : pending'[i] = pending[i + 1]
  <2>1. pending \in Seq(Client)
    BY <1>2, ClientTypes
  <2> QED BY <1>2, <2>1, Shortened
<1>4. \A f \in Fd : peer'[f] = IF f = fd THEN c ELSE peer[f]
  BY <1>1, <1>2, ClientTypes
<1>5. ConnOK'
  <2> HIDE DEF c
  <2>1. \A i \in 1..(n - 1) :
          /\ i + 1 \in 1..n
          /\ link[pending[i + 1]] # "away" /\ pending[i + 1] # c
          /\ \A f \in Fd : peer[f] # pending[i + 1]
    <3> TAKE i \in 1..(n - 1)
    <3>1. i + 1 \in 1..n /\ 1 \in 1..n /\ i + 1 # 1
      BY <1>3
    <3> QED BY <1>3, <3>1 DEF AInv, ConnOK
  <2>2. \A i, j \in 1..(n - 1) : pending'[i] = pending'[j] => i = j
    <3> TAKE i, j \in 1..(n - 1)
    <3>1. i + 1 = j + 1 => i = j
      BY <1>3
    <3> QED BY <1>3, <2>1, <3>1 DEF AInv, ConnOK
  <2>3. link[c] # "away" /\ \A f \in Fd : peer[f] # c
    BY <1>3 DEF AInv, ConnOK
  <2>4. \A f \in Fd : peer'[f] # None =>
          link[peer'[f]] # "away" /\ \A g \in Fd : peer'[f] = peer'[g] => f = g
    BY <1>4, <2>3 DEF AInv, ConnOK
  <2> QED BY <1>2, <1>3, <1>4, <2>1, <2>2, <2>4 DEF ConnOK
<1>6. AnswerOK'
  <2>1. \A w \in Worker : pc'[w] = pc[w] /\ socket'[w] = socket[w]
    BY <1>1, <1>2, ThreadTypes
  <2>2. \A w \in Worker : pc[w] = "reply" => socket[w] # fd /\ socket[w] \in Fd
    BY <1>1, <1>2, ServedEnds, Apart
  <2>3. \A w \in Worker, d \in Client : Replies(w, d)' <=> Replies(w, d)
    BY <1>4, <2>1, <2>2 DEF Replies
  <2> QED BY <1>2, <2>1, <2>3 DEF AInv, AnswerOK
<1> QED BY <1>5, <1>6

\* A worker has the client to itself: nothing else comes between a request and
\* its answer.
LEMMA ReceiveKeepsA ==
  ASSUME AInv, NEW w \in Worker, Receive(w)
  PROVE  ConnOK' /\ AnswerOK'
<1>0. PICK c \in Client : c = peer[socket[w]]
  BY ServedEnds DEF AInv, Receive, Reply
<1>1. /\ QInv /\ w \in Thread
      /\ UNCHANGED <<socket, peer, pending, link, waits, answer>>
      /\ pc[w] = "recv" /\ pc' = [pc EXCEPT ![w] = "reply"]
      /\ sent[c] # None
  BY <1>0 DEF AInv, Receive, Goto, Thread
<1>2. \A v \in Worker : Replies(v, c) => v = w
  BY <1>0, <1>1, ServedEnds DEF AInv, Replies
<1>3. \A v \in Worker, d \in Client :
        Replies(v, d)' <=> IF v = w THEN d = c ELSE Replies(v, d)
  <2>1. \A v \in Worker : pc'[v] = IF v = w THEN "reply" ELSE pc[v]
    BY <1>1, ThreadTypes
  <2> QED BY <1>0, <1>1, <2>1 DEF Replies
<1>4. ConnOK'
  BY <1>1 DEF AInv, ConnOK
<1>5. /\ \A v \in Worker : v # w => request'[v] = request[v]
      /\ \A d \in Client : d # c => sent'[d] = sent[d] /\ whole'[d] = whole[d]
      /\ request'[w] # None
      /\ \/ request'[w] = sent[c] /\ sent'[c] = None /\ whole'[c] = whole[c]
         \/ ~whole'[c] /\ link[c] # "away"
  <2>1. link[c] # "away"
    BY <1>1, <1>2 DEF AInv, AnswerOK
  <2> QED BY <1>0, <1>1, <2>1, ClientTypes, Apart DEF Receive
<1>6. AnswerOK'
  <2>1. \A v \in Worker : pc'[v] = "reply" => request'[v] # None
    BY <1>1, <1>5, ThreadTypes DEF AInv, AnswerOK
  <2>2. link[c] # "away"
    BY <1>1, <1>2 DEF AInv, AnswerOK
  <2>3. link[c] = "open" /\ whole'[c] =>
          /\ sent'[c] = None /\ answer[c] = <<>> /\ request'[w] = waits[c]
    BY <1>1, <1>2, <1>5 DEF AInv, AnswerOK
  <2>4. \A v \in Worker : Replies(v, c)' => v = w
    BY <1>2, <1>3
  <2>5. \A v \in Worker, d \in Client : d # c /\ Replies(v, d)' =>
          v # w /\ Replies(v, d)
    BY <1>3
  <2> HIDE DEF Replies
  <2> QED BY <1>1, <1>2, <1>5, <2>1, <2>2, <2>3, <2>4, <2>5 DEF AInv, AnswerOK
<1> QED BY <1>4, <1>6

LEMMA ReplyKeepsA ==
  ASSUME AInv, NEW w \in Worker, Reply(w)
  PROVE  ConnOK' /\ AnswerOK'
<1>0. PICK c \in Client : c = peer[socket[w]]
  BY ServedEnds DEF AInv, Receive, Reply
<1>1. /\ QInv /\ w \in Thread
      /\ UNCHANGED <<socket, peer, pending, link, sent, waits, whole>>
      /\ pc[w] = "reply" /\ pc' = [pc EXCEPT ![w] = "recv"]
      /\ request' = [request EXCEPT ![w] = None]
      /\ answer' = IF link[c] = "open" THEN [answer EXCEPT ![c] = Append(@, request[w])]
                   ELSE answer
  BY <1>0 DEF AInv, Reply, Goto, Thread
<1>2. \A v \in Worker : Replies(v, c) => v = w
  BY <1>0, <1>1, ServedEnds DEF AInv, Replies
<1>3. \A v \in Worker, d \in Client : Replies(v, d)' <=> v # w /\ Replies(v, d)
  <2>1. \A v \in Worker : pc'[v] = IF v = w THEN "recv" ELSE pc[v]
    BY <1>1, ThreadTypes
  <2> QED BY <1>0, <1>1, <2>1 DEF Replies
<1>4. ConnOK'
  BY <1>1 DEF AInv, ConnOK
<1>5. Replies(w, c) /\ request[w] # None
  BY <1>0, <1>1 DEF Replies, AInv, AnswerOK
<1>6. /\ \A d \in Client : d # c \/ link[d] # "open" => answer'[d] = answer[d]
      /\ link[c] = "open" => answer'[c] = Append(answer[c], request[w])
  <2>1. answer \in [Client -> Seq(Requests)]
    BY <1>1, ClientTypes
  <2> QED BY <1>1, <1>2, <2>1
<1>7. link[c] = "open" /\ whole[c] =>
        answer'[c] = <<waits[c]>> /\ waits[c] # None /\ sent[c] = None
  <2>1. ASSUME link[c] = "open", whole[c]
        PROVE  request[w] = waits[c] /\ answer[c] = <<>> /\ sent[c] = None
    BY <1>2, <1>5, <2>1 DEF AInv, AnswerOK
  <2>2. ASSUME answer[c] = <<>>
        PROVE  Append(answer[c], request[w]) = <<request[w]>>
    BY <2>2
  <2> HIDE DEF Replies
  <2> QED BY <1>5, <1>6, <2>1, <2>2
<1>8. AnswerOK'
  <2>1. \A v \in Worker : pc'[v] = "reply" => v # w /\ request'[v] # None
    BY <1>1, ThreadTypes, ClientTypes DEF AInv, AnswerOK
  <2>2. \A v \in Worker : v # w => request'[v] = request[v]
    BY <1>1, ClientTypes
  <2>3. \A v \in Worker : ~Replies(v, c)'
    BY <1>2, <1>3
  <2> HIDE DEF Replies
  <2> QED BY <1>1, <1>2, <1>3, <1>6, <1>7, <2>1, <2>2, <2>3 DEF AInv, AnswerOK
<1> QED BY <1>4, <1>8

\* A closed connection leaves nothing behind for the next one.
LEMMA CloseKeepsA ==
  ASSUME AInv, NEW w \in Worker, Close(w)
  PROVE  ConnOK' /\ AnswerOK'
<1> DEFINE fd == socket[w]
<1>0. PICK c \in Client : c = peer[fd]
  BY ServedEnds DEF AInv, Close
<1>1. /\ QInv /\ w \in Thread
      /\ UNCHANGED <<request, pending, sent, waits, answer, whole>>
      /\ pc[w] = "recv" /\ pc' = [pc EXCEPT ![w] = "lock"]
      /\ sent[c] = None /\ link[c] = "closed"
      /\ peer' = [peer EXCEPT ![fd] = None]
      /\ link' = [link EXCEPT ![c] = "away"]
      /\ socket' = [socket EXCEPT ![w] = NoFd]
  BY <1>0 DEF AInv, Close, Goto, Thread
<1>2. fd \in Fd
  BY <1>1, ServedEnds
<1>3. /\ \A f \in Fd : peer'[f] = IF f = fd THEN None ELSE peer[f]
      /\ \A d \in Client : link'[d] = IF d = c THEN "away" ELSE link[d]
  BY <1>1, ClientTypes
<1>4. /\ \A f \in Fd : f # fd => peer[f] # c
      /\ \A i \in DOMAIN pending : pending[i] # c
  BY <1>0, <1>2, Apart DEF AInv, ConnOK
<1>5. ConnOK'
  <2>1. \A i \in DOMAIN pending : pending[i] \in Client /\ pending[i] # None
    BY <1>1, ClientTypes, ElementOfSeq, Apart
  <2>2. \A f \in Fd : peer[f] # None => peer[f] \in Client
    BY <1>1, ClientTypes
  <2> HIDE DEF fd
  <2> QED BY <1>1, <1>3, <1>4, <2>1, <2>2 DEF AInv, ConnOK
<1>6. AnswerOK'
  <2>1. \A v \in Worker : /\ pc'[v] = "reply" <=> pc[v] = "reply"
                          /\ pc[v] = "reply" => v # w /\ socket'[v] = socket[v]
    BY <1>1, ThreadTypes
  <2>2. \A v \in Worker : pc[v] = "reply" => socket[v] \in Fd /\ peer[socket[v]] # c
    BY <1>0, <1>1, ServedEnds DEF AInv
  <2>3. \A v \in Worker : pc[v] = "reply" => peer'[socket'[v]] = peer[socket[v]]
    BY <1>0, <1>3, <2>1, <2>2
  <2>4. \A v \in Worker, d \in Client : Replies(v, d)' <=> Replies(v, d)
    BY <2>1, <2>3 DEF Replies
  <2>5. answer[c] = <<>> /\ waits[c] = None
    BY <1>1 DEF AInv, AnswerOK
  <2> HIDE DEF Replies
  <2> QED BY <1>1, <1>3, <2>1, <2>4, <2>5 DEF AInv, AnswerOK
<1> QED BY <1>5, <1>6

\* The end of the process leaves no connection and no reply.
LEMMA KilledKeepsA ==
  ASSUME AInv, NEW w \in Worker, Killed(w)
  PROVE  ConnOK' /\ AnswerOK'
<1>1. /\ UNCHANGED <<link, sent, waits, answer, whole>>
      /\ DOMAIN pending' = {}
      /\ pc' = [t \in Thread |-> "ended"]
      /\ \A fd \in Fd : peer'[fd] = None
  BY DEF Killed
<1>2. \A v \in Worker : pc'[v] # "reply"
  BY <1>1 DEF Thread
<1>3. ConnOK'
  BY <1>1 DEF ConnOK
<1>4. AnswerOK'
  BY <1>1, <1>2 DEF AInv, AnswerOK, Replies
<1> QED BY <1>3, <1>4

LEMMA AInductive == AInv /\ [Next]_vars => AInv'
<1> SUFFICES ASSUME AInv, [Next]_vars PROVE AInv'
  OBVIOUS
<1>1. QInv'
  BY QInductive DEF AInv
<1>2. QInv
  BY DEF AInv
<1>3. CASE AcceptorStep
  <2>1. CASE Accept
    BY <1>1, <2>1, AcceptKeepsA DEF AInv
  <2>2. CASE Listen \/ (\E w \in Worker : StartWorker(w)) \/ AllStarted \/ LockToPush \/ Push
    <3>1. UNCHANGED <<request, env>>
      BY <2>2 DEF Listen, StartWorker, AllStarted, LockToPush, Push
    <3>2. \A w \in Worker : /\ pc'[w] = "reply" <=> pc[w] = "reply"
                            /\ pc[w] = "reply" => socket'[w] = socket[w]
      BY <1>2, <2>2, ThreadTypes DEF Listen, StartWorker, AllStarted, LockToPush, Push, Goto
    <3> QED BY <1>1, <3>1, <3>2, ThreadsKeepA DEF AInv
  <2> QED BY <1>3, <2>1, <2>2 DEF AcceptorStep
<1>4. CASE \E w \in Worker : WorkerStep(w)
  <2>1. PICK w \in Worker : WorkerStep(w)
    BY <1>4
  <2>2. CASE Receive(w) \/ Reply(w) \/ Close(w)
    BY <1>1, <2>2, ReceiveKeepsA, ReplyKeepsA, CloseKeepsA DEF AInv
  <2>3. CASE LockToTake(w) \/ FoundEmpty(w) \/ LookAtFront(w) \/ Pop(w)
    <3>1. UNCHANGED <<request, env>>
      BY <2>3 DEF LockToTake, FoundEmpty, LookAtFront, Pop
    <3>2. \A v \in Worker : /\ pc'[v] = "reply" <=> pc[v] = "reply"
                            /\ pc[v] = "reply" => socket'[v] = socket[v]
      BY <1>2, <2>3, ThreadTypes DEF LockToTake, FoundEmpty, LookAtFront, Pop, Goto
    <3> QED BY <1>1, <3>1, <3>2, ThreadsKeepA DEF AInv
  <2>4. CASE Killed(w)
    BY <1>1, <2>4, KilledKeepsA DEF AInv
  <2> QED BY <2>1, <2>2, <2>3, <2>4 DEF WorkerStep
<1>5. CASE \E c \in Client : ClientStep(c)
  BY <1>1, <1>5, ConnectKeepsA, ClientKeepsA DEF AInv, ClientStep
<1>6. CASE UNCHANGED vars
  <2>1. ConnOK'
    BY <1>6 DEF AInv, ConnOK, vars
  <2>2. AnswerOK'
    BY <1>6 DEF AInv, AnswerOK, Replies, vars
  <2> QED BY <1>1, <2>1, <2>2 DEF AInv
<1> QED BY <1>3, <1>4, <1>5, <1>6 DEF Next, NothingIsServed

\* What a client reads is the answer to its own last request, whoever had its
\* descriptor or its worker before, unless its request was split on the way.
THEOREM AnswersAreTheClientsOwn == Spec => []AnswersMatchRequests
<1>1. AInv => AnswersMatchRequests
  <2> SUFFICES ASSUME AInv, NEW c \in Client, whole[c], answer[c] # <<>>
               PROVE  answer[c] = <<waits[c]>>
    BY DEF AnswersMatchRequests
  <2>1. link[c] = "open"
    BY DEF AInv, AnswerOK
  <2> QED BY <2>1 DEF AInv, AnswerOK
<1> QED BY <1>1, InitA, AInductive, PTL DEF Spec
=============================================================================
