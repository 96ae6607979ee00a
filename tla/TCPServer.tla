------------------------------ MODULE TCPServer ------------------------------
(***************************************************************************)
(* The life of TCP connections under HTTPServer.  The main loop accepts,   *)
(* owns conn_map_ and closes descriptors; sub loops read and answer; when  *)
(* the peer is gone or the answer says so, the sub loop's thread marks the *)
(* connection Disconnected and queues a functor to the main loop that      *)
(* takes it out of conn_map_ and epoll and closes the descriptor.  Until   *)
(* then the channel stays in epoll, and after it the number of the         *)
(* descriptor is free for the next connection while an event for the old   *)
(* one may still be in a sub loop's hands.                                 *)
(*                                                                         *)
(* Two more threads can act on a connection: the main loop's idle timer    *)
(* (TimedConns) and a gRPC thread that answers later (Workers).            *)
(*                                                                         *)
(* A functor handed to the main loop runs as FunctorQueue says: in FIFO    *)
(* order, between two callbacks of the main loop's thread.  HTTPServer     *)
(* keeps every TCPConnection alive for good (the periodic timer's closure  *)
(* and conn->timer_ own each other), so no object is destroyed here.       *)
(***************************************************************************)
EXTENDS Integers, Sequences, FiniteSets

CONSTANTS MaxConns,    \* bound: connections ever accepted
          MaxSends,    \* bound: requests a peer sends on one connection
          Fds,         \* bound: descriptor numbers available to sockets
          SubLoops,    \* the sub reactors of ThreadPool
          Main,        \* the main reactor
          Workers,     \* gRPC threads that answer a request later
          TimedConns,  \* connections whose idle timer may find them idle
          SizeT        \* bound: connections_, a size_t, wraps at this number

Conns == 1 .. MaxConns
NoConn == 0
NoFd == -1
Loops == SubLoops \cup {Main}
Threads == Loops \cup Workers

ASSUME TCPServerAssumption ==
         /\ MaxConns \in Nat /\ MaxSends \in Nat
         /\ Fds \subseteq Nat
         /\ Main \notin SubLoops
         /\ Workers \cap (SubLoops \cup {Main}) = {}
         /\ TimedConns \subseteq 1 .. MaxConns
         /\ SizeT \in Nat /\ MaxConns < SizeT

VARIABLES created,      \* TCPConnection objects made so far
          state,        \* state_ of each connection
          fd,           \* its fd_, never reset
          channelFd,    \* fd_ of its Channel, reset by removeSelf
          loop,         \* its loop_
          timers,       \* connections whose idle timer is still set
          conn_map,     \* conn_map_: descriptor number -> connection
          connections,  \* connections_ of each loop's Workload
          closing,      \* close functors queued to the main loop
          ready,        \* connections in what Poll returned to each loop
          cur,          \* the connection each thread is at work on
          step,         \* and where in TCPConnection's code
          owner,        \* kernel: the connection whose socket a number is
          registered,   \* kernel: connections in the epoll of their loop
          edge,         \* kernel: those with an event not yet reported
          unread,       \* kernel: requests sent and not read, per socket
          toSend,       \* requests the peer may still send
          eof,          \* the peer has closed
          inBuffer,     \* history: whose requests each inBuffer_ was given
          answered,     \* history: whose answers each socket was given
          raced         \* history: connections two threads were closing at once

kernel == <<owner, registered, edge, unread, toSend, eof>>
objects == <<created, fd, channelFd, loop, timers, conn_map>>
threads == <<ready, cur, step>>
counts == <<state, connections, closing>>
history == <<inBuffer, answered, raced>>
vars == <<objects, counts, threads, kernel, history>>

Steps == {"idle", "read", "message", "reply", "replyClose", "handleClose", "disconnect"}

TypeOK == /\ created \in 0 .. MaxConns
          /\ state \in [Conns -> {"Invalid", "Connected", "Disconnected"}]
          /\ fd \in [Conns -> Fds \cup {NoFd}]
          /\ channelFd \in [Conns -> Fds \cup {NoFd}]
          /\ loop \in [Conns -> Loops]
          /\ timers \subseteq Conns
          /\ conn_map \in [Fds -> Conns \cup {NoConn}]
          /\ connections \in [Loops -> 0 .. SizeT - 1]
          /\ closing \in Seq(Conns)
          /\ ready \in [Loops -> SUBSET Conns]
          /\ cur \in [Threads -> Conns \cup {NoConn}]
          /\ step \in [Threads -> Steps]
          /\ owner \in [Fds -> Conns \cup {NoConn}]
          /\ registered \subseteq Conns
          /\ edge \subseteq registered
          /\ unread \in [Conns -> 0 .. MaxSends]
          /\ toSend \in [Conns -> 0 .. MaxSends]
          /\ eof \subseteq Conns
          /\ inBuffer \in [Conns -> SUBSET Conns]
          /\ answered \in [Conns -> SUBSET Conns]
          /\ raced \subseteq Conns

Init == /\ created = 0
        /\ state = [c \in Conns |-> "Invalid"]
        /\ fd = [c \in Conns |-> NoFd]
        /\ channelFd = [c \in Conns |-> NoFd]
        /\ loop = [c \in Conns |-> Main]
        /\ timers = {}
        /\ conn_map = [f \in Fds |-> NoConn]
        /\ connections = [l \in Loops |-> 0]
        /\ closing = <<>>
        /\ ready = [l \in Loops |-> {}]
        /\ cur = [t \in Threads |-> NoConn]
        /\ step = [t \in Threads |-> "idle"]
        /\ owner = [f \in Fds |-> NoConn]
        /\ registered = {}
        /\ edge = {}
        /\ unread = [c \in Conns |-> 0]
        /\ toSend = [c \in Conns |-> MaxSends]
        /\ eof = {}
        /\ inBuffer = [c \in Conns |-> {}]
        /\ answered = [c \in Conns |-> {}]
        /\ raced = {}

\* The connection whose socket a read or write of c's fd_ reaches; NoConn when
\* the number is closed (EBADF).
Socket(c) == owner[fd[c]]

Open(c) == \E f \in Fds : owner[f] = c

\* The threads that have passed handleClose's test for c and not acted upon it.
Closers(c) == {t \in Threads : step[t] = "disconnect" /\ cur[t] = c}

Goto(t, s) == /\ step' = [step EXCEPT ![t] = s]
              /\ cur' = IF s = "idle" THEN [cur EXCEPT ![t] = NoConn] ELSE cur

-----------------------------------------------------------------------------
(* Plausible bugs, each of which breaks a property at the end.  Next uses    *)
(* none of them.                                                             *)

\* The main loop hands a connection out and does not count it.
SubReactorNoCount(l) == /\ l \in IF SubLoops = {} THEN {Main} ELSE SubLoops
                        /\ UNCHANGED connections

\* The event of a channel taken out of epoll is still reported.
RemoveKeepsEvent(c) ==
    /\ conn_map' = [conn_map EXCEPT ![fd[c]] = NoConn]
    /\ owner' = [owner EXCEPT ![fd[c]] = NoConn]
    /\ channelFd' = [channelFd EXCEPT ![c] = NoFd]
    /\ registered' = registered \ {c}
    /\ unread' = [unread EXCEPT ![c] = 0]
    /\ UNCHANGED edge


\* removeSelf first; the entry is then looked up under the channel's fd, now -1.
RemoveFindsNoEntry(c) ==
    IF channelFd[c] = NoFd
      THEN UNCHANGED <<conn_map, channelFd, owner, registered, edge, unread>>
      ELSE /\ owner' = [owner EXCEPT ![channelFd[c]] = NoConn]
           /\ channelFd' = [channelFd EXCEPT ![c] = NoFd]
           /\ registered' = registered \ {c}
           /\ edge' = edge \ {c}
           /\ unread' = [unread EXCEPT ![c] = 0]
           /\ UNCHANGED conn_map

\* ::close(conn->fd()) without a look at the channel.
RemoveUnguarded(c) ==
    /\ conn_map' = [conn_map EXCEPT ![fd[c]] = NoConn]
    /\ owner' = [owner EXCEPT ![fd[c]] = NoConn]
    /\ channelFd' = [channelFd EXCEPT ![c] = NoFd]
    /\ registered' = registered \ {c}
    /\ edge' = edge \ {c}
    /\ unread' = [unread EXCEPT ![c] = 0]

\* handleClose without its test of state_.
HandleCloseNoTest(t) ==
    /\ step[t] = "handleClose"
    /\ Goto(t, "disconnect")
    /\ raced' = raced \cup {c \in {cur[t]} : Closers(c) # {}}
    /\ UNCHANGED <<ready, objects, counts, kernel, inBuffer, answered>>

-----------------------------------------------------------------------------
(* The kernel and the peers.                                               *)

\* A request arrives: an edge, if the channel is in epoll.
PeerSend(c) == /\ Open(c) /\ c \notin eof
               /\ toSend[c] > 0
               /\ toSend' = [toSend EXCEPT ![c] = @ - 1]
               /\ unread' = [unread EXCEPT ![c] = @ + 1]
               /\ edge' = edge \cup ({c} \cap registered)
               /\ UNCHANGED <<owner, registered, eof, objects, counts, threads, history>>

PeerClose(c) == /\ Open(c) /\ c \notin eof
                /\ eof' = eof \cup {c}
                /\ edge' = edge \cup ({c} \cap registered)
                /\ UNCHANGED <<owner, registered, unread, toSend, objects, counts, threads, history>>

-----------------------------------------------------------------------------
(* The main loop.                                                          *)

\* getSubReactor: the least loaded sub loop gets the connection and one more
\* in its count; files yet to be sent (left_bytes_) can make any loop the least
\* loaded.  Where no load is less than SIZE_MAX, and there are counts that have
\* wrapped below zero or no sub loops, the main loop gets it uncounted.
SubReactor(l) ==
    \/ l \in SubLoops /\ connections' = [connections EXCEPT ![l] = (@ + 1) % SizeT]
    \/ l = Main /\ (\A s \in SubLoops : connections[s] > MaxConns) /\ UNCHANGED connections

\* Acceptor's read callback, on_new_connection_callback_ and enableConnection.
\* The kernel hands out any number that is free.
Accept(l, f) ==
    LET c == created + 1 IN
    /\ step[Main] = "idle"
    /\ c \in Conns /\ owner[f] = NoConn
    /\ SubReactor(l)
    /\ created' = c
    /\ owner' = [owner EXCEPT ![f] = c]
    /\ fd' = [fd EXCEPT ![c] = f]
    /\ channelFd' = [channelFd EXCEPT ![c] = f]
    /\ loop' = [loop EXCEPT ![c] = l]
    /\ conn_map' = [conn_map EXCEPT ![f] = c]
    /\ state' = [state EXCEPT ![c] = "Connected"]
    /\ timers' = timers \cup {c}
    /\ registered' = registered \cup {c}
    /\ UNCHANGED <<closing, edge, unread, toSend, eof, threads, history>>

\* The functor of onClose: out of conn_map_, then Channel::removeSelf, which
\* takes the channel out of epoll and closes the descriptor, once.
RemoveConnection(c) ==
    IF conn_map[fd[c]] = NoConn
      THEN UNCHANGED <<conn_map, channelFd, owner, registered, edge, unread>>
      ELSE /\ conn_map' = [conn_map EXCEPT ![fd[c]] = NoConn]
           /\ IF channelFd[c] = NoFd
                THEN UNCHANGED <<channelFd, owner, registered, edge, unread>>
                ELSE /\ owner' = [owner EXCEPT ![channelFd[c]] = NoConn]
                     /\ channelFd' = [channelFd EXCEPT ![c] = NoFd]
                     /\ registered' = registered \ {c}
                     /\ edge' = edge \ {c}
                     /\ unread' = [unread EXCEPT ![c] = 0]

RunCloseFunctor == /\ step[Main] = "idle"
                   /\ closing # <<>>
                   /\ closing' = Tail(closing)
                   /\ RemoveConnection(Head(closing))
                   /\ UNCHANGED <<created, fd, loop, timers, state, connections, toSend, eof,
                                  threads, history>>

\* The idle timer of HTTPServer, which runs on the main loop whatever loop the
\* connection belongs to.
IdleTimeout(c) == /\ step[Main] = "idle"
                  /\ c \in timers \cap TimedConns
                  /\ timers' = timers \ {c}
                  /\ IF state[c] = "Connected"
                       THEN /\ cur' = [cur EXCEPT ![Main] = c]
                            /\ step' = [step EXCEPT ![Main] = "handleClose"]
                       ELSE UNCHANGED <<cur, step>>
                  /\ UNCHANGED <<created, fd, channelFd, loop, conn_map, counts, ready, kernel, history>>

-----------------------------------------------------------------------------
(* A loop's thread: Poll, handleEvent and the read callback.               *)

EventsOf(l) == {c \in edge : loop[c] = l}

\* epoll_wait reports every channel with an edge, and forgets the edges.
Poll(l) == /\ step[l] = "idle" /\ ready[l] = {}
           /\ EventsOf(l) # {}
           /\ ready' = [ready EXCEPT ![l] = EventsOf(l)]
           /\ edge' = edge \ EventsOf(l)
           /\ UNCHANGED <<owner, registered, unread, toSend, eof, cur, step, objects, counts, history>>

\* tcpConnection_.lock() succeeds: the object is alive, open or not.
HandleEvent(l, c) == /\ step[l] = "idle"
                     /\ c \in ready[l]
                     /\ ready' = [ready EXCEPT ![l] = @ \ {c}]
                     /\ cur' = [cur EXCEPT ![l] = c]
                     /\ step' = [step EXCEPT ![l] = "read"]
                     /\ UNCHANGED <<objects, counts, kernel, history>>

\* readNonBlocking, one turn of its loop: some bytes.
ReadSome(t) ==
    LET c == cur[t]
        s == Socket(c) IN
    /\ step[t] = "read"
    /\ s # NoConn /\ unread[s] > 0
    /\ unread' = [unread EXCEPT ![s] = @ - 1]
    /\ inBuffer' = [inBuffer EXCEPT ![c] = @ \cup {s}]
    /\ UNCHANGED <<owner, registered, edge, toSend, eof, threads, objects, counts, answered, raced>>

\* read returns 0: handleClose, and nothing else after it.
ReadEof(t) == LET s == Socket(cur[t]) IN
              /\ step[t] = "read"
              /\ s \in eof /\ unread[s] = 0
              /\ Goto(t, "handleClose")
              /\ UNCHANGED <<ready, objects, counts, kernel, history>>

\* EAGAIN: on_message_callback_, unless Disconnected.  A read of a closed
\* number fails with EBADF, for which the loop has no way out: no action.
ReadAgain(t) == LET s == Socket(cur[t]) IN
                /\ step[t] = "read"
                /\ s # NoConn /\ s \notin eof /\ unread[s] = 0
                /\ Goto(t, IF state[cur[t]] = "Disconnected" THEN "idle" ELSE "message")
                /\ UNCHANGED <<ready, objects, counts, kernel, history>>

-----------------------------------------------------------------------------
(* HTTPServer's on_message_callback_ and the answer, by the loop's thread  *)
(* or by a gRPC thread.                                                    *)

\* Not Connected, or no complete request in inBuffer_ yet.
MessageIgnored(t) == /\ step[t] = "message"
                     /\ Goto(t, "idle")
                     /\ UNCHANGED <<ready, objects, counts, kernel, history>>

\* A complete or an invalid request, to be answered here.
MessageAnswer(t) == /\ step[t] = "message"
                    /\ state[cur[t]] = "Connected"
                    /\ inBuffer[cur[t]] # {}
                    /\ \E s \in {"reply", "replyClose"} : Goto(t, s)
                    /\ UNCHANGED <<ready, objects, counts, kernel, history>>

\* callback(conn, res): the gRPC call returns at once, a gRPC thread answers.
MessageDelegate(t, w) == /\ step[t] = "message"
                         /\ state[cur[t]] = "Connected"
                         /\ inBuffer[cur[t]] # {}
                         /\ step[w] = "idle"
                         /\ \E s \in {"reply", "replyClose"} :
                              step' = [step EXCEPT ![w] = s, ![t] = "idle"]
                         /\ cur' = [cur EXCEPT ![w] = cur[t], ![t] = NoConn]
                         /\ UNCHANGED <<ready, objects, counts, kernel, history>>

\* send: the bytes go to whatever socket the number now is.
SendOk(t) == LET s == Socket(cur[t]) IN
             /\ step[t] \in {"reply", "replyClose"}
             /\ s # NoConn
             /\ answered' = [answered EXCEPT ![s] = @ \cup {cur[t]}]
             /\ Goto(t, IF step[t] = "replyClose" /\ state[cur[t]] # "Disconnected"
                          THEN "handleClose" ELSE "idle")
             /\ UNCHANGED <<ready, objects, counts, kernel, inBuffer, raced>>

\* send fails: a closed number, or a peer that has gone.
SendError(t) == LET s == Socket(cur[t]) IN
                /\ step[t] \in {"reply", "replyClose"}
                /\ s = NoConn \/ s \in eof
                /\ Goto(t, "handleClose")
                /\ UNCHANGED <<ready, objects, counts, kernel, history>>

-----------------------------------------------------------------------------
(* handleClose, in the two steps other threads can come between.           *)

HandleCloseTest(t) ==
    LET c == cur[t]
        closes == state[c] # "Disconnected"
    IN /\ step[t] = "handleClose"
       /\ Goto(t, IF closes THEN "disconnect" ELSE "idle")
       /\ raced' = IF closes /\ Closers(c) # {} THEN raced \cup {c} ELSE raced
       /\ UNCHANGED <<ready, objects, counts, kernel, inBuffer, answered>>

\* state_, connections_ and on_close_callback_: callOrQueue runs the functor
\* inline on the main loop's own thread and queues it from any other.
Disconnect(t) ==
    LET c == cur[t] IN
    /\ step[t] = "disconnect"
    /\ state' = [state EXCEPT ![c] = "Disconnected"]
    /\ connections' = [connections EXCEPT ![loop[c]] = (@ - 1) % SizeT]
    /\ IF t = Main
         THEN RemoveConnection(c) /\ UNCHANGED closing
         ELSE /\ closing' = Append(closing, c)
              /\ UNCHANGED <<conn_map, channelFd, owner, registered, edge, unread>>
    /\ Goto(t, "idle")
    /\ UNCHANGED <<created, fd, loop, timers, toSend, eof, ready, history>>

-----------------------------------------------------------------------------
ThreadStep(t) ==
    \/ ReadSome(t) \/ ReadEof(t) \/ ReadAgain(t)
    \/ MessageIgnored(t) \/ MessageAnswer(t) \/ (\E w \in Workers : MessageDelegate(t, w))
    \/ SendOk(t) \/ SendError(t)
    \/ HandleCloseTest(t) \/ Disconnect(t)

LoopStep(l) == Poll(l) \/ \E c \in Conns : HandleEvent(l, c)

MainStep == \/ \E l \in Loops, f \in Fds : Accept(l, f)
            \/ \E c \in Conns : IdleTimeout(c)

PeerStep(c) == PeerSend(c) \/ PeerClose(c)

Next == \/ \E t \in Threads : ThreadStep(t)
        \/ \E l \in Loops : LoopStep(l)
        \/ MainStep
        \/ RunCloseFunctor
        \/ \E c \in Conns : PeerStep(c)

Spec == Init /\ [][Next]_vars

\* Threads are scheduled; a peer need not send, close or connect.
Fairness == /\ \A t \in Threads : WF_vars(ThreadStep(t))
            /\ \A l \in Loops : WF_vars(LoopStep(l))
            /\ WF_vars(RunCloseFunctor)

FairSpec == Spec /\ Fairness

-----------------------------------------------------------------------------
\* TCP-Server.cc 60-68, 79: an entry of conn_map_ is a connection whose channel
\* and descriptor are both still the socket that was accepted for it: closing
\* never leaves an entry behind for a number the kernel may hand out again.
MapOwnsSockets ==
    \A f \in Fds : conn_map[f] # NoConn =>
       LET c == conn_map[f] IN fd[c] = f /\ channelFd[c] = f /\ owner[f] = c

\* Channel.cc 101-107: a socket is closed by its own connection's functor,
\* after handleClose, and never by that of another one that had its number.
ClosesOwnSocket ==
    [][\A f \in Fds : owner[f] # NoConn /\ owner'[f] = NoConn =>
          LET c == owner[f] IN channelFd[c] = f /\ channelFd'[c] = NoFd /\ state'[c] = "Disconnected"]_vars

\* A connection that had the number f was closed by two threads at once: both
\* had passed the test of state_ before either set it (TCP-Connection.cc 214-218).
RacedFor(f) == \E c \in raced : fd[c] = f

\* ThreadPool.cc 18-31, TCP-Connection.cc 220: the load a new connection is
\* placed by counts the connections of the loop that are open, whoever closes
\* them, unless two threads have closed one of them at once.
LoadCountsConnections ==
    \A l \in SubLoops : (\A c \in raced : loop[c] # l) =>
       connections[l] = Cardinality({c \in Conns : state[c] = "Connected" /\ loop[c] = l})

\* TCP-Connection.cc 213-232, TCP-Server.cc 60-65: a connection is queued for
\* closing once, and its functor finds it in conn_map_ (the error of line 63
\* does not show), unless two threads have closed at once a connection that has,
\* or had, its number.
ClosedOnce ==
    \A i \in 1 .. Len(closing) :
       LET c == closing[i] IN ~RacedFor(fd[c]) =>
          /\ conn_map[fd[c]] = c
          /\ \A j \in 1 .. Len(closing) : closing[j] = c => j = i

Removed(c) == channelFd[c] = NoFd /\ c \notin registered


\* TCP-Connection.cc 226, "remove conn from conn_map_, close the channel_": what
\* handleClose announces, without the exception.
ClosedIsRemoved == \A c \in Conns : state[c] = "Disconnected" ~> Removed(c)

\* TCP-Connection.cc 23-47: the loop that reads a socket ends, so that the
\* thread gets to its other connections.
ReadReturns == \A l \in Loops : step[l] = "read" ~> step[l] # "read"

\* gRPC-ExecutorClient.hpp 81-88: an answer goes to the peer that asked.
AnswersOwnPeer == \A c \in Conns : answered[c] \subseteq {c}

=============================================================================
