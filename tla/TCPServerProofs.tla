--------------------------- MODULE TCPServerProofs ---------------------------
(***************************************************************************)
(* Proofs about TCPServer, for any number of connections, descriptor       *)
(* numbers, loops and threads: the types, MapOwnsSockets and               *)
(* ClosesOwnSocket.  MapOwnsSockets is not inductive: that an entry of     *)
(* conn_map_ still names its own socket after another connection's functor *)
(* has run needs that no two channels have the same descriptor, that a     *)
(* descriptor is only ever the one its connection was made with, and that  *)
(* whatever a thread holds or the main loop has queued has been accepted.  *)
(* ClosedOnce and LoadCountsConnections follow at the end: whoever closes  *)
(* connections, they hold of each that no two threads closed at once.      *)
(***************************************************************************)
EXTENDS TCPServer, SequenceTheorems, FiniteSetTheorems, TLAPS

Made == 1 .. created

\* A peer sends no more than its share, read or unread.
Budget == \A c \in Conns : unread[c] + toSend[c] <= MaxSends

\* Connections that were accepted have a number, the others no socket.
NumberedWhenMade == /\ \A c \in Made : fd[c] \in Fds
                    /\ \A c \in Conns \ Made : channelFd[c] = NoFd

\* Only accepted connections are in anybody's hands.
HeldAreMade == /\ timers \subseteq Made
               /\ registered \subseteq Made
               /\ \A l \in Loops : ready[l] \subseteq Made
               /\ \A t \in Threads : step[t] # "idle" => cur[t] \in Made
               /\ raced \subseteq Made

\* What the main loop has yet to close is Disconnected.
ClosingAreDisconnected ==
    \A i \in 1 .. Len(closing) : closing[i] \in Made /\ state[closing[i]] = "Disconnected"

\* A channel and the socket of its connection share a number, the first one.
OneSocketEach == \A c \in Conns, f \in Fds :
                    /\ owner[f] = c <=> channelFd[c] = f
                    /\ channelFd[c] = f => fd[c] = f

IInv == /\ TypeOK /\ Budget /\ NumberedWhenMade /\ HeldAreMade
        /\ ClosingAreDisconnected /\ OneSocketEach /\ MapOwnsSockets

USE DEF NoConn, NoFd, Conns, Loops, Threads, Steps

-----------------------------------------------------------------------------
LEMMA Wraps == ASSUME NEW n \in Int PROVE n % SizeT \in 0 .. SizeT - 1
  BY TCPServerAssumption

LEMMA DoesNotWrap == ASSUME NEW n \in 0 .. SizeT - 1 PROVE n % SizeT = n
  BY TCPServerAssumption

LEMMA InitIInv == Init => IInv
  BY TCPServerAssumption
  DEF Init, IInv, TypeOK, Budget, NumberedWhenMade, HeldAreMade, ClosingAreDisconnected,
      OneSocketEach, MapOwnsSockets, Made

\* The conjuncts about connections and their sockets, where no step is taken
\* with either.
LEMMA SocketsUntouched ==
  ASSUME NumberedWhenMade, ClosingAreDisconnected, OneSocketEach, MapOwnsSockets,
         UNCHANGED <<created, fd, channelFd, conn_map, state, closing, owner>>
  PROVE  NumberedWhenMade' /\ ClosingAreDisconnected' /\ OneSocketEach' /\ MapOwnsSockets'
  BY DEF NumberedWhenMade, ClosingAreDisconnected, OneSocketEach, MapOwnsSockets, Made

\* The steps that only move threads about (and note answers): TypeOK and
\* HeldAreMade are what they can disturb.
ThreadMove(t) == \/ ReadEof(t) \/ ReadAgain(t)
                 \/ MessageIgnored(t) \/ MessageAnswer(t) \/ (\E w \in Workers : MessageDelegate(t, w))
                 \/ SendOk(t) \/ SendError(t)
                 \/ HandleCloseTest(t)

LEMMA GotoKeepsTypes ==
  ASSUME TypeOK, NEW t \in Threads, NEW s \in Steps, Goto(t, s)
  PROVE  /\ cur' \in [Threads -> Conns \cup {NoConn}]
         /\ step' \in [Threads -> Steps]
         /\ \A u \in Threads : step'[u] # "idle" =>
               cur'[u] = cur[u] /\ (u # t => step[u] # "idle")
  BY DEF TypeOK, Goto

LEMMA ThreadMoveKeepsIInv ==
  ASSUME IInv, NEW t \in Threads, ThreadMove(t)
  PROVE  IInv'
<1> USE TCPServerAssumption
<1>1. /\ UNCHANGED <<objects, counts, kernel, ready, inBuffer>>
      /\ raced' \subseteq Made
  <2>1. CASE HandleCloseTest(t)
    BY <2>1 DEF HandleCloseTest, IInv, HeldAreMade
  <2>2. CASE raced' = raced
    BY <2>2 DEF ThreadMove, ReadEof, ReadAgain, MessageIgnored, MessageAnswer, MessageDelegate, SendOk,
                SendError, HandleCloseTest, history, threads, IInv, HeldAreMade
  <2> QED BY <2>1, <2>2
      DEF ThreadMove, ReadEof, ReadAgain, MessageIgnored, MessageAnswer, MessageDelegate, SendOk,
          SendError, history
<1>2. /\ cur' \in [Threads -> Conns \cup {NoConn}]
      /\ step' \in [Threads -> Steps]
      /\ \A u \in Threads : step'[u] # "idle" => cur'[u] \in Made
  <2>1. CASE \E w \in Workers : MessageDelegate(t, w)
    <3>1. PICK w \in Workers : MessageDelegate(t, w)
      BY <2>1
    <3>2. t # w /\ cur[t] \in Made /\ cur[t] \in Conns
      BY <3>1 DEF MessageDelegate, IInv, TypeOK, HeldAreMade, Made
    <3>3. PICK s \in {"reply", "replyClose"} : step' = [step EXCEPT ![w] = s, ![t] = "idle"]
      BY <3>1 DEF MessageDelegate
    <3>4. cur' = [cur EXCEPT ![w] = cur[t], ![t] = NoConn]
      BY <3>1 DEF MessageDelegate
    <3>5. QED
      BY <3>2, <3>3, <3>4 DEF IInv, TypeOK, HeldAreMade
  <2>2. CASE \E s \in Steps : step[t] # "idle" /\ Goto(t, s)
    BY <2>2, GotoKeepsTypes DEF IInv, HeldAreMade
  <2>3. QED
    BY <2>1, <2>2 DEF ThreadMove, ReadEof, ReadAgain, MessageIgnored, MessageAnswer, SendOk,
                      SendError, HandleCloseTest
<1>3. answered' \in [Conns -> SUBSET Conns]
  <2>1. CASE SendOk(t)
    <3>1. cur[t] \in Conns /\ fd[cur[t]] \in Fds
      BY <2>1 DEF SendOk, IInv, TypeOK, HeldAreMade, NumberedWhenMade, Made
    <3>2. QED
      BY <2>1, <3>1 DEF SendOk, Socket, IInv, TypeOK
  <2>2. CASE answered' = answered
    BY <2>2 DEF IInv, TypeOK
  <2>3. QED
    BY <2>1, <2>2 DEF ThreadMove, ReadEof, ReadAgain, MessageIgnored, MessageAnswer,
                      MessageDelegate, SendError, HandleCloseTest, history
<1>4. TypeOK'
  <2>1. raced' \subseteq Conns
    BY <1>1 DEF IInv, TypeOK, Made
  <2> QED BY <1>1, <1>2, <1>3, <2>1 DEF IInv, TypeOK, objects, counts, kernel
<1>5. QED
  BY <1>1, <1>2, <1>4
  DEF IInv, Budget, NumberedWhenMade, HeldAreMade, ClosingAreDisconnected, OneSocketEach,
      MapOwnsSockets, Made, objects, counts, kernel

\* The kernel's and the peers' steps, and those of a loop that polls and reads.
LEMMA EventKeepsIInv ==
  ASSUME IInv,
         \/ \E c \in Conns : PeerStep(c)
         \/ \E l \in Loops : LoopStep(l)
         \/ \E t \in Threads : ReadSome(t)
  PROVE  IInv'
<1> USE TCPServerAssumption
<1>1. ASSUME NEW c \in Conns, PeerSend(c) PROVE IInv'
  <2>1. unread[c] + 1 \in 0 .. MaxSends /\ toSend[c] - 1 \in 0 .. MaxSends
    BY <1>1, SMTT(30) DEF PeerSend, IInv, TypeOK, Budget
  <2>2. /\ unread' \in [Conns -> 0 .. MaxSends]
        /\ toSend' \in [Conns -> 0 .. MaxSends]
        /\ edge' \subseteq registered
    BY <1>1, <2>1 DEF PeerSend, IInv, TypeOK
  <2>3. TypeOK'
    BY <1>1, <2>2 DEF PeerSend, IInv, TypeOK, objects, counts, threads, history
  <2>4. Budget'
    BY <1>1 DEF PeerSend, IInv, TypeOK, Budget
  <2>5. HeldAreMade'
    BY <1>1 DEF PeerSend, IInv, HeldAreMade, Made, objects, threads, history
  <2>6. QED
    BY <1>1, <2>3, <2>4, <2>5, SocketsUntouched DEF PeerSend, IInv, objects, counts
<1>2. ASSUME NEW c \in Conns, PeerClose(c) PROVE IInv'
  <2>1. TypeOK'
    BY <1>2 DEF PeerClose, IInv, TypeOK, objects, counts, threads, history
  <2>2. Budget' /\ HeldAreMade'
    BY <1>2 DEF PeerClose, IInv, Budget, HeldAreMade, Made, objects, threads, history
  <2>3. QED
    BY <1>2, <2>1, <2>2, SocketsUntouched DEF PeerClose, IInv, objects, counts
<1>3. ASSUME NEW l \in Loops, Poll(l) PROVE IInv'
  <2>1. TypeOK'
    BY <1>3 DEF Poll, EventsOf, IInv, TypeOK, objects, counts, history
  <2>2. Budget' /\ HeldAreMade'
    BY <1>3 DEF Poll, EventsOf, IInv, TypeOK, Budget, HeldAreMade, Made, objects, history
  <2>3. QED
    BY <1>3, <2>1, <2>2, SocketsUntouched DEF Poll, IInv, objects, counts
<1>4. ASSUME NEW l \in Loops, NEW c \in Conns, HandleEvent(l, c) PROVE IInv'
  <2>1. TypeOK'
    BY <1>4 DEF HandleEvent, IInv, TypeOK, objects, counts, kernel, history
  <2>2. Budget' /\ HeldAreMade'
    BY <1>4 DEF HandleEvent, IInv, TypeOK, Budget, HeldAreMade, Made, objects, kernel, history
  <2>3. QED
    BY <1>4, <2>1, <2>2, SocketsUntouched DEF HandleEvent, IInv, objects, counts, kernel
<1>5. ASSUME NEW t \in Threads, ReadSome(t) PROVE IInv'
  <2> DEFINE s == Socket(cur[t])
  <2>1. cur[t] \in Conns /\ s \in Conns
    <3>1. cur[t] \in Conns /\ fd[cur[t]] \in Fds
      BY <1>5 DEF ReadSome, IInv, TypeOK, HeldAreMade, NumberedWhenMade, Made
    <3>2. s \in Conns \cup {NoConn}
      BY <3>1 DEF Socket, IInv, TypeOK
    <3>3. s # NoConn
      BY <1>5 DEF ReadSome
    <3>4. QED
      BY <3>1, <3>2, <3>3
  <2>2. /\ unread' = [unread EXCEPT ![s] = @ - 1]
        /\ inBuffer' = [inBuffer EXCEPT ![cur[t]] = @ \cup {s}]
        /\ unread[s] > 0
    BY <1>5 DEF ReadSome
  <2> HIDE DEF s
  <2>3. /\ unread' \in [Conns -> 0 .. MaxSends]
        /\ inBuffer' \in [Conns -> SUBSET Conns]
        /\ \A c \in Conns : unread'[c] <= unread[c]
    <3>1. unread[s] - 1 \in 0 .. MaxSends
      BY <2>1, <2>2, SMTT(30) DEF IInv, TypeOK
    <3>2. unread' \in [Conns -> 0 .. MaxSends]
      BY <2>1, <2>2, <3>1 DEF IInv, TypeOK
    <3>3. inBuffer' \in [Conns -> SUBSET Conns]
      BY <2>1, <2>2 DEF IInv, TypeOK
    <3>4. \A c \in Conns : unread'[c] <= unread[c]
      BY <2>1, <2>2, SMTT(30) DEF IInv, TypeOK
    <3>5. QED
      BY <3>2, <3>3, <3>4
  <2>4. TypeOK'
    BY <1>5, <2>3 DEF ReadSome, IInv, TypeOK, objects, counts, threads
  <2>5. Budget'
    BY <1>5, <2>3 DEF ReadSome, IInv, TypeOK, Budget
  <2>6. HeldAreMade'
    BY <1>5 DEF ReadSome, IInv, HeldAreMade, Made, objects, threads
  <2>7. QED
    BY <1>5, <2>4, <2>5, <2>6, SocketsUntouched DEF ReadSome, IInv, objects, counts, threads
<1>6. QED
  BY <1>1, <1>2, <1>3, <1>4, <1>5 DEF LoopStep, PeerStep

-----------------------------------------------------------------------------
\* The close functor, whoever runs it and whether or not it finds an entry.
LEMMA RemoveKeepsSockets ==
  ASSUME IInv, NEW c \in Made, RemoveConnection(c), UNCHANGED <<created, fd, toSend>>
  PROVE  /\ conn_map' \in [Fds -> Conns \cup {NoConn}]
         /\ channelFd' \in [Conns -> Fds \cup {NoFd}]
         /\ owner' \in [Fds -> Conns \cup {NoConn}]
         /\ registered' \subseteq registered
         /\ edge' \subseteq registered'
         /\ unread' \in [Conns -> 0 .. MaxSends]
         /\ Budget' /\ NumberedWhenMade' /\ OneSocketEach' /\ MapOwnsSockets'
<1> USE TCPServerAssumption
<1>1. c \in Conns /\ fd[c] \in Fds
  BY DEF IInv, TypeOK, NumberedWhenMade, Made
<1>2. CASE conn_map[fd[c]] = NoConn
  <2>1. UNCHANGED <<conn_map, channelFd, owner, registered, edge, unread>>
    BY <1>2 DEF RemoveConnection
  <2>2. QED
    BY <2>1, SMTT(30) DEF IInv, TypeOK, Budget, NumberedWhenMade, OneSocketEach, MapOwnsSockets, Made
<1>3. CASE conn_map[fd[c]] # NoConn /\ channelFd[c] = NoFd
  <2>1. /\ conn_map' = [conn_map EXCEPT ![fd[c]] = NoConn]
        /\ UNCHANGED <<channelFd, owner, registered, edge, unread>>
    BY <1>3 DEF RemoveConnection
  <2>2. conn_map' \in [Fds -> Conns \cup {NoConn}]
    BY <2>1 DEF IInv, TypeOK
  <2>3. MapOwnsSockets'
    BY <1>1, <2>1 DEF IInv, TypeOK, MapOwnsSockets
  <2>4. QED
    BY <2>1, <2>2, <2>3 DEF IInv, TypeOK, Budget, NumberedWhenMade, OneSocketEach, Made
<1>4. CASE conn_map[fd[c]] # NoConn /\ channelFd[c] # NoFd
  <2>1. channelFd[c] = fd[c] /\ owner[fd[c]] = c
    <3>1. channelFd[c] \in Fds
      BY <1>1, <1>4 DEF IInv, TypeOK
    <3>2. \A f \in Fds : channelFd[c] = f => owner[f] = c /\ fd[c] = f
      BY <1>1 DEF IInv, OneSocketEach
    <3>3. QED
      BY <3>1, <3>2
  <2>2. /\ conn_map' = [conn_map EXCEPT ![fd[c]] = NoConn]
        /\ owner' = [owner EXCEPT ![fd[c]] = NoConn]
        /\ channelFd' = [channelFd EXCEPT ![c] = NoFd]
        /\ registered' = registered \ {c}
        /\ edge' = edge \ {c}
        /\ unread' = [unread EXCEPT ![c] = 0]
    BY <1>4, <2>1 DEF RemoveConnection
  <2>3. /\ conn_map' \in [Fds -> Conns \cup {NoConn}]
        /\ channelFd' \in [Conns -> Fds \cup {NoFd}]
        /\ owner' \in [Fds -> Conns \cup {NoConn}]
        /\ unread' \in [Conns -> 0 .. MaxSends]
    BY <1>1, <2>2 DEF IInv, TypeOK
  <2>4. /\ registered' \subseteq registered
        /\ edge' \subseteq registered'
    BY <2>2 DEF IInv, TypeOK
  <2>5. Budget'
    BY <1>1, <2>2, SMTT(30) DEF IInv, TypeOK, Budget
  <2>6. NumberedWhenMade'
    BY <1>1, <2>2 DEF IInv, TypeOK, NumberedWhenMade, Made
  <2>7. OneSocketEach'
    BY <1>1, <2>1, <2>2, SMTT(30) DEF IInv, TypeOK, OneSocketEach
  <2>8. MapOwnsSockets'
    BY <1>1, <2>1, <2>2 DEF IInv, TypeOK, MapOwnsSockets, OneSocketEach
  <2>9. QED
    BY <2>3, <2>4, <2>5, <2>6, <2>7, <2>8
<1>5. QED
  BY <1>2, <1>3, <1>4

LEMMA CloseFunctorKeepsIInv == IInv /\ RunCloseFunctor => IInv'
<1> SUFFICES ASSUME IInv, RunCloseFunctor PROVE IInv'
  OBVIOUS
<1> USE TCPServerAssumption
<1> DEFINE c == Head(closing)
<1>1. /\ closing # <<>> /\ closing' = Tail(closing)
      /\ RemoveConnection(c)
      /\ UNCHANGED <<created, fd, loop, timers, state, connections, toSend, eof, threads, history>>
  BY DEF RunCloseFunctor
<1>2. c \in Made
  BY <1>1 DEF IInv, TypeOK, ClosingAreDisconnected
<1> HIDE DEF c
<1>3. /\ conn_map' \in [Fds -> Conns \cup {NoConn}]
      /\ channelFd' \in [Conns -> Fds \cup {NoFd}]
      /\ owner' \in [Fds -> Conns \cup {NoConn}]
      /\ registered' \subseteq registered
      /\ edge' \subseteq registered'
      /\ unread' \in [Conns -> 0 .. MaxSends]
      /\ Budget' /\ NumberedWhenMade' /\ OneSocketEach' /\ MapOwnsSockets'
  BY <1>1, <1>2, RemoveKeepsSockets
<1>4. /\ closing' \in Seq(Conns)
      /\ Len(closing') = Len(closing) - 1
      /\ \A i \in 1 .. Len(closing') : closing'[i] = closing[i + 1]
  BY <1>1 DEF IInv, TypeOK
<1>5. ClosingAreDisconnected'
  <2>1. Len(closing) \in Nat
    BY DEF IInv, TypeOK
  <2>2. ASSUME NEW i \in 1 .. Len(closing')
        PROVE  closing'[i] \in Made /\ state[closing'[i]] = "Disconnected"
    <3>1. i + 1 \in 1 .. Len(closing) /\ closing'[i] = closing[i + 1]
      BY <1>4, <2>1, <2>2
    <3>2. QED
      BY <3>1 DEF IInv, ClosingAreDisconnected
  <2>3. QED
    BY <1>1, <2>2 DEF ClosingAreDisconnected, Made
<1>6. HeldAreMade'
  BY <1>1, <1>3 DEF IInv, HeldAreMade, Made, threads, history
<1>7. TypeOK'
  BY <1>1, <1>3, <1>4 DEF IInv, TypeOK, threads, history
<1>8. QED
  BY <1>3, <1>5, <1>6, <1>7 DEF IInv

LEMMA DisconnectKeepsIInv ==
  ASSUME IInv, NEW t \in Threads, Disconnect(t)
  PROVE  IInv'
<1> USE TCPServerAssumption
<1> DEFINE c == cur[t]
<1>1. /\ state' = [state EXCEPT ![c] = "Disconnected"]
      /\ connections' = [connections EXCEPT ![loop[c]] = (@ - 1) % SizeT]
      /\ Goto(t, "idle")
      /\ UNCHANGED <<created, fd, loop, timers, toSend, eof, ready, history>>
  BY DEF Disconnect
<1>2. c \in Made /\ c \in Conns
  BY DEF Disconnect, IInv, TypeOK, HeldAreMade, Made
<1>3. /\ cur' \in [Threads -> Conns \cup {NoConn}]
      /\ step' \in [Threads -> Steps]
      /\ \A u \in Threads : step'[u] # "idle" => cur'[u] \in Made
  <2>1. TypeOK /\ "idle" \in Steps
    BY DEF IInv
  <2>2. /\ cur' \in [Threads -> Conns \cup {NoConn}]
        /\ step' \in [Threads -> Steps]
        /\ \A u \in Threads : step'[u] # "idle" =>
              cur'[u] = cur[u] /\ (u # t => step[u] # "idle")
    BY <1>1, <2>1, GotoKeepsTypes
  <2>3. \A u \in Threads : step'[u] # "idle" => step[u] # "idle"
    BY <2>2 DEF Disconnect
  <2>4. QED
    BY <2>2, <2>3 DEF IInv, HeldAreMade
<1>4. /\ state' \in [Conns -> {"Invalid", "Connected", "Disconnected"}]
      /\ connections' \in [Loops -> 0 .. SizeT - 1]
  <2>1. connections[loop[c]] - 1 \in Int
    BY <1>2 DEF IInv, TypeOK
  <2> QED BY <1>1, <1>2, <2>1, Wraps DEF IInv, TypeOK
<1>5. \A i \in 1 .. Len(closing) : closing[i] \in Made' /\ state'[closing[i]] = "Disconnected"
  <2>1. \A d \in Made : d \in Conns /\ (state[d] = "Disconnected" => state'[d] = "Disconnected")
    BY <1>1 DEF IInv, TypeOK, Made
  <2>2. QED
    BY <1>1, <2>1 DEF IInv, ClosingAreDisconnected, Made
<1>6. CASE t = Main
  <2>1. RemoveConnection(c) /\ closing' = closing
    BY <1>6 DEF Disconnect
  <2> HIDE DEF c
  <2>2. /\ conn_map' \in [Fds -> Conns \cup {NoConn}]
        /\ channelFd' \in [Conns -> Fds \cup {NoFd}]
        /\ owner' \in [Fds -> Conns \cup {NoConn}]
        /\ registered' \subseteq registered
        /\ edge' \subseteq registered'
        /\ unread' \in [Conns -> 0 .. MaxSends]
        /\ Budget' /\ NumberedWhenMade' /\ OneSocketEach' /\ MapOwnsSockets'
    BY <1>1, <1>2, <2>1, RemoveKeepsSockets
  <2>3. ClosingAreDisconnected'
    BY <2>1, <1>5 DEF ClosingAreDisconnected
  <2>4. HeldAreMade'
    BY <1>1, <1>3, <2>2 DEF IInv, HeldAreMade, Made, history
  <2>5. TypeOK'
    BY <1>1, <1>3, <1>4, <2>1, <2>2 DEF IInv, TypeOK, history
  <2>6. QED
    BY <2>2, <2>3, <2>4, <2>5 DEF IInv
<1>7. CASE t # Main
  <2>1. /\ closing' = Append(closing, c)
        /\ UNCHANGED <<conn_map, channelFd, owner, registered, edge, unread>>
    BY <1>7 DEF Disconnect
  <2> HIDE DEF c
  <2>2. /\ closing' \in Seq(Conns)
        /\ Len(closing') = Len(closing) + 1
        /\ closing'[Len(closing) + 1] = c
        /\ \A i \in 1 .. Len(closing) : closing'[i] = closing[i]
    BY <1>2, <2>1 DEF IInv, TypeOK
  <2>3. ClosingAreDisconnected'
    <3>1. Len(closing) \in Nat
      BY DEF IInv, TypeOK
    <3>2. c \in Made' /\ state'[c] = "Disconnected"
      BY <1>1, <1>2 DEF IInv, TypeOK, Made
    <3>3. ASSUME NEW i \in 1 .. Len(closing')
          PROVE  closing'[i] \in Made' /\ state'[closing'[i]] = "Disconnected"
      <4>1. CASE i = Len(closing) + 1
        BY <2>2, <3>2, <4>1
      <4>2. CASE i \in 1 .. Len(closing)
        BY <1>5, <2>2, <4>2
      <4>3. QED
        BY <2>2, <3>1, <4>1, <4>2
    <3>4. QED
      BY <3>3 DEF ClosingAreDisconnected
  <2>4. HeldAreMade'
    BY <1>1, <1>3, <2>1 DEF IInv, HeldAreMade, Made, history
  <2>5. TypeOK'
    BY <1>1, <1>3, <1>4, <2>1, <2>2 DEF IInv, TypeOK, history
  <2>6. Budget' /\ NumberedWhenMade' /\ OneSocketEach' /\ MapOwnsSockets'
    BY <1>1, <2>1 DEF IInv, Budget, NumberedWhenMade, OneSocketEach, MapOwnsSockets, Made
  <2>7. QED
    BY <2>3, <2>4, <2>5, <2>6 DEF IInv
<1>8. QED
  BY <1>6, <1>7

\* A number that no socket has gets the next connection.
LEMMA AcceptKeepsIInv ==
  ASSUME IInv, NEW l \in Loops, NEW f \in Fds, Accept(l, f)
  PROVE  IInv'
<1> USE TCPServerAssumption
<1> DEFINE c == created + 1
<1>1. /\ c \in Conns /\ owner[f] = NoConn
      /\ created' = c
      /\ owner' = [owner EXCEPT ![f] = c]
      /\ fd' = [fd EXCEPT ![c] = f]
      /\ channelFd' = [channelFd EXCEPT ![c] = f]
      /\ loop' = [loop EXCEPT ![c] = l]
      /\ conn_map' = [conn_map EXCEPT ![f] = c]
      /\ state' = [state EXCEPT ![c] = "Connected"]
      /\ timers' = timers \cup {c}
      /\ registered' = registered \cup {c}
      /\ UNCHANGED <<closing, edge, unread, toSend, eof, threads, history>>
  BY DEF Accept
<1>2. connections' \in [Loops -> 0 .. SizeT - 1]
  <2>1. connections[l] + 1 \in Int
    BY DEF IInv, TypeOK
  <2>2. (connections[l] + 1) % SizeT \in 0 .. SizeT - 1
    BY <2>1, Wraps
  <2>3. connections' = [connections EXCEPT ![l] = (@ + 1) % SizeT] \/ connections' = connections
    BY DEF Accept, SubReactor
  <2> QED BY <2>2, <2>3 DEF IInv, TypeOK
<1>3. /\ created \in Nat /\ c \notin Made /\ Made' = Made \cup {c}
      /\ \A d \in Made : d \in Conns /\ d # c
  <2>1. created \in Nat /\ MaxConns \in Nat /\ created <= MaxConns
    BY DEF IInv, TypeOK
  <2>2. 1 .. (created + 1) = (1 .. created) \cup {created + 1}
    BY <2>1
  <2>3. QED
    BY <1>1, <2>1, <2>2 DEF Made
<1>4. channelFd[c] = NoFd
  BY <1>1, <1>3 DEF IInv, NumberedWhenMade
<1> HIDE DEF c
<1>5. TypeOK'
  <2>1. /\ owner' \in [Fds -> Conns \cup {NoConn}]
        /\ fd' \in [Conns -> Fds \cup {NoFd}]
        /\ channelFd' \in [Conns -> Fds \cup {NoFd}]
        /\ loop' \in [Conns -> Loops]
        /\ conn_map' \in [Fds -> Conns \cup {NoConn}]
        /\ state' \in [Conns -> {"Invalid", "Connected", "Disconnected"}]
    BY <1>1 DEF IInv, TypeOK
  <2>2. created' \in 0 .. MaxConns
    BY <1>1
  <2>3. QED
    BY <1>1, <1>2, <2>1, <2>2 DEF IInv, TypeOK, threads, history
<1>6. Budget'
  BY <1>1 DEF IInv, Budget
<1>7. NumberedWhenMade'
  BY <1>1, <1>3, SMTT(30) DEF IInv, TypeOK, NumberedWhenMade
<1>8. HeldAreMade'
  BY <1>1, <1>3 DEF IInv, HeldAreMade, threads, history
<1>9. ClosingAreDisconnected'
  <2>1. \A d \in Made : state[d] = "Disconnected" => d \in Made' /\ state'[d] = "Disconnected"
    BY <1>1, <1>3 DEF IInv, TypeOK
  <2>2. QED
    BY <1>1, <2>1 DEF IInv, ClosingAreDisconnected
<1>10. OneSocketEach'
  BY <1>1, <1>4, SMTT(30) DEF IInv, TypeOK, OneSocketEach
<1>11. MapOwnsSockets'
  <2>1. ASSUME NEW g \in Fds, conn_map'[g] # NoConn
        PROVE  LET d == conn_map'[g] IN fd'[d] = g /\ channelFd'[d] = g /\ owner'[g] = d
    <3>1. CASE g = f
      BY <1>1, <3>1 DEF IInv, TypeOK
    <3>2. CASE g # f
      <4>1. conn_map'[g] = conn_map[g] /\ owner'[g] = owner[g]
        BY <1>1, <3>2 DEF IInv, TypeOK
      <4>2. /\ fd[conn_map[g]] = g /\ channelFd[conn_map[g]] = g
            /\ owner[g] = conn_map[g]
        BY <2>1, <4>1 DEF IInv, MapOwnsSockets
      <4>3. conn_map[g] \in Conns /\ conn_map[g] # c
        BY <1>4, <2>1, <4>1, <4>2 DEF IInv, TypeOK
      <4>4. QED
        BY <1>1, <4>1, <4>2, <4>3 DEF IInv, TypeOK
    <3>3. QED
      BY <3>1, <3>2
  <2>2. QED
    BY <2>1 DEF MapOwnsSockets
<1>12. QED
  BY <1>5, <1>6, <1>7, <1>8, <1>9, <1>10, <1>11 DEF IInv

LEMMA IdleTimeoutKeepsIInv ==
  ASSUME IInv, NEW c \in Conns, IdleTimeout(c)
  PROVE  IInv'
<1> USE TCPServerAssumption
<1>1. c \in Made
  BY DEF IdleTimeout, IInv, HeldAreMade
<1>2. /\ cur' \in [Threads -> Conns \cup {NoConn}]
      /\ step' \in [Threads -> Steps]
      /\ \A u \in Threads : step'[u] # "idle" => cur'[u] \in Made
  BY <1>1 DEF IdleTimeout, IInv, TypeOK, HeldAreMade
<1>3. TypeOK'
  BY <1>2 DEF IdleTimeout, IInv, TypeOK, counts, kernel, history
<1>4. Budget' /\ HeldAreMade'
  BY <1>2 DEF IdleTimeout, IInv, Budget, HeldAreMade, Made, kernel, history
<1>5. QED
  BY <1>3, <1>4, SocketsUntouched DEF IdleTimeout, IInv, counts, kernel

-----------------------------------------------------------------------------
LEMMA NextKeepsIInv == IInv /\ [Next]_vars => IInv'
<1> SUFFICES ASSUME IInv, [Next]_vars PROVE IInv'
  OBVIOUS
<1>1. CASE \E t \in Threads : ThreadStep(t)
  <2>1. PICK t \in Threads : ThreadStep(t)
    BY <1>1
  <2>2. ThreadMove(t) \/ ReadSome(t) \/ Disconnect(t)
    BY <2>1 DEF ThreadStep, ThreadMove
  <2>3. QED
    BY <2>2, ThreadMoveKeepsIInv, EventKeepsIInv, DisconnectKeepsIInv
<1>2. CASE (\E l \in Loops : LoopStep(l)) \/ \E c \in Conns : PeerStep(c)
  BY <1>2, EventKeepsIInv
<1>3. CASE MainStep
  BY <1>3, AcceptKeepsIInv, IdleTimeoutKeepsIInv DEF MainStep
<1>4. CASE RunCloseFunctor
  BY <1>4, CloseFunctorKeepsIInv
<1>5. CASE UNCHANGED vars
  <2>1. TypeOK' /\ Budget' /\ HeldAreMade'
    BY <1>5 DEF IInv, TypeOK, Budget, HeldAreMade, Made, vars, objects, counts, threads, kernel, history
  <2>2. QED
    BY <1>5, <2>1, SocketsUntouched DEF IInv, vars, objects, counts, kernel
<1>6. QED
  BY <1>1, <1>2, <1>3, <1>4, <1>5 DEF Next

LEMMA Invariance == Spec => []IInv
<1>1. QED
  BY InitIInv, NextKeepsIInv, PTL DEF Spec

\* TypeOK, for every number of connections, descriptors, loops and threads: in
\* particular whatever a thread works on is a connection that was accepted.
THEOREM TypeCorrect == Spec => []TypeOK
<1>1. IInv => TypeOK
  BY DEF IInv
<1>2. QED
  BY <1>1, Invariance, PTL

\* TCP-Server.cc 60-68, 79: an entry of conn_map_ always names the connection
\* whose socket the number is.
THEOREM EntriesOwnTheirSockets == Spec => []MapOwnsSockets
<1>1. IInv => MapOwnsSockets
  BY DEF IInv
<1>2. QED
  BY <1>1, Invariance, PTL

-----------------------------------------------------------------------------
ClosesOwn == \A f \in Fds : owner[f] # NoConn /\ owner'[f] = NoConn =>
                LET c == owner[f] IN channelFd[c] = f /\ channelFd'[c] = NoFd /\ state'[c] = "Disconnected"

\* A functor that changes the owner of a number closes the socket of its own
\* connection.
LEMMA RemoveClosesOwn ==
  ASSUME IInv, NEW c \in Made, RemoveConnection(c), NEW f \in Fds, owner[f] # NoConn, owner'[f] = NoConn
  PROVE  owner[f] = c /\ channelFd[c] = f /\ channelFd'[c] = NoFd
<1>1. c \in Conns
  BY TCPServerAssumption DEF IInv, TypeOK, Made
<1>2. /\ channelFd[c] # NoFd
      /\ owner' = [owner EXCEPT ![channelFd[c]] = NoConn]
      /\ channelFd' = [channelFd EXCEPT ![c] = NoFd]
  BY DEF RemoveConnection
<1>3. f = channelFd[c]
  BY <1>2 DEF IInv, TypeOK
<1>4. owner[f] = c
  BY <1>1, <1>3 DEF IInv, OneSocketEach
<1>5. QED
  BY <1>1, <1>2, <1>3, <1>4 DEF IInv, TypeOK

LEMMA NextClosesOwn == IInv /\ Next => ClosesOwn
<1> SUFFICES ASSUME IInv, Next, NEW f \in Fds, owner[f] # NoConn, owner'[f] = NoConn
             PROVE  /\ channelFd[owner[f]] = f /\ channelFd'[owner[f]] = NoFd
                    /\ state'[owner[f]] = "Disconnected"
  BY DEF ClosesOwn
<1>1. CASE RunCloseFunctor
  <2> DEFINE c == Head(closing)
  <2>1. RemoveConnection(c) /\ state' = state /\ closing # <<>>
    BY <1>1 DEF RunCloseFunctor
  <2>2. c \in Made /\ state[c] = "Disconnected"
    BY <2>1 DEF IInv, TypeOK, ClosingAreDisconnected
  <2> HIDE DEF c
  <2>3. QED
    BY <2>1, <2>2, RemoveClosesOwn
<1>2. CASE \E t \in Threads : Disconnect(t)
  <2>1. PICK t \in Threads : Disconnect(t)
    BY <1>2
  <2> DEFINE c == cur[t]
  <2>2. c \in Made /\ c \in Conns
    BY <2>1, TCPServerAssumption DEF Disconnect, IInv, TypeOK, HeldAreMade, Made
  <2>3. RemoveConnection(c) /\ state' = [state EXCEPT ![c] = "Disconnected"]
    BY <2>1 DEF Disconnect
  <2> HIDE DEF c
  <2>4. state'[c] = "Disconnected"
    BY <2>2, <2>3 DEF IInv, TypeOK
  <2>5. QED
    BY <2>2, <2>3, <2>4, RemoveClosesOwn
<1>3. CASE \E l \in Loops, g \in Fds : Accept(l, g)
  <2>1. \E g \in Fds : owner' = [owner EXCEPT ![g] = created + 1] /\ created + 1 # NoConn
    BY <1>3, TCPServerAssumption DEF Accept, IInv, TypeOK
  <2>2. QED
    BY <2>1 DEF IInv, TypeOK
<1>4. CASE owner' = owner
  BY <1>4
<1>5. QED
  BY <1>1, <1>2, <1>3, <1>4
  DEF Next, ThreadStep, LoopStep, MainStep, PeerStep, ReadSome, ReadEof, ReadAgain, MessageIgnored,
      MessageAnswer, MessageDelegate, SendOk, SendError, HandleCloseTest, Poll, HandleEvent,
      IdleTimeout, PeerSend, PeerClose, kernel

\* Channel.cc 101-107: no functor ever closes the socket of a connection other
\* than its own, or of one that is not Disconnected, however late it runs and
\* however many threads have closed the connection.
THEOREM SocketsClosedByTheirOwn == Spec => ClosesOwnSocket
<1>1. IInv /\ [Next]_vars => [ClosesOwn]_vars
  BY NextClosesOwn
<1>2. QED
  BY <1>1, Invariance, PTL DEF Spec, ClosesOwnSocket, ClosesOwn

-----------------------------------------------------------------------------
(* The closing of connections, by whatever threads.                          *)

\* What was tested in handleClose still holds when it is acted upon, and no
\* other thread is about to do the same, unless the two were there at once.
TestHolds == \A t \in Threads : step[t] = "disconnect" /\ cur[t] \notin raced =>
                /\ state[cur[t]] # "Disconnected"
                /\ \A u \in Closers(cur[t]) : u = t

\* A connection that is not closed has its entry.
EntryUntilClosed == \A c \in Made : ~RacedFor(fd[c]) /\ state[c] # "Disconnected" => conn_map[fd[c]] = c

OneCloser == TestHolds /\ EntryUntilClosed /\ ClosedOnce

\* A number that connections have raced for stays one.
LEMMA RacedForStays ==
  ASSUME IInv, raced \subseteq raced', \A c \in Made : fd'[c] = fd[c], NEW f, ~RacedFor(f)'
  PROVE  ~RacedFor(f)
  BY DEF RacedFor, IInv, HeldAreMade

\* Conjuncts about connections that the steps of threads leave alone.
LEMMA ClosedOnceUntouched ==
  ASSUME IInv, EntryUntilClosed, ClosedOnce, raced \subseteq raced',
         UNCHANGED <<created, fd, conn_map, state, closing>>
  PROVE  EntryUntilClosed' /\ ClosedOnce'
<1>1. \A f : ~RacedFor(f)' => ~RacedFor(f)
  BY RacedForStays
<1> QED BY <1>1 DEF EntryUntilClosed, ClosedOnce, Made

LEMMA MoveKeepsOneCloser ==
  ASSUME IInv, OneCloser, NEW t \in Threads, ThreadMove(t) \/ ReadSome(t)
  PROVE  OneCloser'
<1>1. UNCHANGED <<created, fd, conn_map, state, closing>>
  BY DEF ThreadMove, ReadSome, ReadEof, ReadAgain, MessageIgnored, MessageAnswer, MessageDelegate, SendOk,
         SendError, HandleCloseTest, objects, counts
<1>2. CASE HandleCloseTest(t)
  <2> DEFINE c == cur[t]
             s == IF state[c] # "Disconnected" THEN "disconnect" ELSE "idle"
  <2>1. /\ step[t] = "handleClose" /\ Goto(t, s)
        /\ raced' = IF state[c] # "Disconnected" /\ Closers(c) # {} THEN raced \cup {c} ELSE raced
    BY <1>2 DEF HandleCloseTest
  <2>2. \A u \in Threads : /\ u # t => step'[u] = step[u] /\ cur'[u] = cur[u]
                           /\ step'[t] = s /\ (s = "disconnect" => cur'[t] = cur[t])
    BY <2>1 DEF Goto, IInv, TypeOK
  <2>3. s = "disconnect" => state[c] # "Disconnected"
    OBVIOUS
  <2>4. s = "disconnect" /\ c \notin raced' => Closers(c) = {}
    BY <2>1
  <2> HIDE DEF s, c
  <2>5. ASSUME NEW u \in Threads, step'[u] = "disconnect", cur'[u] \notin raced'
        PROVE  state[cur'[u]] # "Disconnected" /\ \A v \in Threads : step'[v] = "disconnect" /\ cur'[v] = cur'[u] => v = u
    <3>1. cur'[u] \notin raced
      BY <2>1, <2>5
    <3>2. CASE u = t
      <4>1. s = "disconnect" /\ cur'[u] = c
        BY <2>2, <2>5, <3>2 DEF c
      <4>2. \A v \in Threads : v # t => ~(step[v] = "disconnect" /\ cur[v] = c)
        BY <2>4, <2>5, <4>1 DEF Closers
      <4> QED BY <2>2, <2>3, <3>2, <4>1, <4>2
    <3>3. CASE u # t
      <4>1. step[u] = "disconnect" /\ cur'[u] = cur[u]
        BY <2>2, <2>5, <3>3
      <4>2. state[cur[u]] # "Disconnected" /\ \A v \in Threads : step[v] = "disconnect" /\ cur[v] = cur[u] => v = u
        BY <3>1, <4>1 DEF OneCloser, TestHolds, Closers
      <4>3. ~(s = "disconnect" /\ c = cur[u])
        BY <2>4, <2>5, <4>1 DEF Closers
      <4> QED BY <2>2, <4>1, <4>2, <4>3 DEF c
    <3> QED BY <3>2, <3>3
  <2>6. TestHolds'
    BY <1>1, <2>5 DEF TestHolds, Closers
  <2>7. raced \subseteq raced'
    BY <2>1
  <2> QED BY <1>1, <2>6, <2>7, ClosedOnceUntouched DEF OneCloser
<1>3. CASE ~HandleCloseTest(t)
  <2>1. raced' = raced
    BY <1>3 DEF ThreadMove, ReadSome, ReadEof, ReadAgain, MessageIgnored, MessageAnswer, MessageDelegate,
                SendOk, SendError, history
  <2>2. \A u \in Threads : step'[u] = "disconnect" => step[u] = "disconnect" /\ cur'[u] = cur[u]
    <3>1. CASE ReadSome(t)
      BY <3>1 DEF ReadSome, threads
    <3>2. CASE \E w \in Workers : MessageDelegate(t, w)
      <4>1. PICK w \in Workers, s \in {"reply", "replyClose"} :
               /\ step' = [step EXCEPT ![w] = s, ![t] = "idle"]
               /\ cur' = [cur EXCEPT ![w] = cur[t], ![t] = NoConn]
        BY <3>2 DEF MessageDelegate
      <4> QED BY <4>1 DEF IInv, TypeOK
    <3>3. CASE \E s \in Steps \ {"disconnect"} : Goto(t, s)
      BY <3>3 DEF Goto, IInv, TypeOK
    <3> QED BY <1>3, <3>1, <3>2, <3>3
        DEF ThreadMove, ReadEof, ReadAgain, MessageIgnored, MessageAnswer, SendOk, SendError
  <2>3. TestHolds'
    BY <1>1, <2>1, <2>2 DEF OneCloser, TestHolds, Closers
  <2> QED BY <1>1, <2>1, <2>3, ClosedOnceUntouched DEF OneCloser
<1> QED BY <1>2, <1>3

LEMMA EventKeepsOneCloser ==
  ASSUME IInv, OneCloser, (\E c \in Conns : PeerStep(c)) \/ (\E l \in Loops : LoopStep(l))
                          \/ (\E c \in Conns : IdleTimeout(c))
  PROVE  OneCloser'
<1>1. UNCHANGED <<created, fd, conn_map, state, closing, raced>>
  BY DEF PeerStep, PeerSend, PeerClose, LoopStep, Poll, HandleEvent, IdleTimeout, objects, counts, history
<1>2. \A u \in Threads : step'[u] = "disconnect" => step[u] = "disconnect" /\ cur'[u] = cur[u]
  BY DEF PeerStep, PeerSend, PeerClose, LoopStep, Poll, HandleEvent, IdleTimeout, threads, IInv, TypeOK
<1>3. TestHolds'
  BY <1>1, <1>2 DEF OneCloser, TestHolds, Closers
<1> QED BY <1>1, <1>3, ClosedOnceUntouched DEF OneCloser

LEMMA AcceptKeepsOneCloser ==
  ASSUME IInv, OneCloser, NEW l \in Loops, NEW f \in Fds, Accept(l, f)
  PROVE  OneCloser'
<1> DEFINE c == created + 1
<1>1. /\ c \in Conns /\ owner[f] = NoConn
      /\ created' = c
      /\ fd' = [fd EXCEPT ![c] = f]
      /\ conn_map' = [conn_map EXCEPT ![f] = c]
      /\ state' = [state EXCEPT ![c] = "Connected"]
      /\ UNCHANGED <<closing, cur, step, raced>>
  BY DEF Accept, threads, history
<1>2. c \notin Made /\ Made' = Made \cup {c} /\ \A d \in Made : d \in Conns /\ d # c
  <2>1. created \in Nat /\ MaxConns \in Nat /\ created <= MaxConns
    BY TCPServerAssumption DEF IInv, TypeOK
  <2>2. 1 .. (created + 1) = (1 .. created) \cup {created + 1}
    BY <2>1
  <2>3. QED
    BY <1>1, <2>1, <2>2 DEF Made
<1> HIDE DEF c
<1>3. conn_map[f] = NoConn
  BY <1>1 DEF IInv, MapOwnsSockets
<1>4. \A d \in Made : /\ fd'[d] = fd[d] /\ state'[d] = state[d]
                      /\ conn_map[fd[d]] = d => conn_map'[fd'[d]] = d
  BY <1>1, <1>2, <1>3 DEF IInv, TypeOK, NumberedWhenMade
<1>5. \A g : ~RacedFor(g)' => ~RacedFor(g)
  BY <1>1, <1>4, RacedForStays
<1>6. TestHolds'
  <2>1. \A t \in Threads : step[t] = "disconnect" => cur[t] \in Made
    BY DEF IInv, HeldAreMade
  <2> QED BY <1>1, <1>4, <2>1 DEF OneCloser, TestHolds, Closers
<1>7. EntryUntilClosed'
  <2>1. conn_map'[fd'[c]] = c
    BY <1>1 DEF IInv, TypeOK
  <2> QED BY <1>2, <1>4, <1>5, <2>1 DEF OneCloser, EntryUntilClosed
<1>8. ClosedOnce'
  BY <1>1, <1>4, <1>5 DEF OneCloser, ClosedOnce, IInv, ClosingAreDisconnected
<1> QED BY <1>6, <1>7, <1>8 DEF OneCloser

\* The functor of a connection takes away the entry of its own number only.
LEMMA RemovesOneEntry ==
  ASSUME IInv, NEW c \in Made, RemoveConnection(c)
  PROVE  conn_map' = [conn_map EXCEPT ![fd[c]] = NoConn]
<1>1. CASE conn_map[fd[c]] = NoConn
  BY <1>1 DEF RemoveConnection, IInv, TypeOK, NumberedWhenMade
<1> QED BY <1>1 DEF RemoveConnection

LEMMA RemovesOwnEntry ==
  ASSUME IInv, NEW c \in Made, RemoveConnection(c), ~RacedFor(fd[c]) => conn_map[fd[c]] = c
  PROVE  \A d \in Made : ~RacedFor(fd[d]) /\ d # c /\ conn_map[fd[d]] = d => conn_map'[fd[d]] = d
<1>1. conn_map' = [conn_map EXCEPT ![fd[c]] = NoConn]
  BY RemovesOneEntry
<1> QED BY <1>1 DEF IInv, TypeOK, NumberedWhenMade

LEMMA FunctorKeepsOneCloser == IInv /\ OneCloser /\ RunCloseFunctor => OneCloser'
<1> SUFFICES ASSUME IInv, OneCloser, RunCloseFunctor PROVE OneCloser'
  OBVIOUS
<1> DEFINE c == Head(closing)
<1>1. /\ closing # <<>> /\ closing' = Tail(closing) /\ RemoveConnection(c)
      /\ UNCHANGED <<created, fd, state, cur, step, raced>>
  BY DEF RunCloseFunctor, threads, history
<1>2. closing \in Seq(Conns)
  BY DEF IInv, TypeOK
<1>3. /\ c = closing[1] /\ 1 \in 1 .. Len(closing) /\ Len(closing) \in Nat /\ Len(closing') = Len(closing) - 1
      /\ \A i \in 1 .. Len(closing') : closing'[i] = closing[i + 1] /\ i + 1 \in 1 .. Len(closing) /\ i + 1 # 1
  BY <1>1, <1>2
<1> HIDE DEF c
<1>4. c \in Made /\ state[c] = "Disconnected" /\ (~RacedFor(fd[c]) => conn_map[fd[c]] = c)
  BY <1>3 DEF IInv, ClosingAreDisconnected, OneCloser, ClosedOnce
<1>5. \A d \in Made : ~RacedFor(fd[d]) /\ d # c /\ conn_map[fd[d]] = d => conn_map'[fd[d]] = d
  BY <1>1, <1>4, RemovesOwnEntry
<1>6. TestHolds'
  BY <1>1 DEF OneCloser, TestHolds, Closers
<1>7. EntryUntilClosed'
  BY <1>1, <1>4, <1>5 DEF OneCloser, EntryUntilClosed, Made, RacedFor
<1>8. ClosedOnce'
  <2>1. ASSUME NEW i \in 1 .. Len(closing'), ~RacedFor(fd[closing'[i]])
        PROVE  /\ conn_map'[fd[closing'[i]]] = closing'[i]
               /\ \A j \in 1 .. Len(closing') : closing'[j] = closing'[i] => j = i
    <3>1. /\ closing'[i] = closing[i + 1] /\ i + 1 \in 1 .. Len(closing)
          /\ closing[i + 1] \in Made
      BY <1>3 DEF IInv, ClosingAreDisconnected
    <3>2. /\ conn_map[fd[closing[i + 1]]] = closing[i + 1]
          /\ \A j \in 1 .. Len(closing) : closing[j] = closing[i + 1] => j = i + 1
      BY <2>1, <3>1 DEF OneCloser, ClosedOnce
    <3>3. closing[i + 1] # c
      BY <1>3, <3>2
    <3>4. conn_map'[fd[closing'[i]]] = closing'[i]
      BY <1>5, <2>1, <3>1, <3>2, <3>3
    <3>5. ASSUME NEW j \in 1 .. Len(closing'), closing'[j] = closing'[i] PROVE j = i
      <4>1. j + 1 = i + 1
        BY <1>3, <3>1, <3>2, <3>5
      <4> QED BY <1>3, <4>1
    <3> QED BY <3>4, <3>5
  <2> QED BY <1>1, <2>1 DEF ClosedOnce, RacedFor
<1> QED BY <1>6, <1>7, <1>8 DEF OneCloser

LEMMA DisconnectKeepsOneCloser ==
  ASSUME IInv, OneCloser, NEW t \in Threads, Disconnect(t)
  PROVE  OneCloser'
<1> DEFINE c == cur[t]
<1>1. /\ step[t] = "disconnect"
      /\ state' = [state EXCEPT ![c] = "Disconnected"]
      /\ Goto(t, "idle")
      /\ UNCHANGED <<created, fd, raced>>
  BY DEF Disconnect, history
<1>2. c \in Made /\ c \in Conns
  BY <1>1, TCPServerAssumption DEF IInv, TypeOK, HeldAreMade, Made
<1>3. ~RacedFor(fd[c]) => c \notin raced /\ state[c] # "Disconnected" /\ conn_map[fd[c]] = c
  <2>1. ~RacedFor(fd[c]) => c \notin raced
    BY DEF RacedFor
  <2> QED BY <1>1, <1>2, <2>1 DEF OneCloser, TestHolds, EntryUntilClosed
<1>4. \A u \in Threads : step'[u] # "idle" => u # t /\ step'[u] = step[u] /\ cur'[u] = cur[u]
  BY <1>1 DEF Goto, IInv, TypeOK
<1>5. TestHolds'
  <2>1. ASSUME NEW u \in Threads, step'[u] = "disconnect", cur'[u] \notin raced'
        PROVE  /\ state'[cur'[u]] # "Disconnected"
               /\ \A v \in Threads : step'[v] = "disconnect" /\ cur'[v] = cur'[u] => v = u
    <3>1. u # t /\ step[u] = "disconnect" /\ cur'[u] = cur[u] /\ cur[u] \notin raced
      BY <1>1, <1>4, <2>1
    <3>2. state[cur[u]] # "Disconnected" /\ \A v \in Closers(cur[u]) : v = u
      BY <3>1 DEF OneCloser, TestHolds
    <3>3. cur[u] # c
      BY <1>1, <3>1, <3>2 DEF Closers
    <3>4. cur[u] \in Conns
      BY <3>1, TCPServerAssumption DEF IInv, TypeOK, HeldAreMade, Made
    <3>5. state'[cur[u]] # "Disconnected"
      BY <1>1, <3>2, <3>3, <3>4 DEF IInv, TypeOK
    <3> QED BY <1>4, <3>1, <3>2, <3>5 DEF Closers
  <2> QED BY <2>1 DEF TestHolds, Closers
<1> HIDE DEF c
<1>6. \A d \in Made : d # c => state'[d] = state[d]
  BY <1>1, <1>2, TCPServerAssumption DEF IInv, TypeOK, Made
<1>7. state'[c] = "Disconnected" /\ Made' = Made /\ \A f : RacedFor(f)' <=> RacedFor(f)
  BY <1>1, <1>2 DEF IInv, TypeOK, Made, RacedFor
<1>8. \A i \in 1 .. Len(closing) : closing[i] \in Made /\ (~RacedFor(fd[c]) => closing[i] # c)
  BY <1>3 DEF IInv, ClosingAreDisconnected
<1>9. CASE t = Main
  <2>1. RemoveConnection(c) /\ closing' = closing
    BY <1>9 DEF Disconnect, c
  <2>2. \A d \in Made : ~RacedFor(fd[d]) /\ d # c /\ conn_map[fd[d]] = d => conn_map'[fd[d]] = d
    BY <1>2, <1>3, <2>1, RemovesOwnEntry
  <2>3. EntryUntilClosed'
    BY <1>1, <1>6, <1>7, <2>2 DEF OneCloser, EntryUntilClosed
  <2>4. ClosedOnce'
    BY <1>1, <1>7, <1>8, <2>1, <2>2 DEF OneCloser, ClosedOnce
  <2> QED BY <1>5, <2>3, <2>4 DEF OneCloser
<1>10. CASE t # Main
  <2>1. closing' = Append(closing, c) /\ conn_map' = conn_map
    BY <1>10 DEF Disconnect, c
  <2>2. EntryUntilClosed'
    BY <1>1, <1>6, <1>7, <2>1 DEF OneCloser, EntryUntilClosed
  <2>3. /\ Len(closing) \in Nat /\ Len(closing') = Len(closing) + 1
        /\ closing'[Len(closing) + 1] = c
        /\ \A i \in 1 .. Len(closing) : closing'[i] = closing[i]
    BY <1>2, <2>1 DEF IInv, TypeOK
  <2>4. \A i \in 1 .. Len(closing') : i \in 1 .. Len(closing) \/ i = Len(closing) + 1
    BY <2>3
  <2>5. ASSUME NEW i \in 1 .. Len(closing'), ~RacedFor(fd[closing'[i]])
        PROVE  /\ conn_map[fd[closing'[i]]] = closing'[i]
               /\ \A j \in 1 .. Len(closing') : closing'[j] = closing'[i] => j = i
    <3>1. CASE i = Len(closing) + 1
      BY <1>3, <1>8, <2>3, <2>4, <2>5, <3>1
    <3>2. CASE i \in 1 .. Len(closing)
      <4>1. closing'[i] = closing[i] /\ closing[i] # c
        BY <1>8, <2>3, <2>5, <3>2
      <4> QED BY <2>3, <2>4, <2>5, <3>2, <4>1 DEF OneCloser, ClosedOnce
    <3> QED BY <2>4, <3>1, <3>2
  <2>6. ClosedOnce'
    BY <1>1, <1>7, <2>1, <2>5 DEF ClosedOnce
  <2> QED BY <1>5, <2>2, <2>6 DEF OneCloser
<1> QED BY <1>9, <1>10

LEMMA NextKeepsOneCloser == IInv /\ OneCloser /\ [Next]_vars => OneCloser'
<1> SUFFICES ASSUME IInv, OneCloser, [Next]_vars PROVE OneCloser'
  OBVIOUS
<1>1. CASE \E t \in Threads : ThreadStep(t)
  <2>1. PICK t \in Threads : ThreadStep(t)
    BY <1>1
  <2>2. ThreadMove(t) \/ ReadSome(t) \/ Disconnect(t)
    BY <2>1 DEF ThreadStep, ThreadMove
  <2> QED BY <2>2, MoveKeepsOneCloser, DisconnectKeepsOneCloser
<1>2. CASE (\E l \in Loops : LoopStep(l)) \/ \E c \in Conns : PeerStep(c)
  BY <1>2, EventKeepsOneCloser
<1>3. CASE MainStep
  BY <1>3, AcceptKeepsOneCloser, EventKeepsOneCloser DEF MainStep
<1>4. CASE RunCloseFunctor
  BY <1>4, FunctorKeepsOneCloser
<1>5. CASE UNCHANGED vars
  <2>1. UNCHANGED <<created, fd, conn_map, state, closing, raced, cur, step>>
    BY <1>5 DEF vars, objects, counts, threads, history
  <2>2. TestHolds'
    BY <2>1 DEF OneCloser, TestHolds, Closers
  <2> QED BY <2>1, <2>2, ClosedOnceUntouched DEF OneCloser
<1> QED BY <1>1, <1>2, <1>3, <1>4, <1>5 DEF Next

LEMMA InitOneCloser == Init => OneCloser
  BY DEF Init, OneCloser, TestHolds, Closers, EntryUntilClosed, ClosedOnce, Made

\* TCP-Connection.cc 213-232: whoever closes connections, one is closed once and
\* its functor finds it, unless two threads have closed at once a connection of
\* its number.
THEOREM ConnectionsClosedOnce == Spec => []ClosedOnce
<1>1. IInv /\ OneCloser /\ [Next]_vars => OneCloser'
  BY NextKeepsOneCloser
<1>2. OneCloser => ClosedOnce
  BY DEF OneCloser
<1> QED BY <1>1, <1>2, InitOneCloser, Invariance, PTL DEF Spec

-----------------------------------------------------------------------------
(* The loads the main loop places new connections by.                        *)

OpenOn(l) == {c \in Conns : state[c] = "Connected" /\ loop[c] = l}

\* Only accepted connections have been Connected.
ConnectedWhenMade == /\ \A c \in Made : state[c] # "Invalid"
                     /\ \A c \in Conns \ Made : state[c] = "Invalid"

Loaded == ConnectedWhenMade /\ LoadCountsConnections

\* So that a count of them does not come to SizeT.
LEMMA OpenAreFew ==
  ASSUME IInv, NEW l
  PROVE  IsFiniteSet(OpenOn(l)) /\ Cardinality(OpenOn(l)) \in 0 .. SizeT - 1
<1>1. IsFiniteSet(Conns) /\ Cardinality(Conns) = MaxConns
  BY TCPServerAssumption, FS_Interval
<1>2. OpenOn(l) \in SUBSET Conns
  BY DEF OpenOn
<1>3. IsFiniteSet(OpenOn(l)) /\ Cardinality(OpenOn(l)) <= MaxConns
  BY <1>1, <1>2, FS_Subset
<1>4. Cardinality(OpenOn(l)) \in Nat
  BY <1>3, FS_CardinalityType
<1> QED BY <1>3, <1>4, TCPServerAssumption

LEMMA LoadedUntouched ==
  ASSUME IInv, Loaded, UNCHANGED <<created, state, loop, connections>>, raced \subseteq raced'
  PROVE  Loaded'
BY DEF Loaded, ConnectedWhenMade, LoadCountsConnections, Made

LEMMA AcceptKeepsLoaded ==
  ASSUME IInv, Loaded, NEW l \in Loops, NEW f \in Fds, Accept(l, f)
  PROVE  Loaded'
<1> DEFINE c == created + 1
<1>1. /\ c \in Conns /\ created' = c /\ raced' = raced
      /\ loop' = [loop EXCEPT ![c] = l]
      /\ state' = [state EXCEPT ![c] = "Connected"]
      /\ \/ connections' = [connections EXCEPT ![l] = (@ + 1) % SizeT]
         \/ l \notin SubLoops /\ connections' = connections
  BY TCPServerAssumption DEF Accept, SubReactor, history
<1>2. c \notin Made /\ Made' = Made \cup {c} /\ \A d \in Made : d \in Conns /\ d # c
  <2>1. created \in Nat /\ MaxConns \in Nat /\ created <= MaxConns
    BY TCPServerAssumption DEF IInv, TypeOK
  <2>2. 1 .. (created + 1) = (1 .. created) \cup {created + 1}
    BY <2>1
  <2>3. QED
    BY <1>1, <2>1, <2>2 DEF Made
<1> HIDE DEF c
<1>3. \A d \in Conns : d # c => state'[d] = state[d] /\ loop'[d] = loop[d]
  BY <1>1 DEF IInv, TypeOK
<1>4. state[c] = "Invalid" /\ state'[c] = "Connected" /\ loop'[c] = l
  BY <1>1, <1>2 DEF Loaded, ConnectedWhenMade, IInv, TypeOK
<1>5. ConnectedWhenMade'
  BY <1>2, <1>3, <1>4 DEF Loaded, ConnectedWhenMade
<1>6. ASSUME NEW k \in SubLoops, \A d \in raced' : loop'[d] # k
      PROVE  connections'[k] = Cardinality(OpenOn(k)')
  <2>1. \A d \in raced : d \in Made
    BY DEF IInv, HeldAreMade
  <2>2. \A d \in raced : loop[d] # k
    BY <1>1, <1>2, <1>3, <1>6, <2>1
  <2>3. connections[k] = Cardinality(OpenOn(k)) /\ IsFiniteSet(OpenOn(k))
    BY <2>2, OpenAreFew DEF Loaded, LoadCountsConnections, OpenOn
  <2>4. CASE k = l
    <3>1. OpenOn(k)' = OpenOn(k) \cup {c} /\ c \notin OpenOn(k)
      BY <1>1, <1>3, <1>4, <2>4 DEF OpenOn
    <3>2. connections'[k] = (connections[k] + 1) % SizeT
      BY <1>1, <2>4 DEF IInv, TypeOK
    <3>3. Cardinality(OpenOn(k)') = connections[k] + 1
      <4>1. Cardinality(OpenOn(k) \cup {c}) = Cardinality(OpenOn(k)) + 1
        BY <2>3, <3>1, FS_AddElement
      <4> QED BY <2>3, <3>1, <4>1
    <3>4. Cardinality(OpenOn(k)') \in 0 .. SizeT - 1
      <4>1. OpenOn(k)' \in SUBSET Conns /\ IsFiniteSet(Conns) /\ Cardinality(Conns) = MaxConns
        <5>1. OpenOn(k)' \in SUBSET Conns
          BY DEF OpenOn
        <5>2. IsFiniteSet(Conns) /\ Cardinality(Conns) = MaxConns
          BY TCPServerAssumption, FS_Interval
        <5> QED BY <5>1, <5>2
      <4>2. IsFiniteSet(OpenOn(k)') /\ Cardinality(OpenOn(k)') <= MaxConns
        BY <4>1, FS_Subset
      <4>3. Cardinality(OpenOn(k)') \in Nat
        BY <4>2, FS_CardinalityType
      <4> QED BY <4>2, <4>3, TCPServerAssumption
    <3> QED BY <3>2, <3>3, <3>4, DoesNotWrap
  <2>5. CASE k # l
    <3>1. OpenOn(k)' = OpenOn(k)
      BY <1>1, <1>3, <1>4, <2>5 DEF OpenOn
    <3>2. connections'[k] = connections[k]
      BY <1>1, <2>5 DEF IInv, TypeOK
    <3> QED BY <2>3, <3>1, <3>2
  <2> QED BY <2>4, <2>5
<1> QED BY <1>5, <1>6 DEF Loaded, LoadCountsConnections, OpenOn

LEMMA DisconnectKeepsLoaded ==
  ASSUME IInv, OneCloser, Loaded, NEW t \in Threads, Disconnect(t)
  PROVE  Loaded'
<1> DEFINE c == cur[t]
<1>1. /\ step[t] = "disconnect" /\ UNCHANGED <<created, loop, raced>>
      /\ state' = [state EXCEPT ![c] = "Disconnected"]
      /\ connections' = [connections EXCEPT ![loop[c]] = (@ - 1) % SizeT]
  BY DEF Disconnect, history
<1>2. c \in Made /\ c \in Conns
  BY <1>1, TCPServerAssumption DEF IInv, TypeOK, HeldAreMade, Made
<1>3. c \notin raced => state[c] = "Connected"
  <2>1. c \notin raced => state[c] # "Disconnected"
    BY <1>1 DEF OneCloser, TestHolds
  <2>2. state[c] # "Invalid"
    BY <1>2 DEF Loaded, ConnectedWhenMade
  <2> QED BY <1>2, <2>1, <2>2 DEF IInv, TypeOK
<1> HIDE DEF c
<1>4. state'[c] = "Disconnected" /\ \A d \in Conns : d # c => state'[d] = state[d]
  BY <1>1, <1>2 DEF IInv, TypeOK
<1>5. ConnectedWhenMade'
  <2>1. Made' = Made /\ Made \subseteq Conns
    BY <1>1, TCPServerAssumption DEF IInv, TypeOK, Made
  <2> QED BY <1>2, <1>4, <2>1 DEF Loaded, ConnectedWhenMade
<1>6. ASSUME NEW k \in SubLoops, \A d \in raced' : loop'[d] # k
      PROVE  connections'[k] = Cardinality(OpenOn(k)')
  <2>1. connections[k] = Cardinality(OpenOn(k)) /\ IsFiniteSet(OpenOn(k)) /\ Cardinality(OpenOn(k)) \in 0 .. SizeT - 1
    BY <1>1, <1>6, OpenAreFew DEF Loaded, LoadCountsConnections, OpenOn
  <2>2. CASE k = loop[c]
    <3>1. OpenOn(k)' = OpenOn(k) \ {c} /\ c \in OpenOn(k)
      BY <1>1, <1>2, <1>3, <1>4, <1>6, <2>2 DEF OpenOn
    <3>2. connections'[k] = (connections[k] - 1) % SizeT
      BY <1>1, <2>2 DEF IInv, TypeOK
    <3>3. IsFiniteSet(OpenOn(k)') /\ Cardinality(OpenOn(k)') = connections[k] - 1
      BY <2>1, <3>1, FS_RemoveElement
    <3>4. connections[k] - 1 \in 0 .. SizeT - 1
      <4>1. Cardinality(OpenOn(k)') \in Nat
        BY <3>3, FS_CardinalityType
      <4>2. connections[k] \in 0 .. SizeT - 1
        BY <2>1
      <4> QED BY <3>3, <4>1, <4>2, TCPServerAssumption
    <3> QED BY <3>2, <3>3, <3>4, DoesNotWrap
  <2>3. CASE k # loop[c]
    <3>1. OpenOn(k)' = OpenOn(k)
      BY <1>1, <1>2, <1>4, <2>3 DEF OpenOn
    <3>2. connections'[k] = connections[k]
      BY <1>1, <1>2, <2>3 DEF IInv, TypeOK
    <3> QED BY <2>1, <3>1, <3>2
  <2> QED BY <2>2, <2>3
<1> QED BY <1>5, <1>6 DEF Loaded, LoadCountsConnections, OpenOn

\* ThreadPool.cc 30-31, TCP-Connection.cc 220: whoever closes connections, every
\* sub loop's load is the number of its open ones, and does not wrap, unless two
\* threads have closed one of them at once.
THEOREM LoadsAreRight == Spec => []LoadCountsConnections
<1>1. Init => OneCloser /\ Loaded
  <2> SUFFICES ASSUME Init PROVE OneCloser /\ Loaded
    OBVIOUS
  <2>1. OneCloser
    BY InitOneCloser
  <2>2. ConnectedWhenMade
    BY DEF Init, ConnectedWhenMade, Made
  <2>3. \A l \in SubLoops : OpenOn(l) = {} /\ connections[l] = 0
    BY DEF Init, OpenOn
  <2>4. LoadCountsConnections
    BY <2>3, FS_EmptySet DEF LoadCountsConnections, OpenOn
  <2> QED BY <2>1, <2>2, <2>4 DEF Loaded
<1>2. IInv /\ OneCloser /\ Loaded /\ [Next]_vars => Loaded'
  <2> SUFFICES ASSUME IInv, OneCloser, Loaded, [Next]_vars PROVE Loaded'
    OBVIOUS
  <2>1. CASE \E t \in Threads : Disconnect(t)
    BY <2>1, DisconnectKeepsLoaded
  <2>2. CASE \E l \in Loops, f \in Fds : Accept(l, f)
    BY <2>2, AcceptKeepsLoaded
  <2>3. CASE \E t \in Threads : HandleCloseTest(t)
    <3>1. raced \subseteq raced' /\ UNCHANGED <<created, state, loop, connections>>
      BY <2>3 DEF HandleCloseTest, objects, counts
    <3> QED BY <3>1, LoadedUntouched
  <2>4. CASE UNCHANGED <<created, state, loop, connections, raced>>
    BY <2>4, LoadedUntouched
  <2> QED BY <2>1, <2>2, <2>3, <2>4
      DEF Next, ThreadStep, LoopStep, MainStep, PeerStep, ReadSome, ReadEof, ReadAgain, MessageIgnored,
          MessageAnswer, MessageDelegate, SendOk, SendError, Poll, HandleEvent,
          IdleTimeout, RunCloseFunctor, PeerSend, PeerClose, objects, counts, history, vars
<1>3. IInv /\ OneCloser /\ [Next]_vars => OneCloser'
  BY NextKeepsOneCloser
<1>4. Loaded => LoadCountsConnections
  BY DEF Loaded
<1> QED BY <1>1, <1>2, <1>3, <1>4, Invariance, PTL DEF Spec

=============================================================================
