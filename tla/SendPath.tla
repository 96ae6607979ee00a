------------------------------- MODULE SendPath -------------------------------
(***************************************************************************)
(* What a TCPConnection does with its output.  An answer is a message      *)
(* (send), perhaps followed by a file (sendFile).  What the socket does    *)
(* not take at once waits in outBuffer_ and file_list_ for the write       *)
(* callback, which epoll calls edge-triggered while the channel asks for   *)
(* EPOLLOUT.  Everything here runs on the connection's own loop, except    *)
(* the peer, the kernel, and the main loop's thread, which is still inside *)
(* enableConnection when the first events can come.                        *)
(*                                                                         *)
(* Bytes are counted in units.  A unit carries only the part of an answer  *)
(* it belongs to: 2r-1 for the message of answer r, 2r for its file.       *)
(***************************************************************************)
EXTENDS Integers, Sequences, FiniteSets, SequencesExt

CONSTANTS Message,          \* Message[r]: length of the message of answer r
          File,             \* File[r]: length of its file, 0 for none
          Capacity,         \* units the kernel's send buffer holds
          RegistrationRace, \* events are handled before setInEpoll(true)
          Resets            \* the peer may reset the connection

Answers == DOMAIN Message
Parts == 1 .. 2 * Len(Message)

ASSUME SendPathAssumption ==
         /\ Message \in Seq(Nat \ {0}) /\ File \in Seq(Nat)
         /\ Len(File) = Len(Message)
         /\ Capacity \in Nat \ {0}
         /\ RegistrationRace \in BOOLEAN /\ Resets \in BOOLEAN

VARIABLES outBuffer,     \* outBuffer_: a part number for each unit
          file_list,     \* file_list_: [answer, left] for each file
          left_bytes,    \* left_bytes_ of the loop's Workload
          connected,     \* state_ = Connected (Disconnected otherwise)
          openFiles,     \* answers whose file descriptor is open
          listenOut,     \* Channel's listenEvent_ has EPOLLOUT: isWriting()
          inEpoll,       \* Channel's isInEpoll
          pc,            \* where the loop's thread is
          answer,        \* answers begun so far
          kernelOut,     \* kernel: the epoll interest has EPOLLOUT
          outEdge,       \* kernel: EPOLLOUT is to be reported
          noSpace,       \* kernel: SOCK_NOSPACE, a writer found it full
          sendBuf,       \* kernel: units in the socket's send buffer
          broken,        \* kernel: writes fail, the peer has reset
          wire           \* history: units handed to the socket, in order

conn == <<outBuffer, file_list, left_bytes, connected, openFiles>>
channel == <<listenOut, inEpoll>>
kernel == <<kernelOut, outEdge, noSpace, sendBuf, broken, wire>>
vars == <<conn, channel, pc, answer, kernel>>

Space == Capacity - sendBuf
Least(m, n) == IF m < n THEN m ELSE n
Units(part, n) == [i \in 1 .. n |-> part]

\* What is left of the files in a list, in its order.
UnitsIn(list) == FlattenSeq([i \in DOMAIN list |-> Units(2 * list[i].answer, list[i].left)])
LeftInFiles(list) == Len(UnitsIn(list))

TypeOK == /\ outBuffer \in Seq(Parts)
          /\ file_list \in Seq([answer : Answers, left : Nat])
          /\ left_bytes \in Int
          /\ connected \in BOOLEAN
          /\ openFiles \subseteq Answers
          /\ listenOut \in BOOLEAN /\ inEpoll \in BOOLEAN
          /\ pc \in {"idle", "sendFile", "write", "files", "finish"}
          /\ answer \in 0 .. Len(Message)
          /\ kernelOut \in BOOLEAN /\ outEdge \in BOOLEAN /\ noSpace \in BOOLEAN
          /\ sendBuf \in 0 .. Capacity
          /\ broken \in BOOLEAN
          /\ wire \in Seq(Parts)

\* EPOLL_CTL_ADD is done; setInEpoll(true) is not.
Init == /\ outBuffer = <<>>
        /\ file_list = <<>>
        /\ left_bytes = 0
        /\ connected = TRUE
        /\ openFiles = {}
        /\ listenOut = FALSE
        /\ inEpoll = FALSE
        /\ pc = "idle"
        /\ answer = 0
        /\ kernelOut = FALSE
        /\ outEdge = FALSE
        /\ noSpace = FALSE
        /\ sendBuf = 0
        /\ broken = FALSE
        /\ wire = <<>>

-----------------------------------------------------------------------------
(* The kernel, the peer, and the main loop's thread in updateChannel.      *)

\* The peer takes a unit.  A writer that found the buffer full is owed an edge,
\* which is lost when nobody asks for EPOLLOUT.
Drain == /\ sendBuf > 0
         /\ sendBuf' = sendBuf - 1
         /\ noSpace' = FALSE
         /\ outEdge' = (outEdge \/ (noSpace /\ kernelOut))
         /\ UNCHANGED <<kernelOut, broken, wire, conn, channel, pc, answer>>

Reset == /\ Resets /\ ~broken
         /\ broken' = TRUE
         /\ outEdge' = kernelOut
         /\ UNCHANGED <<kernelOut, noSpace, sendBuf, wire, conn, channel, pc, answer>>

MarkInEpoll == /\ ~inEpoll
               /\ inEpoll' = TRUE
               /\ UNCHANGED <<listenOut, conn, pc, answer, kernel>>

\* n units of a part that is `want` long reach the socket's buffer.
Put(part, n, want) == /\ wire' = wire \o Units(part, n)
                      /\ sendBuf' = sendBuf + n
                      /\ noSpace' = (noSpace \/ n < want)

\* Poller::updateChannel after listenEvent_ has changed to `out`: without the
\* isInEpoll mark it tries EPOLL_CTL_ADD, which fails (EEXIST) and changes
\* nothing.  EPOLL_CTL_MOD looks at the socket at once: writable is an edge,
\* full asks to be woken.
Interest(out, used) ==
    /\ listenOut' = out
    /\ IF inEpoll
         THEN /\ kernelOut' = out
              /\ outEdge' = (out /\ used < Capacity)
         ELSE UNCHANGED <<kernelOut, outEdge>>
    /\ UNCHANGED inEpoll

-----------------------------------------------------------------------------
(* Plausible bugs, each of which breaks a property at the end.  Next uses    *)
(* none of them.                                                             *)

\* The files that waited stay in the loop's load.
HandleCloseKeepsLoad == IF connected
                          THEN /\ connected' = FALSE
                               /\ openFiles' = openFiles \ {file_list[i].answer : i \in DOMAIN file_list}
                               /\ UNCHANGED left_bytes
                          ELSE UNCHANGED <<connected, left_bytes, openFiles>>

\* send never looks whether something waits.
WaitingIgnored == FALSE

\* The rest waits in outBuffer_, and nobody asks for EPOLLOUT.
SendNoInterest(r) ==
    LET n == IF listenOut \/ outBuffer # <<>> THEN 0 ELSE Least(Message[r], Space)
    IN /\ outBuffer' = outBuffer \o Units(2 * r - 1, Message[r] - n)
       /\ Put(2 * r - 1, n, IF listenOut \/ outBuffer # <<>> THEN 0 ELSE Message[r])
       /\ UNCHANGED <<kernelOut, outEdge, channel, file_list, left_bytes, connected, broken>>

\* append(msg, len): what the socket took is not skipped.
SendAppendsAll(r) ==
    LET direct == ~(listenOut \/ outBuffer # <<>>)
        n      == IF direct THEN Least(Message[r], Space) ELSE 0
    IN /\ outBuffer' = outBuffer \o Units(2 * r - 1, IF n = Message[r] THEN 0 ELSE Message[r])
       /\ Put(2 * r - 1, n, IF direct THEN Message[r] ELSE 0)
       /\ IF n < Message[r] /\ ~listenOut
            THEN Interest(TRUE, sendBuf + n)
            ELSE UNCHANGED <<kernelOut, outEdge, channel>>
       /\ UNCHANGED <<file_list, left_bytes, connected, broken>>

\* sendfile has moved the offset, and sent__ is moved a second time.
FileProgressOvershoots ==
    LET file == Head(file_list)
        n    == Least(file.left, Space)
    IN /\ pc = "files" /\ file_list # <<>>
       /\ ~broken /\ file.answer \in openFiles
       /\ Space > 0
       /\ Put(2 * file.answer, n, file.left)
       /\ left_bytes' = left_bytes - n
       /\ IF n = file.left
            THEN /\ openFiles' = openFiles \ {file.answer}
                 /\ file_list' = Tail(file_list)
            ELSE /\ file_list' = [file_list EXCEPT ![1].left = @ - 2 * n]
                 /\ UNCHANGED openFiles
       /\ UNCHANGED <<outBuffer, connected, pc, answer, channel, kernelOut, outEdge, broken>>

\* disableWriting as soon as outBuffer_ is empty.
FinishWriteNoFiles == /\ pc = "finish" \/ (pc = "files" /\ file_list = <<>>)
                      /\ pc' = "idle"
                      /\ IF outBuffer = <<>>
                           THEN Interest(FALSE, sendBuf)
                           ELSE UNCHANGED <<kernelOut, outEdge, channel>>
                      /\ UNCHANGED <<conn, answer, noSpace, sendBuf, broken, wire>>

\* handleClose: the waiting files are closed and uncounted; file_list_ stays.
HandleClose == IF connected
                 THEN /\ connected' = FALSE
                      /\ left_bytes' = left_bytes - LeftInFiles(file_list)
                      /\ openFiles' = openFiles \ {file_list[i].answer : i \in DOMAIN file_list}
                 ELSE UNCHANGED <<connected, left_bytes, openFiles>>

-----------------------------------------------------------------------------
(* Answering a request: send, then sendFile if there is a file.            *)

EventsHandled == inEpoll \/ RegistrationRace

\* isWriting() or something in outBuffer_: a write now would overtake it.
Waiting == listenOut \/ outBuffer # <<>>

\* send: written at once if nothing waits, the rest into outBuffer_.
Send(r) ==
    LET part == 2 * r - 1
        size == Message[r]
        n    == IF Waiting THEN 0 ELSE Least(size, Space)
    IN /\ outBuffer' = outBuffer \o Units(part, size - n)
       /\ IF Waiting THEN UNCHANGED <<wire, sendBuf, noSpace>> ELSE Put(part, n, size)
       /\ IF n < size /\ ~listenOut
            THEN Interest(TRUE, sendBuf + n)
            ELSE UNCHANGED <<kernelOut, outEdge, channel>>
       /\ UNCHANGED <<file_list, left_bytes, connected, broken>>

BeginAnswer == LET r == answer + 1 IN
               /\ pc = "idle" /\ connected /\ EventsHandled
               /\ r \in Answers
               /\ answer' = r
               /\ pc' = IF File[r] > 0 THEN "sendFile" ELSE "idle"

\* A big file was opened by the handler before the answer is sent.
Opened(r) == openFiles \cup IF File[r] > 0 THEN {r} ELSE {}

Answer == /\ BeginAnswer
          /\ ~broken \/ Waiting
          /\ Send(answer')
          /\ openFiles' = Opened(answer')

\* write fails: handleClose; the caller goes on to sendFile all the same.
AnswerFails == /\ BeginAnswer
               /\ broken /\ ~Waiting
               /\ connected' = FALSE
               /\ left_bytes' = left_bytes - LeftInFiles(file_list)
               /\ openFiles' = Opened(answer') \ {file_list[i].answer : i \in DOMAIN file_list}
               /\ UNCHANGED <<outBuffer, file_list, channel, kernel>>

\* sendFile: one sendfile at once if nothing waits, the rest into file_list_.
SendFile ==
    LET r     == answer
        part  == 2 * r
        atOnce == ~listenOut /\ file_list = <<>>
        n     == IF atOnce THEN Least(File[r], Space) ELSE 0
    IN /\ pc = "sendFile"
       /\ ~(atOnce /\ broken)
       /\ pc' = "idle"
       /\ left_bytes' = left_bytes + File[r] - n
       /\ IF n < File[r]
            THEN /\ file_list' = Append(file_list, [answer |-> r, left |-> File[r] - n])
                 /\ Interest(TRUE, sendBuf + n)
                 /\ UNCHANGED openFiles
            ELSE /\ openFiles' = openFiles \ {r}
                 /\ UNCHANGED <<file_list, kernelOut, outEdge, channel>>
       /\ IF atOnce
            THEN Put(part, n, File[r])
            ELSE noSpace' = (noSpace \/ Space = 0) /\ UNCHANGED <<wire, sendBuf>>
       /\ UNCHANGED <<outBuffer, connected, answer, broken>>

\* sendfile fails: handleClose and return, file_fd is in no list.
SendFileFails == /\ pc = "sendFile"
                 /\ ~listenOut /\ file_list = <<>> /\ broken
                 /\ pc' = "idle"
                 /\ HandleClose
                 /\ UNCHANGED <<outBuffer, file_list, answer, channel, kernel>>

\* The last answer ("Connection: close", or a request that is not HTTP), or the
\* peer has closed: handleClose, whatever still waits.
Close == /\ pc = "idle" /\ connected /\ EventsHandled
         /\ HandleClose
         /\ UNCHANGED <<outBuffer, file_list, channel, pc, answer, kernel>>

-----------------------------------------------------------------------------
(* The write callback.                                                     *)

BeginWrite == /\ pc = "idle" /\ EventsHandled
              /\ outEdge' = FALSE
              /\ pc' = IF connected THEN "write" ELSE "idle"
              /\ UNCHANGED <<conn, channel, answer, kernelOut, noSpace, sendBuf, broken, wire>>

\* The edge of the socket's buffer.
WriteEvent == outEdge /\ BeginWrite

\* Reported along with another event of the channel.
WriteWithOther == kernelOut /\ ~outEdge /\ (Space > 0 \/ broken) /\ BeginWrite

\* writeNonBlocking: one write of all of outBuffer_.
WriteBuffer ==
    LET n == Least(Len(outBuffer), Space) IN
    /\ pc = "write"
    /\ ~broken
    /\ wire' = wire \o SubSeq(outBuffer, 1, n)
    /\ outBuffer' = SubSeq(outBuffer, n + 1, Len(outBuffer))
    /\ sendBuf' = sendBuf + n
    /\ noSpace' = (noSpace \/ n < Len(outBuffer))
    /\ pc' = "files"
    /\ UNCHANGED <<file_list, left_bytes, connected, openFiles, channel, answer, kernelOut, outEdge, broken>>

\* write fails: handleClose, and the callback goes on.
WriteBufferFails == /\ pc = "write"
                    /\ broken
                    /\ HandleClose
                    /\ pc' = "files"
                    /\ UNCHANGED <<outBuffer, file_list, channel, answer, kernel>>

\* One turn of the sendfile loop.
FileProgress ==
    LET file == Head(file_list)
        n    == Least(file.left, Space)
    IN /\ pc = "files" /\ file_list # <<>>
       /\ ~broken /\ file.answer \in openFiles
       /\ Space > 0
       /\ Put(2 * file.answer, n, file.left)
       /\ left_bytes' = left_bytes - n
       /\ IF n = file.left
            THEN /\ openFiles' = openFiles \ {file.answer}
                 /\ file_list' = Tail(file_list)
            ELSE /\ file_list' = [file_list EXCEPT ![1].left = @ - n]
                 /\ UNCHANGED openFiles
       /\ UNCHANGED <<outBuffer, connected, pc, answer, channel, kernelOut, outEdge, broken>>

\* EAGAIN: out of the loop.
FileBlocked == /\ pc = "files" /\ file_list # <<>>
               /\ ~broken /\ Head(file_list).answer \in openFiles
               /\ Space = 0
               /\ noSpace' = TRUE
               /\ pc' = "finish"
               /\ UNCHANGED <<conn, channel, answer, kernelOut, outEdge, sendBuf, broken, wire>>

\* sendfile fails: handleClose and return.
FileFails == /\ pc = "files" /\ file_list # <<>>
             /\ broken \/ Head(file_list).answer \notin openFiles
             /\ HandleClose
             /\ pc' = "idle"
             /\ UNCHANGED <<outBuffer, file_list, channel, answer, kernel>>

\* Nothing waits any more: disableWriting.
FinishWrite == /\ pc = "finish" \/ (pc = "files" /\ file_list = <<>>)
               /\ pc' = "idle"
               /\ IF outBuffer = <<>> /\ file_list = <<>>
                    THEN Interest(FALSE, sendBuf)
                    ELSE UNCHANGED <<kernelOut, outEdge, channel>>
               /\ UNCHANGED <<conn, answer, noSpace, sendBuf, broken, wire>>

-----------------------------------------------------------------------------
WriteStep == \/ WriteEvent \/ WriteBuffer \/ WriteBufferFails
             \/ FileProgress \/ FileBlocked \/ FileFails \/ FinishWrite
             \/ SendFile \/ SendFileFails

Next == \/ Drain \/ Reset \/ MarkInEpoll
        \/ Answer \/ AnswerFails \/ Close
        \/ WriteWithOther
        \/ WriteStep

Spec == Init /\ [][Next]_vars

\* The peer keeps reading, epoll reports edges, callbacks go on.
Fairness == WF_vars(Drain) /\ WF_vars(MarkInEpoll) /\ WF_vars(WriteStep)

FairSpec == Spec /\ Fairness

-----------------------------------------------------------------------------
Occurrences(part, units) == Cardinality({i \in DOMAIN units : units[i] = part})
OnWire(part) == Occurrences(part, wire)
InMemory(part) == Occurrences(part, outBuffer) + Occurrences(part, UnitsIn(file_list))

SizeOf(part) == IF part % 2 = 1 THEN Message[(part + 1) \div 2] ELSE File[part \div 2]

Submitted(part) == part <= 2 * answer /\ ~(part = 2 * answer /\ pc = "sendFile")

\* TCP-Connection.cc 160-210: output that waits has the epoll interest that will
\* get it written, and an edge that is there or owed; else it waits forever.
OutputHasInterest ==
    connected /\ pc = "idle" /\ (outBuffer # <<>> \/ file_list # <<>>)
      => kernelOut /\ (outEdge \/ noSpace)

\* TCP-Connection.cc 95-136, 160-210: nothing of an answer is lost or sent
\* twice, however the socket splits it.
NothingLost ==
    connected => \A p \in Parts :
        OnWire(p) + InMemory(p) = IF Submitted(p) THEN SizeOf(p) ELSE 0

\* TCP-Connection.cc 130, 209, 223: the load of a loop counts the bytes of files
\* that wait in it, and none of a connection that is closed.
LeftBytesMatch == left_bytes = IF connected THEN LeftInFiles(file_list) ELSE 0

\* Messages among themselves, and files among themselves, in the order of the answers.
InOrder(s) == \A i, j \in DOMAIN s : i < j /\ s[i] % 2 = s[j] % 2 => s[i] <= s[j]

\* TCP-Connection.cc 95-136, 160-210: messages reach the socket in the order of
\* the answers, and so do files: what has been written, then what waits for it.
MessagesAndFilesInOrder == InOrder(wire \o outBuffer) /\ InOrder(wire \o UnitsIn(file_list))

\* TCP-Connection.cc 95-136, EPOLLET: while the peer reads, all of every answer
\* is sent, unless the connection is closed.
EverythingSent ==
    \A p \in Parts : Submitted(p) ~> (OnWire(p) = SizeOf(p) \/ ~connected)
=============================================================================
