--------------------------- MODULE SendPathProofs ---------------------------
(***************************************************************************)
(* Output that waits is always going to be written, messages and files     *)
(* keep their order, no unit of them is lost or doubled, and the loop's    *)
(* load is what the files still have to send: for any number of answers,   *)
(* of any lengths, and any size of the socket's buffer.                    *)
(***************************************************************************)
EXTENDS SendPath, SequenceLemmas, FiniteSetTheorems

Waits == [answer : Answers, left : Nat]

\* The types of all but the load and the open files.
Queues == /\ outBuffer \in Seq(Parts)
          /\ file_list \in Seq(Waits)
          /\ wire \in Seq(Parts)
Flags == /\ connected \in BOOLEAN
         /\ listenOut \in BOOLEAN /\ inEpoll \in BOOLEAN
         /\ pc \in {"idle", "sendFile", "write", "files", "finish"}
         /\ kernelOut \in BOOLEAN /\ outEdge \in BOOLEAN /\ noSpace \in BOOLEAN
Counts == /\ answer \in 0 .. Len(Message) /\ (pc = "sendFile" => answer # 0)
          /\ sendBuf \in 0 .. Capacity
Types == Queues /\ Flags /\ Counts

LEMMA Lengths == Len(Message) \in Nat /\ Answers = 1 .. Len(Message) /\ Capacity \in Nat \ {0}
BY SendPathAssumption DEF Answers

LEMMA LengthsAreNat ==
  \A r \in Answers : 
     Message[r] \in Nat \ {0} /\ File[r] \in Nat /\ 2 * r - 1 \in Parts /\ 2 * r \in Parts
<1>1. Len(Message) \in Nat /\ Answers = 1 .. Len(Message) /\ DOMAIN File = 1 .. Len(Message)
  BY SendPathAssumption DEF Answers
<1>2. \A r \in Answers : Message[r] \in Nat \ {0} /\ File[r] \in Nat
  BY <1>1, SendPathAssumption
<1> QED BY <1>1, <1>2, SendPathAssumption DEF Parts

LEMMA LeastIsLeast ==
  ASSUME NEW m \in Nat, NEW n \in Nat
  PROVE  Least(m, n) \in Nat /\ Least(m, n) <= m /\ Least(m, n) <= n /\ (Least(m, n) = m \/ Least(m, n) = n)
BY DEF Least

LEMMA UnitsAreParts ==
  ASSUME NEW part \in Parts, NEW n \in Nat
  PROVE  Units(part, n) \in Seq(Parts) /\ Len(Units(part, n)) = n /\ \A i \in 1 .. n : Units(part, n)[i] = part
BY DEF Units

LEMMA SpaceType == Types => Space \in Nat
BY Lengths DEF Types, Counts, Space

\* send: what reaches the socket and what waits are units of the message.
LEMMA TypesAnswer == Types /\ Answer => Types'
<1> SUFFICES ASSUME Types, Answer PROVE Types'
  OBVIOUS
<1> DEFINE r == answer + 1
           n == IF Waiting THEN 0 ELSE Least(Message[r], Space)
<1>1. r \in Answers /\ answer' = r /\ Send(r) /\ pc' \in {"idle", "sendFile"}
  BY DEF Answer, BeginAnswer
<1>2. Message[r] \in Nat \ {0} /\ 2 * r - 1 \in Parts
  BY <1>1, LengthsAreNat
<1>3. n \in Nat /\ n <= Message[r] /\ (~Waiting => n <= Space)
  <2>1. Message[r] \in Nat /\ Space \in Nat
    BY <1>2, SpaceType
  <2>2. Least(Message[r], Space) \in Nat /\ Least(Message[r], Space) <= Message[r] /\ Least(Message[r], Space) <= Space
    BY <2>1, LeastIsLeast
  <2> QED BY <2>1, <2>2
<1>4. /\ outBuffer' = outBuffer \o Units(2 * r - 1, Message[r] - n)
      /\ UNCHANGED <<file_list, connected>>
      /\ Waiting => UNCHANGED <<wire, sendBuf, noSpace>>
      /\ ~Waiting => wire' = wire \o Units(2 * r - 1, n) /\ sendBuf' = sendBuf + n /\ noSpace' \in BOOLEAN
      /\ listenOut' \in BOOLEAN /\ inEpoll' = inEpoll /\ kernelOut' \in BOOLEAN /\ outEdge' \in BOOLEAN
  BY <1>1 DEF Send, Put, Interest, Types, Flags, channel
<1>5. Units(2 * r - 1, Message[r] - n) \in Seq(Parts) /\ Units(2 * r - 1, n) \in Seq(Parts)
  <2>1. Message[r] - n \in Nat
    BY <1>2, <1>3
  <2> QED BY <1>2, <1>3, <2>1, UnitsAreParts
<1>6. Queues'
  <2>1. outBuffer \in Seq(Parts) /\ wire \in Seq(Parts) /\ file_list \in Seq(Waits)
    BY DEF Types, Queues
  <2>2. outBuffer' \in Seq(Parts)
    BY <1>4, <1>5, <2>1
  <2>3. wire' = wire \/ wire' = wire \o Units(2 * r - 1, n)
    BY <1>4
  <2> HIDE DEF n
  <2>4. wire' \in Seq(Parts)
    BY <1>5, <2>1, <2>3, Joined
  <2> QED BY <1>4, <2>1, <2>2, <2>4 DEF Queues
<1>7. Flags'
  BY <1>1, <1>4 DEF Types, Flags
<1>8. answer' \in 0 .. Len(Message) /\ answer' # 0
  BY <1>1, Lengths
<1>9. sendBuf' \in 0 .. Capacity
  BY <1>3, <1>4, Lengths DEF Types, Counts, Space
<1> QED BY <1>6, <1>7, <1>8, <1>9 DEF Types, Counts

LEMMA TypesSendFile == Types /\ SendFile => Types'
<1> SUFFICES ASSUME Types, SendFile PROVE Types'
  OBVIOUS
<1> DEFINE r == answer
           atOnce == ~listenOut /\ file_list = <<>>
           n == IF atOnce THEN Least(File[r], Space) ELSE 0
<1>1. r \in Answers
  BY Lengths DEF SendFile, Types, Counts
<1>2. File[r] \in Nat /\ 2 * r \in Parts
  BY <1>1, LengthsAreNat
<1>3. n \in Nat /\ n <= File[r] /\ (atOnce => n <= Space)
  <2>1. Space \in Nat
    BY SpaceType
  <2>2. Least(File[r], Space) \in Nat /\ Least(File[r], Space) <= File[r] /\ Least(File[r], Space) <= Space
    BY <1>2, <2>1, LeastIsLeast
  <2> QED BY <1>2, <2>1, <2>2
<1>4. /\ \/ file_list' = Append(file_list, [answer |-> r, left |-> File[r] - n])
         \/ UNCHANGED file_list
      /\ atOnce => wire' = wire \o Units(2 * r, n) /\ sendBuf' = sendBuf + n
      /\ ~atOnce => UNCHANGED <<wire, sendBuf>>
      /\ UNCHANGED <<outBuffer, connected, answer>> /\ pc' = "idle"
  BY DEF SendFile, Put
<1>5. /\ noSpace' \in BOOLEAN
      /\ listenOut' \in BOOLEAN /\ inEpoll' = inEpoll /\ kernelOut' \in BOOLEAN /\ outEdge' \in BOOLEAN
  BY DEF SendFile, Put, Interest, Types, Flags, channel
<1>6. [answer |-> r, left |-> File[r] - n] \in Waits /\ Units(2 * r, n) \in Seq(Parts)
  BY <1>1, <1>2, <1>3, UnitsAreParts DEF Waits
<1>7. Queues'
  <2>1. outBuffer \in Seq(Parts) /\ wire \in Seq(Parts) /\ file_list \in Seq(Waits)
    BY DEF Types, Queues
  <2>2. wire' = wire \/ wire' = wire \o Units(2 * r, n)
    BY <1>4
  <2> HIDE DEF n
  <2>3. wire' \in Seq(Parts)
    BY <1>6, <2>1, <2>2, Joined
  <2>4. \A w \in Waits : Append(file_list, w) \in Seq(Waits)
    BY <2>1
  <2> HIDE DEF r
  <2>5. file_list' \in Seq(Waits)
    BY <1>4, <1>6, <2>1, <2>4
  <2> QED BY <1>4, <2>1, <2>3, <2>5 DEF Queues
<1>8. Flags'
  BY <1>4, <1>5 DEF Types, Flags
<1>9. Counts'
  BY <1>3, <1>4, Lengths DEF Types, Counts, Space
<1> QED BY <1>7, <1>8, <1>9 DEF Types

LEMMA TypesWriteBuffer == Types /\ WriteBuffer => Types'
<1> SUFFICES ASSUME Types, WriteBuffer PROVE Types'
  OBVIOUS
<1> DEFINE n == Least(Len(outBuffer), Space)
<1>1. n \in Nat /\ n <= Len(outBuffer) /\ n <= Space
  BY LeastIsLeast, SpaceType DEF Types, Queues
<1>2. Queues'
  BY <1>1, Rest DEF WriteBuffer, Types, Queues
<1>3. Flags'
  BY DEF WriteBuffer, Types, Flags, channel
<1>4. Counts'
  BY <1>1, Lengths, SMTT(30) DEF WriteBuffer, Types, Counts, Space
<1> QED BY <1>2, <1>3, <1>4 DEF Types

\* One turn of the sendfile loop: the first file of the list, or what is left of it.
LEMMA ProgressEffect ==
  ASSUME Types, FileProgress
  PROVE  LET file == Head(file_list)
             n    == Least(file.left, Space)
         IN /\ file \in Waits /\ file = file_list[1] /\ 1 \in DOMAIN file_list
            /\ n \in Nat /\ n <= file.left /\ n <= Space /\ 2 * file.answer \in Parts
            /\ wire' = wire \o Units(2 * file.answer, n) /\ wire' \in Seq(Parts)
            /\ sendBuf' = sendBuf + n
            /\ file_list' \in Seq(Waits)
            /\ \/ file_list' = Tail(file_list)
               \/ /\ Len(file_list') = Len(file_list)
                  /\ \A i \in DOMAIN file_list : file_list'[i].answer = file_list[i].answer
<1> DEFINE file == Head(file_list)
           n == Least(file.left, Space)
<1>1. file_list # <<>> /\ file_list \in Seq(Waits)
  BY DEF FileProgress, Types, Queues
<1>2. file \in Waits /\ file = file_list[1] /\ 1 \in DOMAIN file_list
  BY <1>1
<1>3. file.left \in Nat /\ file.answer \in Answers
  BY <1>2 DEF Waits
<1>4. n \in Nat /\ n <= file.left /\ n <= Space /\ 2 * file.answer \in Parts
  BY <1>3, LeastIsLeast, SpaceType, LengthsAreNat
<1>5. /\ wire' = wire \o Units(2 * file.answer, n) /\ sendBuf' = sendBuf + n
      /\ \/ file_list' = Tail(file_list)
         \/ file_list' = [file_list EXCEPT ![1].left = file.left - n]
  BY <1>2 DEF FileProgress, Put
<1>6. wire' \in Seq(Parts)
  BY <1>4, <1>5, UnitsAreParts DEF Types, Queues
<1>7. CASE file_list' = Tail(file_list)
  BY <1>1, <1>2, <1>4, <1>5, <1>6, <1>7
<1>8. CASE file_list' = [file_list EXCEPT ![1].left = file.left - n]
  <2>1. file.left - n \in Nat
    BY <1>3, <1>4
  <2>2. [file EXCEPT !.left = file.left - n] \in Waits
    BY <1>2, <2>1 DEF Waits
  <2>3. file_list' = [file_list EXCEPT ![1] = [file EXCEPT !.left = file.left - n]]
    BY <1>2, <1>8
  <2>4. file_list' \in Seq(Waits) /\ Len(file_list') = Len(file_list)
    BY <1>1, <1>2, <2>2, <2>3
  <2>5. \A i \in DOMAIN file_list : file_list'[i].answer = file_list[i].answer
    <3>1. file_list'[1].answer = file.answer
      BY <1>2, <2>3 DEF Waits
    <3>2. \A i \in DOMAIN file_list : i # 1 => file_list'[i] = file_list[i]
      BY <1>1, <2>3
    <3> QED BY <1>2, <3>1, <3>2
  <2> QED BY <1>2, <1>4, <1>5, <1>6, <2>4, <2>5
<1> QED BY <1>5, <1>7, <1>8

LEMMA TypesProgress == Types /\ FileProgress => Types'
<1> SUFFICES ASSUME Types, FileProgress PROVE Types'
  OBVIOUS
<1>1. UNCHANGED <<outBuffer, connected, pc, answer, listenOut, inEpoll, kernelOut, outEdge>>
  BY DEF FileProgress, channel
<1>2. Queues'
  BY <1>1, ProgressEffect DEF Types, Queues
<1>3. Flags'
  BY <1>1 DEF FileProgress, Put, Types, Flags
<1>4. Counts'
  BY <1>1, ProgressEffect, Lengths DEF Types, Counts, Space
<1> QED BY <1>2, <1>3, <1>4 DEF Types

\* All steps but the four above write no units.
Quiet == \/ Drain \/ Reset \/ MarkInEpoll \/ AnswerFails \/ Close
         \/ WriteWithOther \/ WriteEvent \/ WriteBufferFails \/ FileBlocked \/ FileFails
         \/ FinishWrite \/ SendFileFails
         \/ UNCHANGED vars

LEMMA TypesQuiet == Types /\ Quiet => Types' /\ UNCHANGED <<outBuffer, file_list, wire>>
<1> SUFFICES ASSUME Types, Quiet PROVE Types' /\ UNCHANGED <<outBuffer, file_list, wire>>
  OBVIOUS
<1> USE DEF Quiet, conn, channel, kernel, vars
<1> USE DEF Drain, Reset, MarkInEpoll, AnswerFails, BeginAnswer, Close, WriteWithOther, WriteEvent, BeginWrite,
            WriteBufferFails, FileFails, SendFileFails, HandleClose, FileBlocked, FinishWrite, Interest
<1>1. UNCHANGED <<outBuffer, file_list, wire>>
  OBVIOUS
<1>2. Queues'
  BY <1>1 DEF Types, Queues
<1>3. Flags'
  BY ZenonT(30) DEF Types, Flags
<1>4. sendBuf' \in 0 .. Capacity
  BY Lengths DEF Types, Counts
<1>5. answer' \in 0 .. Len(Message) /\ (pc' = "sendFile" => answer' # 0)
  BY Lengths DEF Types, Counts
<1> QED BY <1>1, <1>2, <1>3, <1>4, <1>5 DEF Types, Counts

LEMMA StepCases == [Next]_vars => Answer \/ SendFile \/ WriteBuffer \/ FileProgress \/ Quiet
BY DEF Next, WriteStep, Quiet

LEMMA TypesInit == Init => Types
<1> SUFFICES ASSUME Init PROVE Types
  OBVIOUS
<1>1. Queues
  BY DEF Init, Queues
<1>2. Flags
  BY DEF Init, Flags
<1>3. Counts
  BY Lengths DEF Init, Counts
<1> QED BY <1>1, <1>2, <1>3 DEF Types

LEMMA TypesNext == Types /\ [Next]_vars => Types'
BY StepCases, TypesAnswer, TypesSendFile, TypesWriteBuffer, TypesProgress, TypesQuiet

-----------------------------------------------------------------------------
(* Output that waits.                                                        *)

Empty == outBuffer = <<>> /\ file_list = <<>>

\* Until the channel is marked as registered nothing is answered.
Registered == \/ inEpoll
              \/ /\ answer = 0 /\ Empty /\ pc = "idle"
                 /\ ~listenOut /\ ~kernelOut /\ ~outEdge

\* The kernel's interest is the channel's, and only an interest has edges.
Agreed == /\ inEpoll => kernelOut = listenOut
          /\ outEdge => kernelOut

\* The write callback runs with the interest, and gives it up only at its end.
Interested == connected /\ pc \in {"write", "files", "finish"} => kernelOut

Awaited == kernelOut /\ (outEdge \/ noSpace)

\* What waits between callbacks, and what a callback leaves, is awaited.
Woken == connected =>
           /\ pc \in {"idle", "sendFile"} /\ (listenOut \/ ~Empty) => Awaited
           /\ pc = "files" /\ outBuffer # <<>> => Awaited
           /\ pc = "finish" => Awaited

Waking == Types /\ Registered /\ Agreed /\ Interested /\ Woken

LEMMA WakingAnswer == ~RegistrationRace /\ Waking /\ Answer => Waking'
<1> SUFFICES ASSUME ~RegistrationRace, Waking, Answer PROVE Waking'
  OBVIOUS
<1> DEFINE r == answer + 1
           n == IF Waiting THEN 0 ELSE Least(Message[r], Space)
<1>1. Types /\ Types'
  BY TypesAnswer DEF Waking
<1>2. /\ inEpoll /\ inEpoll' /\ connected /\ connected' /\ pc = "idle" /\ pc' \in {"idle", "sendFile"}
      /\ UNCHANGED file_list /\ r \in Answers /\ Send(r)
  BY DEF Answer, BeginAnswer, EventsHandled, Send, Interest, channel
<1>3. ~Waiting => Message[r] \in Nat /\ Space \in Nat /\ n = Least(Message[r], Space)
  BY <1>1, <1>2, LengthsAreNat, SpaceType
<1>4. ~Waiting => n = Message[r] \/ (n < Message[r] /\ n = Space)
  BY <1>3 DEF Least
<1>5. Woken /\ Agreed
  BY DEF Waking
<1>6. CASE Waiting
  <2>1. Awaited /\ listenOut
    BY <1>2, <1>5, <1>6 DEF Woken, Waiting, Empty, Agreed, Awaited
  <2>2. UNCHANGED <<noSpace, kernelOut, outEdge, listenOut, inEpoll>>
    BY <1>2, <1>6, <2>1 DEF Send, channel
  <2> QED BY <1>1, <1>2, <1>5, <2>1, <2>2 DEF Waking, Registered, Agreed, Interested, Woken, Awaited
<1>7. CASE ~Waiting /\ n = Message[r]
  <2>1. outBuffer' = <<>>
    <3>1. outBuffer = <<>> /\ outBuffer' = outBuffer \o Units(2 * r - 1, Message[r] - n)
      BY <1>2, <1>7 DEF Send, Waiting
    <3>2. Len(Units(2 * r - 1, 0)) = 0 /\ Units(2 * r - 1, 0) \in Seq(Parts)
      BY <1>2, LengthsAreNat, UnitsAreParts
    <3>3. Message[r] - n = 0
      BY <1>3, <1>7
    <3>4. Units(2 * r - 1, 0) = <<>>
      BY <3>2
    <3> QED BY <3>1, <3>3, <3>4
  <2>2. UNCHANGED <<kernelOut, outEdge, listenOut, inEpoll>> /\ (noSpace => noSpace')
    <3>1. n = Message[r] /\ ~(n < Message[r])
      BY <1>3, <1>7
    <3> QED BY <1>2, <1>7, <3>1 DEF Send, Put, channel, Types, Flags
  <2>3. outBuffer = <<>> /\ ~listenOut
    BY <1>7 DEF Waiting
  <2> QED BY <1>1, <1>2, <1>5, <2>1, <2>2, <2>3 DEF Waking, Registered, Agreed, Interested, Woken, Awaited, Empty
<1>8. CASE ~Waiting /\ n < Message[r] /\ n = Space
  <2>1. Interest(TRUE, sendBuf + n) /\ noSpace'
    BY <1>2, <1>8 DEF Send, Put, Waiting
  <2>2. kernelOut' /\ listenOut'
    BY <1>2, <2>1 DEF Interest
  <2> QED BY <1>1, <1>2, <2>1, <2>2 DEF Waking, Registered, Agreed, Interested, Woken, Awaited
<1> QED BY <1>4, <1>6, <1>7, <1>8

LEMMA WakingSendFile == Waking /\ SendFile => Waking'
<1> SUFFICES ASSUME Waking, SendFile PROVE Waking'
  OBVIOUS
<1> DEFINE atOnce == ~listenOut /\ file_list = <<>>
           n == IF atOnce THEN Least(File[answer], Space) ELSE 0
<1>1. Types /\ Types' /\ Woken /\ Agreed
  BY TypesSendFile DEF Waking
<1>2. pc = "sendFile" /\ pc' = "idle" /\ inEpoll /\ inEpoll' /\ UNCHANGED <<connected, outBuffer>>
  BY DEF SendFile, Waking, Registered, Interest, channel
<1>3. File[answer] \in Nat /\ Space \in Nat
  <2>1. answer \in Answers
    BY <1>1, <1>2, Lengths DEF Types, Counts
  <2> QED BY <1>1, <2>1, LengthsAreNat, SpaceType
<1>4. CASE n < File[answer]
  <2>1. Interest(TRUE, sendBuf + n)
    BY <1>4 DEF SendFile
  <2>2. kernelOut' /\ listenOut' /\ outEdge' = (sendBuf + n < Capacity)
    BY <1>2, <2>1 DEF Interest
  <2>3. outEdge' \/ noSpace'
    <3>1. CASE atOnce
      <4>1. n < File[answer] /\ Put(2 * answer, n, File[answer])
        BY <1>4, <3>1 DEF SendFile
      <4> QED BY <4>1 DEF Put
    <3>2. CASE ~atOnce
      <4>1. noSpace' = (noSpace \/ Space = 0) /\ n = 0
        BY <3>2 DEF SendFile
      <4>2. sendBuf \in Int /\ Capacity \in Int /\ Space = Capacity - sendBuf /\ Space >= 0
        BY <1>1, <1>3, Lengths DEF Types, Counts, Space
      <4>3. sendBuf + n < Capacity \/ Space = 0
        BY <4>1, <4>2
      <4> QED BY <2>2, <4>1, <4>3
    <3> QED BY <3>1, <3>2
  <2> QED BY <1>1, <1>2, <2>2, <2>3 DEF Waking, Registered, Agreed, Interested, Woken, Awaited
<1>5. CASE ~(n < File[answer])
  <2>1. UNCHANGED <<file_list, kernelOut, outEdge, listenOut>>
    BY <1>5 DEF SendFile, channel
  <2>2. noSpace => noSpace'
    BY <1>1 DEF SendFile, Put, Types, Flags
  <2> QED BY <1>1, <1>2, <2>1, <2>2 DEF Waking, Registered, Agreed, Interested, Woken, Awaited, Empty
<1> QED BY <1>4, <1>5

LEMMA WakingWriteBuffer == Waking /\ WriteBuffer => Waking'
<1> SUFFICES ASSUME Waking, WriteBuffer PROVE Waking'
  OBVIOUS
<1>1. Types /\ Types' /\ Agreed /\ Interested
  BY TypesWriteBuffer DEF Waking
<1>2. /\ pc = "write" /\ pc' = "files" /\ inEpoll /\ inEpoll'
      /\ UNCHANGED <<connected, kernelOut, outEdge, listenOut>>
  BY DEF WriteBuffer, Waking, Registered, channel
<1>3. outBuffer' # <<>> => noSpace'
  <2> DEFINE n == Least(Len(outBuffer), Space)
  <2>1. Len(outBuffer) \in Nat /\ Space \in Nat /\ n \in Nat /\ n <= Len(outBuffer)
    BY <1>1, SpaceType, LeastIsLeast DEF Types, Queues
  <2>2. outBuffer' = SubSeq(outBuffer, n + 1, Len(outBuffer)) /\ (n < Len(outBuffer) => noSpace')
    BY DEF WriteBuffer
  <2> HIDE DEF n
  <2>3. n = Len(outBuffer) => outBuffer' = <<>>
    BY <1>1, <2>1, <2>2 DEF Types, Queues
  <2> QED BY <2>1, <2>2, <2>3
<1> QED BY <1>1, <1>2, <1>3 DEF Waking, Registered, Agreed, Interested, Woken, Awaited

LEMMA WakingProgress == Waking /\ FileProgress => Waking'
<1> SUFFICES ASSUME Waking, FileProgress PROVE Waking'
  OBVIOUS
<1>1. Types /\ Types' /\ Agreed /\ Interested /\ Woken
  BY TypesProgress DEF Waking
<1>2. /\ pc = "files" /\ UNCHANGED pc /\ inEpoll /\ inEpoll'
      /\ UNCHANGED <<connected, kernelOut, outEdge, listenOut, outBuffer>>
  BY DEF FileProgress, Waking, Registered, channel
<1>3. noSpace => noSpace'
  BY <1>1 DEF FileProgress, Put, Types, Flags
<1> QED BY <1>1, <1>2, <1>3 DEF Waking, Registered, Agreed, Interested, Woken, Awaited

LEMMA WakingQuiet == ~RegistrationRace /\ Waking /\ Quiet => Waking'
<1> SUFFICES ASSUME ~RegistrationRace, Waking, Quiet PROVE Waking'
  OBVIOUS
<1>1. Types /\ Types' /\ UNCHANGED <<outBuffer, file_list, wire>>
  BY TypesQuiet DEF Waking
<1> USE DEF conn, channel, kernel, vars, Waking
<1>2. CASE Drain
  BY <1>1, <1>2 DEF Drain, Types, Flags, Registered, Agreed, Interested, Woken, Awaited, Empty
<1>3. CASE Reset
  <2>1. outEdge' = kernelOut /\ UNCHANGED <<noSpace, kernelOut, pc, answer, connected, listenOut, inEpoll>>
    BY <1>3 DEF Reset
  <2>2. Registered' /\ Agreed' /\ Interested'
    BY <1>1, <2>1 DEF Registered, Agreed, Interested, Empty
  <2>3. Woken'
    BY <1>1, <2>1 DEF Woken, Awaited, Empty
  <2> QED BY <1>1, <2>2, <2>3
<1>4. CASE MarkInEpoll
  BY <1>1, <1>4 DEF MarkInEpoll, Types, Flags, Registered, Agreed, Interested, Woken, Awaited, Empty
<1>5. CASE AnswerFails
  <2>1. connected' = FALSE /\ inEpoll' = inEpoll /\ UNCHANGED <<kernelOut, outEdge, listenOut>>
    BY <1>5 DEF AnswerFails
  <2>2. inEpoll
    BY <1>5 DEF AnswerFails, BeginAnswer, EventsHandled
  <2> QED BY <1>1, <2>1, <2>2 DEF Registered, Agreed, Interested, Woken
<1>6. CASE WriteWithOther \/ WriteEvent
  BY <1>1, <1>6 DEF WriteWithOther, WriteEvent, BeginWrite, Registered, Agreed, Interested, Woken, Awaited, Empty
<1>7. CASE WriteBufferFails \/ FileFails \/ SendFileFails
  <2>1. pc # "idle" /\ UNCHANGED <<kernelOut, outEdge, listenOut, inEpoll>>
    BY <1>7 DEF WriteBufferFails, FileFails, SendFileFails
  <2>2. connected' = FALSE
    BY <1>1, <1>7 DEF WriteBufferFails, FileFails, SendFileFails, HandleClose, Types, Flags
  <2>3. inEpoll
    BY <2>1 DEF Registered
  <2> QED BY <1>1, <2>1, <2>2, <2>3 DEF Registered, Agreed, Interested, Woken, Empty
<1>8. CASE FileBlocked
  BY <1>1, <1>8 DEF FileBlocked, Registered, Agreed, Interested, Woken, Awaited, Empty
<1>9. CASE FinishWrite
  <2>1. /\ pc \in {"files", "finish"} /\ pc' = "idle" /\ inEpoll /\ inEpoll'
        /\ UNCHANGED <<connected, noSpace>>
    BY <1>9 DEF FinishWrite, Interest, Registered
  <2>2. CASE Empty
    <3>1. ~listenOut' /\ ~kernelOut' /\ ~outEdge' /\ Empty'
      BY <1>1, <1>9, <2>1, <2>2 DEF FinishWrite, Interest, Empty
    <3> QED BY <1>1, <2>1, <3>1 DEF Types, Flags, Registered, Agreed, Interested, Woken
  <2>3. CASE ~Empty
    <3>1. UNCHANGED <<kernelOut, outEdge, listenOut>>
      BY <1>9, <2>3 DEF FinishWrite, Empty
    <3>2. connected => Awaited
      BY <1>9, <2>1, <2>3 DEF FinishWrite, Empty, Woken
    <3> QED BY <1>1, <2>1, <3>1, <3>2 DEF Registered, Agreed, Interested, Woken, Awaited
  <2> QED BY <2>2, <2>3
<1>10. CASE Close
  <2>1. ~connected' /\ inEpoll /\ UNCHANGED <<inEpoll, kernelOut, outEdge, listenOut>>
    BY <1>10 DEF Close, EventsHandled, HandleClose
  <2> QED BY <1>1, <2>1 DEF Registered, Agreed, Interested, Woken
<1>11. CASE UNCHANGED vars
  BY <1>1, <1>11 DEF Registered, Agreed, Interested, Woken, Awaited, Empty
<1> QED BY <1>2, <1>3, <1>4, <1>5, <1>6, <1>7, <1>8, <1>9, <1>10, <1>11 DEF Quiet

LEMMA WakingInit == Init => Waking
BY TypesInit DEF Init, Waking, Registered, Agreed, Interested, Woken, Empty

\* Output that waits has the interest and the edge that will get it written, for
\* any answers, once no event is handled before the channel is marked registered.
THEOREM WaitingOutputHasInterest ==
  ASSUME ~RegistrationRace
  PROVE  Spec => []OutputHasInterest
<1>1. Init => Waking
  BY WakingInit
<1>2. Waking /\ [Next]_vars => Waking'
  BY StepCases, WakingAnswer, WakingSendFile, WakingWriteBuffer, WakingProgress, WakingQuiet
<1>3. Waking => OutputHasInterest
  BY DEF Waking, Woken, Awaited, Empty, OutputHasInterest
<1> QED BY <1>1, <1>2, <1>3, PTL DEF Spec

-----------------------------------------------------------------------------
(* Units.  Those of an answer that has been handed to send or sendFile are   *)
(* on the wire, in outBuffer_, or left in a file of file_list_; what is left *)
(* in the files is the part of the loop's load that is this connection's.    *)

LEMMA OccurrencesType ==
  ASSUME NEW s \in Seq(Parts), NEW part
  PROVE  Occurrences(part, s) \in Nat /\ IsFiniteSet({i \in DOMAIN s : s[i] = part})
<1>1. IsFiniteSet(1 .. Len(s)) /\ DOMAIN s = 1 .. Len(s)
  BY FS_Interval
<1>2. IsFiniteSet({i \in DOMAIN s : s[i] = part})
  BY <1>1, FS_Subset
<1> QED BY <1>2, FS_CardinalityType DEF Occurrences

LEMMA OccurrencesJoined ==
  ASSUME NEW s \in Seq(Parts), NEW t \in Seq(Parts), NEW part
  PROVE  Occurrences(part, s \o t) = Occurrences(part, s) + Occurrences(part, t)
<1> DEFINE n == Len(s)
           A == {i \in DOMAIN s : s[i] = part}
           B == {i \in DOMAIN t : t[i] = part}
           C == {i \in DOMAIN (s \o t) : (s \o t)[i] = part}
           D == {n + i : i \in B}
           f == [i \in B |-> n + i]
<1>1. n \in Nat /\ DOMAIN s = 1 .. n /\ Len(t) \in Nat /\ DOMAIN t = 1 .. Len(t)
      /\ DOMAIN (s \o t) = 1 .. n + Len(t)
  OBVIOUS
<1>2. IsFiniteSet(A) /\ IsFiniteSet(B)
  BY OccurrencesType
<1>3. f \in Bijection(B, D)
  BY <1>1 DEF Bijection, Injection, Surjection, IsInjective
<1>4. IsFiniteSet(D) /\ Cardinality(D) = Cardinality(B)
  BY <1>2, <1>3, FS_Bijection DEF ExistsBijection
<1>5. A \cap D = {}
  BY <1>1
<1>6. C = A \cup D
  <2>1. ASSUME NEW i \in C PROVE i \in A \cup D
    <3>1. CASE i \in 1 .. n
      BY <1>1, <3>1, Joined
    <3>2. CASE i \notin 1 .. n
      <4>1. i - n \in 1 .. Len(t) /\ n + (i - n) = i
        BY <1>1, <3>2
      <4>2. t[i - n] = part
        BY <4>1, Joined
      <4> QED BY <1>1, <4>1, <4>2
    <3> QED BY <3>1, <3>2
  <2>2. ASSUME NEW i \in A PROVE i \in C
    BY <1>1, Joined
  <2>3. ASSUME NEW i \in B PROVE n + i \in C
    BY <1>1, Joined
  <2> QED BY <2>1, <2>2, <2>3
<1>7. Cardinality(C) = Cardinality(A) + Cardinality(D) - Cardinality(A \cap D)
  BY <1>2, <1>4, <1>6, FS_Union
<1>8. Cardinality(A \cap D) = 0
  BY <1>5, FS_EmptySet
<1>9. Cardinality(A) \in Nat /\ Cardinality(B) \in Nat
  BY <1>2, FS_CardinalityType
<1>10. /\ Occurrences(part, s \o t) = Cardinality(C)
       /\ Occurrences(part, s) = Cardinality(A) /\ Occurrences(part, t) = Cardinality(B)
  BY DEF Occurrences
<1> HIDE DEF A, B, C, D
<1> QED BY <1>4, <1>7, <1>8, <1>9, <1>10

LEMMA OccurrencesUnits ==
  ASSUME NEW part \in Parts, NEW q, NEW n \in Nat
  PROVE  Occurrences(q, Units(part, n)) = IF q = part THEN n ELSE 0
<1> DEFINE A == {i \in DOMAIN Units(part, n) : Units(part, n)[i] = q}
<1>1. A = IF q = part THEN 1 .. n ELSE {}
  BY DEF Units
<1>2. Cardinality(1 .. n) = n /\ Cardinality({}) = 0
  BY FS_Interval, FS_EmptySet
<1> QED BY <1>1, <1>2 DEF Occurrences

LEMMA OccurrencesNone == \A part : Occurrences(part, <<>>) = 0
<1> SUFFICES ASSUME NEW part PROVE Occurrences(part, <<>>) = 0
  OBVIOUS
<1>1. {i \in DOMAIN (<<>>) : (<<>>)[i] = part} = {}
  OBVIOUS
<1> QED BY <1>1, FS_EmptySet DEF Occurrences

\* Each file of a list as its units.
Unit(list) == [i \in DOMAIN list |-> Units(2 * list[i].answer, list[i].left)]

LEMMA UnitType ==
  ASSUME NEW list \in Seq(Waits)
  PROVE  /\ Unit(list) \in Seq(Seq(Parts)) /\ Len(Unit(list)) = Len(list)
         /\ UnitsIn(list) = FlattenSeq(Unit(list))
         /\ UnitsIn(list) \in Seq(Parts) /\ LeftInFiles(list) \in Nat
<1>1. \A i \in DOMAIN list : Units(2 * list[i].answer, list[i].left) \in Seq(Parts)
  <2> SUFFICES ASSUME NEW i \in DOMAIN list PROVE Units(2 * list[i].answer, list[i].left) \in Seq(Parts)
    OBVIOUS
  <2>1. list[i] \in Waits
    OBVIOUS
  <2>2. list[i].answer \in Answers /\ list[i].left \in Nat
    BY <2>1 DEF Waits
  <2> QED BY <2>2, LengthsAreNat, UnitsAreParts
<1>2. Unit(list) \in Seq(Seq(Parts)) /\ Len(Unit(list)) = Len(list)
  <2>1. Len(list) \in Nat /\ DOMAIN list = 1 .. Len(list)
    OBVIOUS
  <2>2. Unit(list) = [i \in 1 .. Len(list) |-> Units(2 * list[i].answer, list[i].left)]
    BY <2>1 DEF Unit
  <2> QED BY <1>1, <2>1, <2>2, IsASeq
<1>3. UnitsIn(list) = FlattenSeq(Unit(list))
  BY DEF UnitsIn, Unit
<1>4. UnitsIn(list) \in Seq(Parts)
  BY <1>2, <1>3, FlattenType
<1> QED BY <1>2, <1>3, <1>4 DEF LeftInFiles

\* A file more at the end.
LEMMA UnitsInAppend ==
  ASSUME NEW list \in Seq(Waits), NEW file \in Waits
  PROVE  UnitsIn(Append(list, file)) = UnitsIn(list) \o Units(2 * file.answer, file.left)
<1> DEFINE more == Append(list, file)
           x == Units(2 * file.answer, file.left)
           n == Len(list)
<1>1. /\ more \in Seq(Waits) /\ n \in Nat /\ Len(more) = n + 1 /\ more[n + 1] = file
      /\ \A i \in 1 .. n : more[i] = list[i]
  BY Appended
<1>2. x \in Seq(Parts)
  <2>1. file.answer \in Answers /\ file.left \in Nat
    BY DEF Waits
  <2> QED BY <2>1, LengthsAreNat, UnitsAreParts
<1> HIDE DEF more
<1>3. /\ Unit(list) \in Seq(Seq(Parts)) /\ Len(Unit(list)) = n
      /\ Unit(more) \in Seq(Seq(Parts)) /\ Len(Unit(more)) = n + 1
      /\ UnitsIn(list) = FlattenSeq(Unit(list)) /\ UnitsIn(more) = FlattenSeq(Unit(more))
  BY <1>1, UnitType
<1>4. DOMAIN list = 1 .. n /\ DOMAIN more = 1 .. n + 1
  BY <1>1
<1>5. Unit(more) = Append(Unit(list), x)
  <2>1. Append(Unit(list), x) = [i \in 1 .. n + 1 |-> IF i = n + 1 THEN x ELSE Unit(list)[i]]
    BY <1>2, <1>3, Appended
  <2>2. \A i \in 1 .. n : Unit(list)[i] = Units(2 * more[i].answer, more[i].left)
    BY <1>1, <1>4 DEF Unit
  <2>3. Unit(more) = [i \in 1 .. n + 1 |-> Units(2 * more[i].answer, more[i].left)]
    BY <1>4 DEF Unit
  <2> QED BY <1>1, <2>1, <2>2, <2>3
<1>6. FlattenSeq(Append(Unit(list), x)) = FlattenSeq(Unit(list)) \o x
  BY <1>2, <1>3, FlattenAppend
<1> QED BY <1>3, <1>5, <1>6, Zenon DEF more

\* The first file, and the rest.
LEMMA UnitsInFirst ==
  ASSUME NEW list \in Seq(Waits), list # <<>>
  PROVE  UnitsIn(list) = Units(2 * list[1].answer, list[1].left) \o UnitsIn(Tail(list))
<1> DEFINE rest == Tail(list)
           x == Units(2 * list[1].answer, list[1].left)
           n == Len(list) - 1
<1>1. /\ rest \in Seq(Waits) /\ n \in Nat /\ Len(list) = n + 1 /\ Len(rest) = n
      /\ \A i \in 1 .. n : rest[i] = list[i + 1]
      /\ DOMAIN list = 1 .. n + 1 /\ DOMAIN rest = 1 .. n
  OBVIOUS
<1> HIDE DEF rest
<1>2. /\ Unit(list) \in Seq(Seq(Parts)) /\ Len(Unit(list)) = n + 1
      /\ Unit(rest) \in Seq(Seq(Parts)) /\ Len(Unit(rest)) = n
      /\ UnitsIn(list) = FlattenSeq(Unit(list)) /\ UnitsIn(rest) = FlattenSeq(Unit(rest))
  BY <1>1, UnitType
<1>3. Unit(list)[1] = x /\ \A i \in 1 .. n : Unit(list)[i + 1] = Unit(rest)[i]
  BY <1>1 DEF Unit
<1>4. x \in Seq(Parts) /\ <<x>> \in Seq(Seq(Parts))
  <2>1. x \in Seq(Parts)
    <3>1. 1 \in DOMAIN Unit(list)
      BY <1>1 DEF Unit
    <3> QED BY <1>2, <1>3, <3>1, ElementOfSeq
  <2> HIDE DEF x
  <2> QED BY <2>1
<1> HIDE DEF x
<1>5. Unit(list) = <<x>> \o Unit(rest)
  <2> DEFINE T == Seq(Parts)
             u == Unit(list)
             v == Unit(rest)
             w == <<x>> \o v
  <2>1. u \in Seq(T) /\ v \in Seq(T) /\ x \in T /\ Len(u) = n + 1 /\ Len(v) = n
    BY <1>2, <1>4
  <2>2. u[1] = x /\ \A i \in 1 .. n : u[i + 1] = v[i]
    BY <1>3
  <2> HIDE DEF T, u, v, w
  <2>3. u = w
    BY <1>1, <2>1, <2>2, FirstAndRest DEF w
  <2> QED BY <2>3 DEF u, v, w
<1>6. FlattenSeq(<<x>>) = x
  BY <1>4, FlattenOne
<1>7. FlattenSeq(<<x>> \o Unit(rest)) = FlattenSeq(<<x>>) \o FlattenSeq(Unit(rest))
  <2> DEFINE v == Unit(rest)
             w == <<x>>
  <2>1. v \in Seq(Seq(Parts)) /\ w \in Seq(Seq(Parts))
    BY <1>2, <1>4
  <2> HIDE DEF v, w
  <2>2. FlattenSeq(w \o v) = FlattenSeq(w) \o FlattenSeq(v)
    BY <2>1, FlattenConcat
  <2> QED BY <2>2 DEF v, w
<1> QED BY <1>2, <1>5, <1>6, <1>7, Zenon DEF rest, x

\* One turn of the sendfile loop takes units off the first file.
LEMMA ProgressTakes ==
  ASSUME Types, FileProgress
  PROVE  LET part == 2 * Head(file_list).answer
             l    == Head(file_list).left
             n    == Least(l, Space)
             rest == UnitsIn(Tail(file_list))
         IN /\ n \in Nat /\ n <= l /\ l \in Nat /\ part \in Parts /\ rest \in Seq(Parts)
            /\ UnitsIn(file_list) = Units(part, l) \o rest
            /\ UnitsIn(file_list') = Units(part, l - n) \o rest
<1> DEFINE file == Head(file_list)
           n == Least(file.left, Space)
           part == 2 * file.answer
           rest == Tail(file_list)
           l == file.left
<1>1. /\ file \in Waits /\ file = file_list[1] /\ n \in Nat /\ n <= l /\ part \in Parts /\ l \in Nat
      /\ file_list' \in Seq(Waits) /\ file_list \in Seq(Waits) /\ file_list # <<>> /\ rest \in Seq(Waits)
  <2>1. file_list \in Seq(Waits) /\ file_list # <<>>
    BY DEF FileProgress, Types, Queues
  <2> QED BY <2>1, ProgressEffect, SMTT(30) DEF Waits
<1>2. UnitsIn(file_list) = Units(part, l) \o UnitsIn(rest)
  BY <1>1, UnitsInFirst
<1>3. UnitsIn(file_list') = Units(part, l - n) \o UnitsIn(rest)
  <2>1. \/ n = l /\ file_list' = rest
        \/ n # l /\ file_list' = [file_list EXCEPT ![1].left = @ - n]
    BY DEF FileProgress
  <2>2. CASE n = l /\ file_list' = rest
    <3>1. Units(part, l - n) = <<>>
      BY <1>1, <2>2 DEF Units
    <3>2. UnitsIn(rest) \in Seq(Parts)
      BY <1>1, UnitType
    <3>3. <<>> \o UnitsIn(rest) = UnitsIn(rest)
      BY <3>2
    <3> QED BY <2>2, <3>1, <3>3
  <2>3. CASE n # l /\ file_list' = [file_list EXCEPT ![1].left = @ - n]
    <3>1. file_list' = [file_list EXCEPT ![1] = [file EXCEPT !.left = l - n]]
      BY <1>1, <2>3
    <3>2. file_list'[1] = [file EXCEPT !.left = l - n] /\ Tail(file_list') = rest /\ file_list' # <<>>
      BY <1>1, <3>1
    <3>3. file_list'[1].answer = file.answer /\ file_list'[1].left = l - n
      BY <1>1, <3>2 DEF Waits
    <3> QED BY <1>1, <3>2, <3>3, UnitsInFirst
  <2> QED BY <2>1, <2>2, <2>3
<1>4. UnitsIn(rest) \in Seq(Parts)
  BY <1>1, UnitType
<1> QED BY <1>1, <1>2, <1>3, <1>4

\* So much less is left of it, and of all of them.
LEMMA ProgressUnits ==
  ASSUME Types, FileProgress
  PROVE  LET part == 2 * Head(file_list).answer
             n    == Least(Head(file_list).left, Space)
         IN /\ LeftInFiles(file_list') = LeftInFiles(file_list) - n
            /\ \A p \in Parts : Occurrences(p, UnitsIn(file_list')) =
                  Occurrences(p, UnitsIn(file_list)) - (IF p = part THEN n ELSE 0)
<1> DEFINE l == Head(file_list).left
           n == Least(l, Space)
           part == 2 * Head(file_list).answer
           rest == Tail(file_list)
<1>1. n \in Nat /\ n <= l /\ part \in Parts /\ l \in Nat /\ UnitsIn(rest) \in Seq(Parts)
  BY ProgressTakes
<1>2. UnitsIn(file_list) = Units(part, l) \o UnitsIn(rest)
  BY ProgressTakes
<1>3. UnitsIn(file_list') = Units(part, l - n) \o UnitsIn(rest)
  BY ProgressTakes
<1> HIDE DEF n, part, rest, l
<1>4. l - n \in Nat
  BY <1>1
<1>5. /\ Units(part, l) \in Seq(Parts) /\ Len(Units(part, l)) = l
      /\ Units(part, l - n) \in Seq(Parts) /\ Len(Units(part, l - n)) = l - n
      /\ UnitsIn(rest) \in Seq(Parts)
  BY <1>1, <1>4, UnitsAreParts
<1>6. LeftInFiles(file_list') = LeftInFiles(file_list) - n
  <2>1. /\ LeftInFiles(file_list) = l + Len(UnitsIn(rest))
        /\ LeftInFiles(file_list') = (l - n) + Len(UnitsIn(rest)) /\ Len(UnitsIn(rest)) \in Nat
    <3>1. Len(UnitsIn(rest)) \in Nat
      BY <1>5
    <3>2. Len(UnitsIn(file_list)) = l + Len(UnitsIn(rest))
      BY <1>2, <1>5, Joined
    <3>3. Len(UnitsIn(file_list')) = (l - n) + Len(UnitsIn(rest))
      BY <1>3, <1>5, Joined
    <3> QED BY <3>1, <3>2, <3>3 DEF LeftInFiles
  <2> QED BY <1>1, <2>1
<1>7. ASSUME NEW p \in Parts
      PROVE  Occurrences(p, UnitsIn(file_list')) = Occurrences(p, UnitsIn(file_list)) - (IF p = part THEN n ELSE 0)
  <2>1. /\ Occurrences(p, UnitsIn(file_list)) = Occurrences(p, Units(part, l)) + Occurrences(p, UnitsIn(rest))
        /\ Occurrences(p, UnitsIn(file_list')) = Occurrences(p, Units(part, l - n)) + Occurrences(p, UnitsIn(rest))
    BY <1>2, <1>3, <1>5, OccurrencesJoined
  <2>2. /\ Occurrences(p, Units(part, l)) = IF p = part THEN l ELSE 0
        /\ Occurrences(p, Units(part, l - n)) = IF p = part THEN l - n ELSE 0
    BY <1>1, <1>4, OccurrencesUnits
  <2>3. Occurrences(p, UnitsIn(rest)) \in Nat
    BY <1>5, OccurrencesType
  <2> QED BY <1>1, <1>4, <2>1, <2>2, <2>3
<1> QED BY <1>6, <1>7 DEF n, part, l

\* sendFile: the units that do not go at once are left in the list.
LEMMA SendFileUnits ==
  ASSUME Types, SendFile
  PROVE  LET atOnce == ~listenOut /\ file_list = <<>>
             n      == IF atOnce THEN Least(File[answer], Space) ELSE 0
             left   == File[answer] - n
         IN /\ answer \in Answers /\ n \in Nat /\ left \in Nat /\ File[answer] \in Nat
            /\ left_bytes' = left_bytes + File[answer] - n
            /\ wire' = wire \o Units(2 * answer, n)
            /\ UnitsIn(file_list') = UnitsIn(file_list) \o Units(2 * answer, left)
<1> DEFINE r == answer
           atOnce == ~listenOut /\ file_list = <<>>
           n == IF atOnce THEN Least(File[r], Space) ELSE 0
           left == File[r] - n
<1>1. r \in Answers /\ File[r] \in Nat /\ Space \in Nat /\ file_list \in Seq(Waits) /\ wire \in Seq(Parts)
  BY Lengths, LengthsAreNat, SpaceType DEF SendFile, Types, Counts, Queues
<1>2. n \in Nat /\ n <= File[r] /\ left \in Nat
  <2>1. Least(File[r], Space) \in Nat /\ Least(File[r], Space) <= File[r]
    BY <1>1, LeastIsLeast
  <2> QED BY <1>1, <2>1
<1>3. wire' = wire \o Units(2 * r, n)
  <2>1. CASE atOnce
    BY <2>1 DEF SendFile, Put
  <2>2. CASE ~atOnce
    <3>1. wire' = wire /\ n = 0
      BY <2>2 DEF SendFile
    <3>2. Units(2 * r, 0) = <<>> /\ wire \o <<>> = wire
      BY <1>1 DEF Units
    <3> QED BY <3>1, <3>2
  <2> QED BY <2>1, <2>2
<1>4. left_bytes' = left_bytes + File[r] - n
  BY DEF SendFile
<1>5. UnitsIn(file_list') = UnitsIn(file_list) \o Units(2 * r, left)
  <2>1. CASE n < File[r]
    <3>1. file_list' = Append(file_list, [answer |-> r, left |-> left])
      BY <2>1 DEF SendFile
    <3> HIDE DEF left
    <3>2. [answer |-> r, left |-> left] \in Waits
      BY <1>1, <1>2 DEF Waits
    <3> QED BY <1>1, <3>1, <3>2, UnitsInAppend
  <2>2. CASE ~(n < File[r])
    <3>1. file_list' = file_list /\ left = 0
      BY <1>1, <1>2, <2>2 DEF SendFile
    <3>2. Units(2 * r, 0) = <<>> /\ UnitsIn(file_list) \in Seq(Parts)
      BY <1>1, UnitType DEF Units
    <3>3. UnitsIn(file_list) \o <<>> = UnitsIn(file_list)
      BY <3>2
    <3> QED BY <3>1, <3>2, <3>3
  <2> QED BY <2>1, <2>2
<1> QED BY <1>1, <1>2, <1>3, <1>4, <1>5

-----------------------------------------------------------------------------
(* The order of messages and files.                                          *)

Before(s, t) == \A i \in DOMAIN s, j \in DOMAIN t : s[i] % 2 = t[j] % 2 => s[i] <= t[j]
Odd(s) == \A i \in DOMAIN s : s[i] % 2 = 1
Even(s) == \A i \in DOMAIN s : s[i] % 2 = 0
UpTo(s, n) == \A i \in DOMAIN s : s[i] <= n

\* The units of the files that wait.
FilesLeft == UnitsIn(file_list)

\* What is written, and what waits, is in order, and what is written is before
\* what waits, of the same kind.
Orderly == /\ InOrder(wire) /\ InOrder(outBuffer) /\ InOrder(FilesLeft)
           /\ Before(wire, outBuffer) /\ Before(wire, FilesLeft)
           /\ Odd(outBuffer) /\ Even(FilesLeft)
           /\ UpTo(wire, 2 * answer) /\ UpTo(outBuffer, 2 * answer) /\ UpTo(FilesLeft, 2 * answer)

Ordering == Types /\ Orderly

LEMMA JoinedElement ==
  ASSUME NEW S, NEW s \in Seq(S), NEW t \in Seq(S), NEW i \in DOMAIN (s \o t)
  PROVE  \/ i \in DOMAIN s /\ (s \o t)[i] = s[i]
         \/ i - Len(s) \in DOMAIN t /\ (s \o t)[i] = t[i - Len(s)] /\ i > Len(s)
OBVIOUS

LEMMA JoinedInOrder ==
  ASSUME NEW s \in Seq(Parts), NEW t \in Seq(Parts), InOrder(s), InOrder(t), Before(s, t)
  PROVE  InOrder(s \o t)
<1> SUFFICES ASSUME NEW i \in DOMAIN (s \o t), NEW j \in DOMAIN (s \o t), i < j,
                    (s \o t)[i] % 2 = (s \o t)[j] % 2
             PROVE  (s \o t)[i] <= (s \o t)[j]
  BY DEF InOrder
<1>0. i \in Nat /\ j \in Nat /\ Len(s) \in Nat
  OBVIOUS
<1>1. \/ i \in DOMAIN s /\ (s \o t)[i] = s[i]
      \/ i - Len(s) \in DOMAIN t /\ (s \o t)[i] = t[i - Len(s)] /\ i > Len(s)
  BY JoinedElement
<1>2. \/ j \in DOMAIN s /\ (s \o t)[j] = s[j]
      \/ j - Len(s) \in DOMAIN t /\ (s \o t)[j] = t[j - Len(s)] /\ j > Len(s)
  BY JoinedElement
<1>3. i > Len(s) => j > Len(s)
  BY <1>0
<1>4. i - Len(s) < j - Len(s)
  BY <1>0
<1>5. \A k \in DOMAIN s : k <= Len(s)
  OBVIOUS
<1> QED BY <1>0, <1>1, <1>2, <1>3, <1>4, <1>5 DEF InOrder, Before

LEMMA JoinedBefore ==
  ASSUME NEW s \in Seq(Parts), NEW t \in Seq(Parts), NEW u \in Seq(Parts)
  PROVE  /\ Before(s, u) /\ Before(t, u) => Before(s \o t, u)
         /\ Before(u, s) /\ Before(u, t) => Before(u, s \o t)
         /\ \A n : UpTo(s, n) /\ UpTo(t, n) => UpTo(s \o t, n)
         /\ Odd(s) /\ Odd(t) => Odd(s \o t)
         /\ Even(s) /\ Even(t) => Even(s \o t)
<1>1. \A i \in DOMAIN (s \o t) : \/ \E k \in DOMAIN s : (s \o t)[i] = s[k]
                                 \/ \E k \in DOMAIN t : (s \o t)[i] = t[k]
  BY JoinedElement
<1>2. Before(s, u) /\ Before(t, u) => Before(s \o t, u)
  BY <1>1 DEF Before
<1>3. Before(u, s) /\ Before(u, t) => Before(u, s \o t)
  BY <1>1 DEF Before
<1>4. \A n : UpTo(s, n) /\ UpTo(t, n) => UpTo(s \o t, n)
  BY <1>1 DEF UpTo
<1>5. Odd(s) /\ Odd(t) => Odd(s \o t)
  BY <1>1 DEF Odd
<1>6. Even(s) /\ Even(t) => Even(s \o t)
  BY <1>1 DEF Even
<1> QED BY <1>2, <1>3, <1>4, <1>5, <1>6

LEMMA UnitsInOrder ==
  ASSUME NEW part \in Parts, NEW n \in Nat
  PROVE  /\ Units(part, n) \in Seq(Parts) /\ InOrder(Units(part, n))
         /\ \A m \in Int : part <= m => UpTo(Units(part, n), m)
         /\ \A m \in Nat : Before(Units(part, n), Units(part, m))
         /\ \A s \in Seq(Parts) : UpTo(s, part) => Before(s, Units(part, n))
         /\ part % 2 = 1 => Odd(Units(part, n))
         /\ part % 2 = 0 => Even(Units(part, n))
<1>1. part \in Nat
  BY Lengths DEF Parts
<1>2. \A m \in Nat : Units(part, m) \in Seq(Parts) /\ \A i \in DOMAIN Units(part, m) : Units(part, m)[i] = part
  BY DEF Units
<1> QED BY <1>1, <1>2, SMTT(30) DEF InOrder, UpTo, Before, Odd, Even

LEMMA Kinds ==
  ASSUME NEW r \in Nat
  PROVE  (2 * r) % 2 = 0 /\ (2 * r - 1) % 2 = 1
OBVIOUS

LEMMA OddBeforeEven ==
  ASSUME NEW s, NEW t, (Odd(s) /\ Even(t)) \/ (Even(s) /\ Odd(t))
  PROVE  Before(s, t)
BY DEF Odd, Even, Before

\* What holds of two sequences in a row holds of each of them.
LEMMA JoinedApart ==
  ASSUME NEW s \in Seq(Parts), NEW t \in Seq(Parts), NEW u \in Seq(Parts)
  PROVE  /\ InOrder(s \o t) => InOrder(t) /\ Before(s, t)
         /\ Before(u, s \o t) => Before(u, s) /\ Before(u, t)
         /\ \A n : UpTo(s \o t, n) => UpTo(s, n) /\ UpTo(t, n)
         /\ Even(s \o t) => Even(s) /\ Even(t)
<1> DEFINE k == Len(s)
           q == s \o t
<1>1. /\ k \in Nat /\ DOMAIN s = 1 .. k /\ Len(t) \in Nat /\ DOMAIN t = 1 .. Len(t)
      /\ DOMAIN q = 1 .. k + Len(t)
      /\ \A i \in 1 .. k : q[i] = s[i]
      /\ \A i \in 1 .. Len(t) : q[k + i] = t[i]
  BY Joined
<1> HIDE DEF k, q
<1>2. /\ \A i \in DOMAIN s : i \in DOMAIN q /\ q[i] = s[i]
      /\ \A i \in DOMAIN t : k + i \in DOMAIN q /\ q[k + i] = t[i]
  BY <1>1
<1>3. InOrder(q) => InOrder(t)
  <2>1. \A i, j \in DOMAIN t : i < j => k + i < k + j
    BY <1>1
  <2> QED BY <1>2, <2>1 DEF InOrder
<1>4. InOrder(q) => Before(s, t)
  <2>1. \A i \in DOMAIN s, j \in DOMAIN t : i < k + j
    BY <1>1
  <2> QED BY <1>2, <2>1 DEF InOrder, Before
<1>5. Before(u, q) => Before(u, s) /\ Before(u, t)
  BY <1>2 DEF Before
<1>6. \A n : UpTo(q, n) => UpTo(s, n) /\ UpTo(t, n)
  BY <1>2 DEF UpTo
<1>7. Even(q) => Even(s) /\ Even(t)
  BY <1>2 DEF Even
<1> QED BY <1>3, <1>4, <1>5, <1>6, <1>7 DEF q

LEMMA FilesLeftType == Types => FilesLeft \in Seq(Parts)
BY UnitType DEF Types, Queues, FilesLeft

LEMMA NoFilesLeft == UnitsIn(<<>>) = <<>>
<1>1. Unit(<<>>) = <<>> /\ UnitsIn(<<>>) = FlattenSeq(Unit(<<>>))
  BY DEF Unit, UnitsIn
<1> QED BY <1>1, FlattenEmpty, Zenon

LEMMA OrderlyAnswer == Ordering /\ Answer => Ordering'
<1> SUFFICES ASSUME Ordering, Answer PROVE Ordering'
  OBVIOUS
<1> DEFINE r == answer + 1
           part == 2 * r - 1
           n == IF Waiting THEN 0 ELSE Least(Message[r], Space)
           now == Units(part, n)
           later == Units(part, Message[r] - n)
<1>1. Types /\ Types' /\ Orderly
  BY TypesAnswer DEF Ordering
<1>2. r \in Answers /\ answer' = r /\ Send(r) /\ answer \in Nat
  BY <1>1, Lengths DEF Answer, BeginAnswer, Types, Counts
<1>3. part \in Parts /\ part \in Nat /\ part % 2 = 1 /\ 2 * answer <= part /\ part <= 2 * answer'
  BY <1>2, LengthsAreNat, Kinds
<1>4. n \in Nat /\ Message[r] - n \in Nat
  <2>1. Message[r] \in Nat /\ Space \in Nat
    BY <1>1, <1>2, LengthsAreNat, SpaceType
  <2>2. Least(Message[r], Space) \in Nat /\ Least(Message[r], Space) <= Message[r]
    BY <2>1, LeastIsLeast
  <2> QED BY <2>1, <2>2
<1>5. outBuffer' = outBuffer \o later /\ UNCHANGED file_list /\ (outBuffer # <<>> => n = 0)
  BY <1>2 DEF Send, Waiting
<1>6. wire' = wire \o now
  <2>1. CASE Waiting
    <3>1. wire' = wire /\ n = 0
      BY <1>2, <2>1 DEF Send
    <3>2. wire \in Seq(Parts) /\ Units(part, 0) = <<>>
      BY <1>1 DEF Types, Queues, Units
    <3>3. wire \o <<>> = wire
      BY <3>2
    <3> QED BY <3>1, <3>2, <3>3
  <2>2. CASE ~Waiting
    BY <1>2, <2>2 DEF Send, Put
  <2> QED BY <2>1, <2>2
<1> HIDE DEF n
<1>7. /\ now \in Seq(Parts) /\ later \in Seq(Parts) /\ InOrder(now) /\ InOrder(later)
      /\ Odd(now) /\ Odd(later) /\ Before(now, later)
      /\ UpTo(now, 2 * answer') /\ UpTo(later, 2 * answer')
  <2>1. now \in Seq(Parts) /\ InOrder(now) /\ Odd(now) /\ Before(now, later)
    BY <1>3, <1>4, UnitsInOrder
  <2>2. later \in Seq(Parts) /\ InOrder(later) /\ Odd(later)
    BY <1>3, <1>4, UnitsInOrder
  <2>3. UpTo(now, 2 * answer') /\ UpTo(later, 2 * answer')
    <3>1. 2 * answer' \in Int
      BY <1>2
    <3> QED BY <1>3, <1>4, <3>1, UnitsInOrder
  <2> QED BY <2>1, <2>2, <2>3
<1> HIDE DEF part
<1>8. outBuffer \in Seq(Parts) /\ wire \in Seq(Parts) /\ FilesLeft \in Seq(Parts) /\ Even(FilesLeft)
  BY <1>1, FilesLeftType DEF Types, Queues, Orderly
<1>9. /\ UpTo(wire, part) /\ UpTo(outBuffer, part)
      /\ UpTo(wire, 2 * answer') /\ UpTo(outBuffer, 2 * answer') /\ UpTo(FilesLeft, 2 * answer')
  <2>1. \A s \in Seq(Parts) : UpTo(s, 2 * answer) => UpTo(s, part) /\ UpTo(s, 2 * answer')
    <3> SUFFICES ASSUME NEW s \in Seq(Parts), UpTo(s, 2 * answer), NEW i \in DOMAIN s
                 PROVE  s[i] <= part /\ s[i] <= 2 * answer'
      BY DEF UpTo
    <3>1. s[i] \in Parts
      OBVIOUS
    <3>2. s[i] \in Nat /\ s[i] <= 2 * answer
      BY <3>1 DEF UpTo, Parts
    <3>3. 2 * answer \in Nat /\ 2 * answer' \in Nat
      BY <1>2
    <3> QED BY <1>3, <3>2, <3>3
  <2> QED BY <1>1, <1>8, <2>1 DEF Orderly
<1>10. /\ Before(wire, now) /\ Before(wire, later) /\ Before(outBuffer, later)
       /\ Before(now, FilesLeft)
  <2>1. \A m \in Nat, s \in Seq(Parts) : UpTo(s, part) => Before(s, Units(part, m))
    BY <1>3, UnitsInOrder
  <2>2. Before(wire, now) /\ Before(wire, later) /\ Before(outBuffer, later)
    BY <1>4, <1>8, <1>9, <2>1
  <2>3. Before(now, FilesLeft)
    <3>1. Odd(now) /\ Even(FilesLeft)
      BY <1>7, <1>8
    <3> QED BY <3>1 DEF Odd, Even, Before
  <2> QED BY <2>2, <2>3
<1>11. Before(now, outBuffer)
  <2>1. CASE outBuffer = <<>>
    BY <2>1 DEF Before
  <2>2. CASE n = 0
    BY <2>2 DEF Before, Units
  <2> QED BY <1>5, <2>1, <2>2
<1> HIDE DEF now, later
<1>12. InOrder(wire') /\ InOrder(outBuffer')
  BY <1>1, <1>5, <1>6, <1>7, <1>8, <1>10, JoinedInOrder DEF Orderly
<1>13. Odd(outBuffer') /\ UpTo(wire', 2 * answer') /\ UpTo(outBuffer', 2 * answer')
  BY <1>1, <1>5, <1>6, <1>7, <1>8, <1>9, JoinedBefore DEF Orderly
<1>14. Before(wire', FilesLeft)
  BY <1>1, <1>6, <1>7, <1>8, <1>10, JoinedBefore DEF Orderly
<1>15. Before(wire', outBuffer')
  <2>1. Before(wire, outBuffer') /\ Before(now, outBuffer') /\ outBuffer' \in Seq(Parts)
    BY <1>1, <1>5, <1>7, <1>8, <1>10, <1>11, JoinedBefore, Joined DEF Orderly
  <2> QED BY <1>6, <1>7, <1>8, <2>1, JoinedBefore
<1>16. FilesLeft' = FilesLeft
  BY <1>5 DEF FilesLeft
<1> QED BY <1>1, <1>9, <1>12, <1>13, <1>14, <1>15, <1>16 DEF Ordering, Orderly

LEMMA OrderlySendFile == Ordering /\ SendFile => Ordering'
<1> SUFFICES ASSUME Ordering, SendFile PROVE Ordering'
  OBVIOUS
<1> DEFINE part == 2 * answer
           atOnce == ~listenOut /\ file_list = <<>>
           n == IF atOnce THEN Least(File[answer], Space) ELSE 0
           left == File[answer] - n
           now == Units(part, n)
           later == Units(part, left)
<1>1. Types /\ Types' /\ Orderly
  BY TypesSendFile DEF Ordering
<1>2. /\ answer \in Answers /\ n \in Nat /\ left \in Nat
      /\ wire' = wire \o now /\ FilesLeft' = FilesLeft \o later
  BY <1>1, SendFileUnits DEF FilesLeft
<1>3. part \in Parts /\ part \in Nat /\ part % 2 = 0 /\ UNCHANGED <<answer, outBuffer>>
  <2>1. answer \in Nat
    BY <1>2, Lengths
  <2> QED BY <1>2, <2>1, LengthsAreNat, Kinds DEF SendFile
<1>4. outBuffer \in Seq(Parts) /\ wire \in Seq(Parts) /\ FilesLeft \in Seq(Parts)
  BY <1>1, FilesLeftType DEF Types, Queues
<1>5. Before(now, FilesLeft)
  <2>1. CASE atOnce
    <3>1. FilesLeft = <<>>
      BY <2>1, NoFilesLeft DEF FilesLeft
    <3> QED BY <3>1 DEF Before
  <2>2. CASE n = 0
    BY <2>2 DEF Before, Units
  <2> QED BY <2>1, <2>2
<1> HIDE DEF n, atOnce, left
<1>6. /\ now \in Seq(Parts) /\ InOrder(now) /\ Even(now) /\ UpTo(now, part)
      /\ later \in Seq(Parts) /\ InOrder(later) /\ Even(later) /\ UpTo(later, part)
      /\ Before(wire, now) /\ Before(now, later) /\ Before(wire, later) /\ Before(FilesLeft, later)
  <2>1. \A m \in Nat : /\ Units(part, m) \in Seq(Parts) /\ InOrder(Units(part, m))
                        /\ Even(Units(part, m)) /\ UpTo(Units(part, m), part)
    BY <1>3, UnitsInOrder
  <2>2. \A m \in Nat, s \in Seq(Parts) : UpTo(s, part) => Before(s, Units(part, m))
    BY <1>3, UnitsInOrder
  <2>3. UpTo(wire, part) /\ UpTo(FilesLeft, part)
    BY <1>1 DEF Orderly
  <2> QED BY <1>2, <1>4, <2>1, <2>2, <2>3
<1>7. Before(now, outBuffer)
  BY <1>1, <1>6, OddBeforeEven DEF Orderly
<1> HIDE DEF now, later
<1>8. InOrder(wire') /\ UpTo(wire', part) /\ Before(wire', outBuffer) /\ wire' \in Seq(Parts)
  BY <1>1, <1>2, <1>4, <1>6, <1>7, JoinedInOrder, JoinedBefore, Joined DEF Orderly
<1>9. InOrder(FilesLeft') /\ UpTo(FilesLeft', part) /\ Even(FilesLeft') /\ FilesLeft' \in Seq(Parts)
  <2>1. InOrder(FilesLeft) /\ UpTo(FilesLeft, part) /\ Even(FilesLeft)
    BY <1>1 DEF Orderly
  <2> QED BY <1>2, <1>4, <1>6, <2>1, JoinedInOrder, JoinedBefore, Joined
<1>10. Before(wire', FilesLeft')
  <2>1. Before(wire, FilesLeft') /\ Before(now, FilesLeft')
    BY <1>1, <1>2, <1>4, <1>5, <1>6, JoinedBefore DEF Orderly
  <2> QED BY <1>2, <1>4, <1>6, <1>9, <2>1, JoinedBefore
<1> QED BY <1>1, <1>3, <1>8, <1>9, <1>10 DEF Ordering, Orderly

LEMMA OrderlyWriteBuffer == Ordering /\ WriteBuffer => Ordering'
<1> SUFFICES ASSUME Ordering, WriteBuffer PROVE Ordering'
  OBVIOUS
<1> DEFINE n == Least(Len(outBuffer), Space)
           k == Len(outBuffer)
           now == SubSeq(outBuffer, 1, n)
           later == SubSeq(outBuffer, n + 1, k)
<1>1. Types /\ Types' /\ Orderly
  BY TypesWriteBuffer DEF Ordering
<1>2. outBuffer \in Seq(Parts) /\ wire \in Seq(Parts) /\ FilesLeft \in Seq(Parts) /\ Even(FilesLeft)
  BY <1>1, FilesLeftType DEF Types, Queues, Orderly
<1>3. n \in 0 .. k /\ k \in Nat
  <2>1. k \in Nat /\ Space \in Nat
    BY <1>1, <1>2, SpaceType
  <2> QED BY <2>1, LeastIsLeast
<1>4. wire' = wire \o now /\ outBuffer' = later /\ UNCHANGED <<file_list, answer>>
  BY DEF WriteBuffer
<1> HIDE DEF n
<1>5. /\ now \in Seq(Parts) /\ DOMAIN now = 1 .. n /\ \A i \in 1 .. n : now[i] = outBuffer[i]
      /\ later \in Seq(Parts) /\ DOMAIN later = 1 .. k - n /\ \A i \in 1 .. k - n : later[i] = outBuffer[n + i]
  BY <1>2, <1>3, Rest
<1>6. DOMAIN outBuffer = 1 .. k /\ 1 .. n \subseteq 1 .. k /\ \A i \in 1 .. k - n : n + i \in 1 .. k
  BY <1>2, <1>3
<1> HIDE DEF k, now, later
<1>7. Odd(now) /\ Odd(later) /\ UpTo(now, 2 * answer) /\ UpTo(later, 2 * answer)
  BY <1>1, <1>5, <1>6 DEF Orderly, Odd, UpTo
<1>8. Before(wire, now) /\ Before(wire, later)
  BY <1>1, <1>5, <1>6 DEF Orderly, Before
<1>9. InOrder(now) /\ InOrder(later) /\ Before(now, later)
  <2>1. InOrder(outBuffer)
    BY <1>1 DEF Orderly
  <2>2. InOrder(now)
    BY <1>5, <1>6, <2>1 DEF InOrder
  <2>3. \A i, j \in 1 .. k - n : i < j => n + i < n + j
    BY <1>3
  <2>4. InOrder(later)
    BY <1>5, <1>6, <2>1, <2>3 DEF InOrder
  <2>5. \A i \in 1 .. n, j \in 1 .. k - n : i < n + j
    BY <1>3
  <2>6. Before(now, later)
    BY <1>5, <1>6, <2>1, <2>5 DEF InOrder, Before
  <2> QED BY <2>2, <2>4, <2>6
<1>10. Before(now, FilesLeft)
  <2>1. Odd(now) /\ Even(FilesLeft)
    BY <1>2, <1>7
  <2> QED BY <2>1 DEF Odd, Even, Before
<1>11. /\ InOrder(wire') /\ UpTo(wire', 2 * answer)
       /\ Before(wire', later) /\ Before(wire', FilesLeft)
  BY <1>1, <1>2, <1>4, <1>5, <1>7, <1>8, <1>9, <1>10, JoinedInOrder, JoinedBefore DEF Orderly
<1>12. FilesLeft' = FilesLeft
  BY <1>4 DEF FilesLeft
<1> QED BY <1>1, <1>4, <1>7, <1>9, <1>11, <1>12 DEF Ordering, Orderly

LEMMA OrderlyProgress == Ordering /\ FileProgress => Ordering'
<1> SUFFICES ASSUME Ordering, FileProgress PROVE Ordering'
  OBVIOUS
<1> DEFINE file == Head(file_list)
           n == Least(file.left, Space)
           part == 2 * file.answer
           all == Units(part, file.left)
           now == Units(part, n)
           later == Units(part, file.left - n)
           others == UnitsIn(Tail(file_list))
<1>1. Types /\ Types' /\ Orderly
  BY TypesProgress DEF Ordering
<1>2. /\ n \in Nat /\ file.left \in Nat /\ file.left - n \in Nat /\ part \in Parts /\ part \in Nat
      /\ others \in Seq(Parts) /\ wire' = wire \o now
      /\ FilesLeft = all \o others /\ FilesLeft' = later \o others
  <2>1. /\ n \in Nat /\ n <= file.left /\ file.left \in Nat /\ part \in Parts /\ others \in Seq(Parts)
        /\ UnitsIn(file_list) = all \o others /\ UnitsIn(file_list') = later \o others
    BY <1>1, ProgressTakes
  <2>2. wire' = wire \o now
    BY DEF FileProgress, Put
  <2> HIDE DEF n, part, others
  <2>3. part \in Nat /\ file.left - n \in Nat
    BY <2>1 DEF Parts
  <2> QED BY <2>1, <2>2, <2>3 DEF FilesLeft
<1>3. UNCHANGED <<outBuffer, answer>>
  BY DEF FileProgress
<1>4. outBuffer \in Seq(Parts) /\ wire \in Seq(Parts) /\ FilesLeft \in Seq(Parts)
  BY <1>1, FilesLeftType DEF Types, Queues
<1> HIDE DEF n, file, part, others
<1>5. /\ all \in Seq(Parts) /\ now \in Seq(Parts) /\ later \in Seq(Parts)
      /\ InOrder(now) /\ InOrder(later) /\ Before(now, later)
  BY <1>2, UnitsInOrder
<1>6. /\ \A i \in DOMAIN now : \E j \in DOMAIN all : now[i] = all[j]
      /\ \A i \in DOMAIN later : \E j \in DOMAIN all : later[i] = all[j]
  <2>1. \A m \in Nat : DOMAIN Units(part, m) = 1 .. m /\ \A i \in 1 .. m : Units(part, m)[i] = part
    BY DEF Units
  <2>2. n <= file.left /\ file.left - n <= file.left
    BY <1>2
  <2>3. 1 .. n \subseteq 1 .. file.left /\ 1 .. file.left - n \subseteq 1 .. file.left
    BY <1>2, <2>2
  <2> QED BY <1>2, <2>1, <2>3
<1> HIDE DEF all, now, later
<1>7. /\ InOrder(others) /\ Before(all, others) /\ Before(wire, all) /\ Before(wire, others)
      /\ UpTo(all, 2 * answer) /\ UpTo(others, 2 * answer) /\ Even(all) /\ Even(others)
  BY <1>1, <1>2, <1>4, <1>5, JoinedApart DEF Orderly
<1>8. /\ Before(now, others) /\ Before(later, others) /\ Before(wire, now) /\ Before(wire, later)
      /\ UpTo(now, 2 * answer) /\ UpTo(later, 2 * answer) /\ Even(now) /\ Even(later)
  BY <1>6, <1>7 DEF Before, UpTo, Even
<1>9. Before(now, outBuffer)
  BY <1>1, <1>8, OddBeforeEven DEF Orderly
<1>10. /\ InOrder(FilesLeft') /\ UpTo(FilesLeft', 2 * answer) /\ Even(FilesLeft')
       /\ Before(wire, FilesLeft') /\ Before(now, FilesLeft') /\ FilesLeft' \in Seq(Parts)
  BY <1>2, <1>4, <1>5, <1>7, <1>8, JoinedInOrder, JoinedBefore, Joined
<1>11. /\ InOrder(wire') /\ UpTo(wire', 2 * answer)
       /\ Before(wire', outBuffer) /\ Before(wire', FilesLeft')
  BY <1>1, <1>2, <1>4, <1>5, <1>8, <1>9, <1>10, JoinedInOrder, JoinedBefore DEF Orderly
<1> QED BY <1>1, <1>3, <1>10, <1>11 DEF Ordering, Orderly

LEMMA OrderlyQuiet == Ordering /\ Quiet => Ordering'
<1> SUFFICES ASSUME Ordering, Quiet PROVE Ordering'
  OBVIOUS
<1>1. Types /\ Types' /\ Orderly /\ UNCHANGED <<outBuffer, file_list, wire>>
  BY TypesQuiet DEF Ordering
<1>2. FilesLeft' = FilesLeft
  BY <1>1 DEF FilesLeft
<1>3. answer \in Nat /\ (answer' = answer \/ answer' = answer + 1)
  <2>1. answer \in Nat
    BY <1>1, Lengths DEF Types, Counts
  <2>2. answer' = answer \/ answer' = answer + 1
    BY DEF Quiet, conn, channel, kernel, vars, Drain, Reset, MarkInEpoll, AnswerFails, BeginAnswer, Close,
           WriteWithOther, WriteEvent, BeginWrite, WriteBufferFails, FileFails, SendFileFails,
           FileBlocked, FinishWrite
  <2> QED BY <2>1, <2>2
<1>4. \A s \in Seq(Parts) : UpTo(s, 2 * answer) => UpTo(s, 2 * answer')
  <2>1. Parts \subseteq Nat
    BY DEF Parts
  <2>2. \A x \in Nat : x <= 2 * answer => x <= 2 * answer'
    BY <1>3
  <2> SUFFICES ASSUME NEW s \in Seq(Parts), UpTo(s, 2 * answer), NEW i \in DOMAIN s
               PROVE  s[i] <= 2 * answer'
    BY DEF UpTo
  <2>3. s[i] \in Parts
    OBVIOUS
  <2>4. s[i] <= 2 * answer
    BY DEF UpTo
  <2> QED BY <2>1, <2>2, <2>3, <2>4
<1>5. outBuffer \in Seq(Parts) /\ wire \in Seq(Parts) /\ FilesLeft \in Seq(Parts)
  BY <1>1, FilesLeftType DEF Types, Queues
<1> QED BY <1>1, <1>2, <1>4, <1>5 DEF Ordering, Orderly

\* Messages reach the socket in the order of the answers, and so do files, what
\* is written and what still waits in outBuffer_ and file_list_, for any answers,
\* however the socket's buffer splits them.
THEOREM AlwaysInOrder == Spec => []MessagesAndFilesInOrder
<1>1. Init => Ordering
  <2> SUFFICES ASSUME Init PROVE Ordering
    OBVIOUS
  <2>1. wire = <<>> /\ outBuffer = <<>> /\ FilesLeft = <<>>
    BY NoFilesLeft DEF Init, FilesLeft
  <2> QED BY <2>1, TypesInit DEF Ordering, Orderly, InOrder, Before, Odd, Even, UpTo
<1>2. Ordering /\ [Next]_vars => Ordering'
  BY StepCases, OrderlyAnswer, OrderlySendFile, OrderlyWriteBuffer, OrderlyProgress, OrderlyQuiet
<1>3. Ordering => MessagesAndFilesInOrder
  <2> SUFFICES ASSUME Ordering PROVE MessagesAndFilesInOrder
    OBVIOUS
  <2>1. wire \in Seq(Parts) /\ outBuffer \in Seq(Parts) /\ FilesLeft \in Seq(Parts) /\ Orderly
    BY FilesLeftType DEF Ordering, Types, Queues
  <2> QED BY <2>1, JoinedInOrder DEF Orderly, MessagesAndFilesInOrder, FilesLeft
<1> QED BY <1>1, <1>2, <1>3, PTL DEF Spec

-----------------------------------------------------------------------------
(* The load of the loop.  A file waits only while EPOLLOUT is asked for, so  *)
(* that the write of send fails only when no file waits; and handleClose has *)
(* closed every file of file_list_, so that each sendfile after it fails.    *)

Load == /\ Types
        /\ openFiles \subseteq Answers
        /\ broken \in BOOLEAN
        /\ ~connected => \A i \in DOMAIN file_list : file_list[i].answer \notin openFiles
        /\ connected /\ file_list # <<>> => listenOut
        /\ ~connected /\ pc = "sendFile" => broken /\ ~listenOut /\ file_list = <<>>
        /\ LeftBytesMatch

LEMMA LoadInit == Init => Load
<1> SUFFICES ASSUME Init PROVE Load
  OBVIOUS
<1>1. file_list = <<>> /\ left_bytes = 0 /\ connected /\ openFiles = {} /\ ~broken /\ broken \in BOOLEAN
  BY DEF Init
<1>2. LeftInFiles(file_list) = 0
  BY <1>1, NoFilesLeft DEF LeftInFiles
<1> QED BY <1>1, <1>2, TypesInit DEF Load, LeftBytesMatch

LEMMA LoadAnswer == Load /\ Answer => Load'
<1> SUFFICES ASSUME Load, Answer PROVE Load'
  OBVIOUS
<1>1. Types' /\ UNCHANGED <<file_list, left_bytes, connected, broken>> /\ connected
  BY TypesAnswer DEF Load, Answer, BeginAnswer, Send
<1>2. listenOut => listenOut'
  BY DEF Answer, Send, Interest, channel
<1>3. openFiles' \subseteq Answers
  BY DEF Load, Answer, BeginAnswer, Opened
<1> QED BY <1>1, <1>2, <1>3 DEF Load, LeftBytesMatch

LEMMA LoadSendFile == Load /\ SendFile => Load'
<1> SUFFICES ASSUME Load, SendFile PROVE Load'
  OBVIOUS
<1> DEFINE n == IF ~listenOut /\ file_list = <<>> THEN Least(File[answer], Space) ELSE 0
           left == File[answer] - n
<1>1. Types /\ Types' /\ connected /\ connected' /\ pc' = "idle" /\ UNCHANGED broken
  <2>1. connected
    BY DEF Load, SendFile
  <2> QED BY <2>1, TypesSendFile DEF Load, SendFile
<1>2. /\ n \in Nat /\ left \in Nat /\ File[answer] \in Nat
      /\ left_bytes' = left_bytes + File[answer] - n
      /\ UnitsIn(file_list') = UnitsIn(file_list) \o Units(2 * answer, left)
      /\ 2 * answer \in Parts /\ file_list \in Seq(Waits)
  BY <1>1, SendFileUnits, LengthsAreNat DEF Types, Queues
<1>3. file_list' = file_list \/ listenOut'
  BY DEF SendFile, Interest
<1>4. openFiles' \subseteq Answers
  BY DEF Load, SendFile
<1>5. file_list' # <<>> => listenOut'
  <2>1. CASE listenOut'
    BY <2>1
  <2>2. CASE ~listenOut'
    <3>1. file_list' = file_list /\ UNCHANGED listenOut
      BY <2>2 DEF SendFile, Interest, channel
    <3> QED BY <1>1, <2>2, <3>1 DEF Load
  <2> QED BY <2>1, <2>2
<1> HIDE DEF n, left
<1>6. LeftInFiles(file_list') = LeftInFiles(file_list) + left
  <2>1. Units(2 * answer, left) \in Seq(Parts) /\ Len(Units(2 * answer, left)) = left
    BY <1>2, UnitsAreParts
  <2>2. UnitsIn(file_list) \in Seq(Parts)
    BY <1>2, UnitType
  <2> QED BY <1>2, <2>1, <2>2, Joined DEF LeftInFiles
<1>7. left_bytes = LeftInFiles(file_list) /\ LeftInFiles(file_list) \in Nat
  BY <1>1, <1>2, UnitType DEF Load, LeftBytesMatch
<1>8. left_bytes' = LeftInFiles(file_list')
  BY <1>2, <1>6, <1>7 DEF left
<1> QED BY <1>1, <1>4, <1>5, <1>8 DEF Load, LeftBytesMatch

LEMMA LoadWriteBuffer == Load /\ WriteBuffer => Load'
<1> SUFFICES ASSUME Load, WriteBuffer PROVE Load'
  OBVIOUS
<1>1. Types' /\ UNCHANGED <<file_list, left_bytes, connected, broken, openFiles, listenOut>> /\ pc' = "files"
  BY TypesWriteBuffer DEF Load, WriteBuffer, channel
<1> QED BY <1>1 DEF Load, LeftBytesMatch

LEMMA LoadProgress == Load /\ FileProgress => Load'
<1> SUFFICES ASSUME Load, FileProgress PROVE Load'
  OBVIOUS
<1> DEFINE n == Least(Head(file_list).left, Space)
<1>1. /\ Types /\ Types' /\ connected /\ connected' /\ UNCHANGED <<broken, listenOut, pc>> /\ listenOut
      /\ left_bytes' = left_bytes - n /\ file_list \in Seq(Waits)
  <2>1. connected /\ file_list # <<>>
    <3>1. file_list # <<>> /\ Head(file_list).answer \in openFiles
      BY DEF FileProgress
    <3>2. 1 \in DOMAIN file_list /\ Head(file_list) = file_list[1]
      BY <3>1 DEF Load, Types, Queues
    <3> QED BY <3>1, <3>2 DEF Load
  <2> QED BY <2>1, TypesProgress DEF Load, FileProgress, channel, Types, Queues
<1>2. openFiles' \subseteq Answers
  BY DEF Load, FileProgress
<1>3. LeftInFiles(file_list') = LeftInFiles(file_list) - n
  BY <1>1, ProgressUnits
<1> HIDE DEF n
<1>4. left_bytes' = LeftInFiles(file_list')
  BY <1>1, <1>3 DEF Load, LeftBytesMatch
<1> QED BY <1>1, <1>2, <1>4 DEF Load, LeftBytesMatch

LEMMA LoadQuiet == Load /\ Quiet => Load'
<1> SUFFICES ASSUME Load, Quiet PROVE Load'
  OBVIOUS
<1>1. Types /\ Types' /\ UNCHANGED <<outBuffer, file_list, wire>> /\ file_list \in Seq(Waits)
  BY TypesQuiet DEF Load, Types, Queues
<1>2. LeftInFiles(file_list) \in Nat
  BY <1>1, UnitType
<1>3. CASE Drain \/ Reset \/ MarkInEpoll \/ WriteWithOther \/ WriteEvent \/ FileBlocked \/ FinishWrite \/ UNCHANGED vars
  <2>1. UNCHANGED <<left_bytes, connected, openFiles>> /\ broken' \in BOOLEAN /\ (broken => broken')
    BY <1>3 DEF Load, Drain, Reset, MarkInEpoll, WriteWithOther, WriteEvent, BeginWrite, FileBlocked, FinishWrite,
                conn, kernel, vars
  <2>2. file_list # <<>> => listenOut' = listenOut
    BY <1>3 DEF Drain, Reset, MarkInEpoll, WriteWithOther, WriteEvent, BeginWrite, FileBlocked, FinishWrite,
                channel, vars
  <2>3. pc' = "sendFile" => pc = "sendFile" /\ UNCHANGED listenOut
    BY <1>3 DEF Drain, Reset, MarkInEpoll, WriteWithOther, WriteEvent, BeginWrite, FileBlocked, FinishWrite,
                channel, vars
  <2> QED BY <1>1, <2>1, <2>2, <2>3 DEF Load, LeftBytesMatch
<1>4. CASE AnswerFails
  <2>1. /\ connected /\ ~connected' /\ broken /\ broken' = broken /\ ~listenOut /\ ~listenOut'
        /\ left_bytes' = left_bytes - LeftInFiles(file_list) /\ file_list = <<>>
    BY <1>4 DEF Load, AnswerFails, BeginAnswer, Waiting, channel, kernel
  <2>2. openFiles' \subseteq Answers
    BY <1>4 DEF Load, AnswerFails, BeginAnswer, Opened
  <2>3. left_bytes' = 0
    BY <1>2, <2>1 DEF Load, LeftBytesMatch
  <2> QED BY <1>1, <2>1, <2>2, <2>3 DEF Load, LeftBytesMatch
<1>5. CASE Close \/ SendFileFails \/ WriteBufferFails \/ FileFails
  <2>1. HandleClose /\ pc' # "sendFile" /\ broken' = broken /\ listenOut' = listenOut
    BY <1>5 DEF Close, SendFileFails, WriteBufferFails, FileFails, channel, kernel
  <2>2. ~connected' /\ openFiles' \subseteq Answers /\ left_bytes' = 0
    BY <1>2, <2>1 DEF HandleClose, Load, LeftBytesMatch
  <2>3. \A i \in DOMAIN file_list : file_list[i].answer \notin openFiles'
    BY <2>1 DEF HandleClose, Load
  <2> QED BY <1>1, <2>1, <2>2, <2>3 DEF Load, LeftBytesMatch
<1> QED BY <1>3, <1>4, <1>5 DEF Quiet

LEMMA LoadNext == Load /\ [Next]_vars => Load'
BY StepCases, LoadAnswer, LoadSendFile, LoadWriteBuffer, LoadProgress, LoadQuiet

LEMMA LoadHolds == Spec => []Load
<1> QED BY LoadInit, LoadNext, PTL DEF Spec

\* The load of a loop counts what is left of the files that wait in it, to the
\* byte, and nothing of a connection that is closed.
THEOREM LoadAlwaysMatches == Spec => []LeftBytesMatch
<1>1. Load => LeftBytesMatch
  BY DEF Load
<1> QED BY <1>1, LoadHolds, PTL

\* Every variable keeps its type, for any answers and any socket buffer.
THEOREM SendPathTyped == Spec => []TypeOK
<1> DEFINE Other == /\ inEpoll \in BOOLEAN /\ kernelOut \in BOOLEAN /\ outEdge \in BOOLEAN
                    /\ noSpace \in BOOLEAN
                    /\ pc \in {"idle", "sendFile", "write", "files", "finish"}
<1>1. Init => Other
  BY DEF Init
<1>2. Load /\ Other /\ [Next]_vars => Other'
  <2> SUFFICES ASSUME Load, Other, [Next]_vars PROVE Other'
    OBVIOUS
  <2>1. listenOut \in BOOLEAN /\ connected \in BOOLEAN
    BY DEF Load, Types, Flags
  <2>2. CASE Answer
    BY <2>1, <2>2 DEF Answer, BeginAnswer, Send, Put, Interest, channel
  <2>3. CASE SendFile
    BY <2>1, <2>3 DEF SendFile, Put, Interest, channel
  <2>4. CASE WriteBuffer \/ FileProgress
    BY <2>4 DEF WriteBuffer, FileProgress, Put, channel
  <2>5. CASE Quiet
    <3>1. CASE Drain \/ Reset \/ MarkInEpoll \/ AnswerFails \/ UNCHANGED vars
      BY <3>1 DEF Drain, Reset, MarkInEpoll, AnswerFails, BeginAnswer, channel, kernel, vars
    <3>2. CASE WriteWithOther \/ WriteEvent \/ FileBlocked
      BY <3>2 DEF WriteWithOther, WriteEvent, BeginWrite, FileBlocked, channel
    <3>3. CASE FinishWrite
      BY <2>1, <3>3 DEF FinishWrite, Interest, channel
    <3>4. CASE Close \/ SendFileFails \/ WriteBufferFails \/ FileFails
      BY <3>4 DEF Close, SendFileFails, WriteBufferFails, FileFails, channel, kernel
    <3> QED BY <2>5, <3>1, <3>2, <3>3, <3>4 DEF Quiet
  <2> QED BY <2>2, <2>3, <2>4, <2>5, StepCases
<1>3. Load /\ Other => TypeOK
  <2> SUFFICES ASSUME Load, Other PROVE TypeOK
    OBVIOUS
  <2>1. left_bytes \in Int
    BY UnitType DEF Load, LeftBytesMatch, Types, Queues
  <2> QED BY <2>1 DEF Load, Types, Queues, Flags, Counts, Waits, TypeOK
<1> HIDE DEF Other
<1> QED BY <1>1, <1>2, <1>3, LoadHolds, PTL DEF Spec

-----------------------------------------------------------------------------
(* Nothing lost.  While the connection is open, what is on the wire and in   *)
(* memory of a part is all of it from the moment send or sendFile has it,    *)
(* and nothing before.                                                       *)

Expected(part) == IF Submitted(part) THEN SizeOf(part) ELSE 0
Complete == Load /\ NothingLost

LEMMA Sizes ==
  ASSUME NEW r \in Answers
  PROVE  SizeOf(2 * r - 1) = Message[r] /\ SizeOf(2 * r) = File[r]
<1>1. r \in Nat
  BY Lengths
<1>2. /\ (2 * r - 1) % 2 = 1 /\ ((2 * r - 1) + 1) \div 2 = r
      /\ (2 * r) % 2 = 0 /\ (2 * r) \div 2 = r
  BY <1>1
<1> QED BY <1>2 DEF SizeOf

LEMMA KindsOfSize == ASSUME NEW part \in Parts PROVE SizeOf(part) \in Nat
<1>1. CASE part % 2 = 1
  <2>1. (part + 1) \div 2 \in Answers
    BY <1>1, Lengths DEF Parts
  <2> QED BY <1>1, <2>1, LengthsAreNat DEF SizeOf
<1>2. CASE part % 2 # 1
  <2>1. part \div 2 \in Answers
    BY <1>2, Lengths DEF Parts
  <2> QED BY <1>2, <2>1, LengthsAreNat DEF SizeOf
<1> QED BY <1>1, <1>2

\* Before and after: each part gains what is added to it.
LEMMA CountsKept ==
  ASSUME Complete, connected,
         NEW part \in Parts, NEW gain \in Nat,
         \A p \in Parts : Expected(p)' = Expected(p) + (IF p = part THEN gain ELSE 0),
         \A p \in Parts : (OnWire(p) + InMemory(p))' = OnWire(p) + InMemory(p) + (IF p = part THEN gain ELSE 0)
  PROVE  NothingLost'
<1>1. \A p \in Parts : OnWire(p) + InMemory(p) = Expected(p)
  BY DEF Complete, NothingLost, Expected
<1>2. \A p \in Parts : OnWire(p)' + InMemory(p)' = Expected(p)'
  BY <1>1
<1> QED BY <1>2 DEF NothingLost, Expected

LEMMA CountsAre ==
  ASSUME Types, NEW p
  PROVE  /\ Occurrences(p, wire) \in Nat /\ Occurrences(p, outBuffer) \in Nat
         /\ Occurrences(p, UnitsIn(file_list)) \in Nat
BY OccurrencesType, UnitType DEF Types, Queues

LEMMA CompleteAnswer == Complete /\ Answer => NothingLost'
<1> SUFFICES ASSUME Complete, Answer PROVE NothingLost'
  OBVIOUS
<1> DEFINE r == answer + 1
           size == Message[r]
           n == IF Waiting THEN 0 ELSE Least(size, Space)
           part == 2 * r - 1
<1>1. /\ Types /\ connected /\ pc = "idle" /\ r \in Answers /\ answer' = r /\ file_list' = file_list
      /\ pc' = IF File[r] > 0 THEN "sendFile" ELSE "idle"
      /\ outBuffer' = outBuffer \o Units(part, size - n)
      /\ outBuffer \in Seq(Parts) /\ wire \in Seq(Parts) /\ answer \in Nat
  BY DEF Complete, Load, Types, Queues, Counts, Answer, BeginAnswer, Send
<1>2. part \in Parts /\ size \in Nat /\ File[r] \in Nat /\ Space \in Nat
  BY <1>1, LengthsAreNat, SpaceType
<1>3. n \in Nat /\ size - n \in Nat
  <2>1. Least(size, Space) \in Nat /\ Least(size, Space) <= size
    BY <1>2, LeastIsLeast
  <2> QED BY <1>2, <2>1
<1>4. wire' = wire \o Units(part, n)
  <2>1. CASE Waiting
    <3>1. wire' = wire /\ n = 0
      BY <2>1 DEF Answer, Send
    <3>2. Units(part, 0) = <<>> /\ wire \o <<>> = wire
      BY <1>1 DEF Units
    <3> QED BY <3>1, <3>2
  <2>2. CASE ~Waiting
    BY <1>1, <2>2 DEF Answer, Send, Put
  <2> QED BY <2>1, <2>2
<1>5. ASSUME NEW p \in Parts
      PROVE  Expected(p)' = Expected(p) + (IF p = part THEN size ELSE 0)
  <2>1. /\ Submitted(p) <=> p <= 2 * answer
        /\ Submitted(p)' <=> (p <= 2 * r /\ ~(p = 2 * r /\ File[r] > 0))
    BY <1>1 DEF Submitted
  <2>2. p \in Nat /\ SizeOf(p)' = SizeOf(p)
    BY DEF Parts, SizeOf
  <2>3. SizeOf(part) = size /\ SizeOf(2 * r) = File[r]
    BY <1>1, Sizes
  <2>4. CASE p = part
    BY <1>1, <1>2, <2>1, <2>2, <2>3, <2>4 DEF Expected
  <2>5. CASE p = 2 * r
    <3>1. Expected(p) = 0 /\ p # part
      BY <1>1, <2>1, <2>5 DEF Expected
    <3>2. Expected(p)' = 0
      <4>1. CASE File[r] > 0
        BY <2>1, <2>5, <4>1 DEF Expected
      <4>2. CASE ~(File[r] > 0)
        <5>1. SizeOf(p) = 0
          BY <1>2, <2>3, <2>5, <4>2
        <5> QED BY <2>2, <5>1 DEF Expected
      <4> QED BY <4>1, <4>2
    <3> QED BY <3>1, <3>2
  <2>6. CASE p # part /\ p # 2 * r
    <3>1. p <= 2 * answer <=> p <= 2 * r
      BY <1>1, <2>2, <2>6
    <3>2. SizeOf(p) \in Nat
      BY KindsOfSize
    <3> QED BY <2>1, <2>2, <2>6, <3>1, <3>2 DEF Expected
  <2> QED BY <2>4, <2>5, <2>6
<1> HIDE DEF r, n, part, size
<1>6. /\ Units(part, n) \in Seq(Parts) /\ Units(part, size - n) \in Seq(Parts)
  BY <1>2, <1>3, UnitsAreParts
<1>7. ASSUME NEW p \in Parts
      PROVE  (OnWire(p) + InMemory(p))' = OnWire(p) + InMemory(p) + (IF p = part THEN size ELSE 0)
  <2>1. /\ Occurrences(p, wire') = Occurrences(p, wire) + Occurrences(p, Units(part, n))
        /\ Occurrences(p, outBuffer') = Occurrences(p, outBuffer) + Occurrences(p, Units(part, size - n))
    BY <1>1, <1>4, <1>6, OccurrencesJoined
  <2>2. /\ Occurrences(p, Units(part, n)) = IF p = part THEN n ELSE 0
        /\ Occurrences(p, Units(part, size - n)) = IF p = part THEN size - n ELSE 0
    BY <1>2, <1>3, OccurrencesUnits
  <2>3. /\ OnWire(p)' = Occurrences(p, wire')
        /\ InMemory(p)' = Occurrences(p, outBuffer') + Occurrences(p, UnitsIn(file_list))
    BY <1>1 DEF OnWire, InMemory
  <2>4. /\ Occurrences(p, wire) \in Nat /\ Occurrences(p, outBuffer) \in Nat
        /\ Occurrences(p, UnitsIn(file_list)) \in Nat
    BY <1>1, CountsAre
  <2> QED BY <1>2, <1>3, <2>1, <2>2, <2>3, <2>4 DEF OnWire, InMemory
<1> QED BY <1>1, <1>2, <1>5, <1>7, CountsKept

LEMMA CompleteSendFile == Complete /\ SendFile => NothingLost'
<1> SUFFICES ASSUME Complete, SendFile, connected PROVE NothingLost'
  BY DEF NothingLost, SendFile
<1> DEFINE r == answer
           n == IF ~listenOut /\ file_list = <<>> THEN Least(File[r], Space) ELSE 0
           left == File[r] - n
           part == 2 * r
<1>1. /\ Types /\ pc = "sendFile" /\ pc' = "idle" /\ answer' = answer /\ outBuffer' = outBuffer
      /\ outBuffer \in Seq(Parts) /\ wire \in Seq(Parts) /\ file_list \in Seq(Waits) /\ answer \in Nat
  BY DEF Complete, Load, Types, Queues, Counts, SendFile
<1>2. /\ r \in Answers /\ n \in Nat /\ left \in Nat /\ File[r] \in Nat
      /\ wire' = wire \o Units(part, n)
      /\ UnitsIn(file_list') = UnitsIn(file_list) \o Units(part, left)
  BY <1>1, SendFileUnits
<1>3. part \in Parts
  BY <1>2, LengthsAreNat
<1>4. ASSUME NEW p \in Parts
      PROVE  Expected(p)' = Expected(p) + (IF p = part THEN File[r] ELSE 0)
  <2>1. /\ Submitted(p) <=> p <= part /\ p # part
        /\ Submitted(p)' <=> p <= part
    BY <1>1 DEF Submitted
  <2>2. p \in Nat /\ part \in Nat /\ SizeOf(p)' = SizeOf(p)
    BY <1>1 DEF Parts, SizeOf
  <2>3. SizeOf(part) = File[r] /\ SizeOf(p) \in Nat
    BY <1>2, Sizes, KindsOfSize
  <2> QED BY <1>2, <2>1, <2>2, <2>3 DEF Expected
<1> HIDE DEF r, n, left, part
<1>5. Units(part, n) \in Seq(Parts) /\ Units(part, left) \in Seq(Parts) /\ UnitsIn(file_list) \in Seq(Parts)
  BY <1>1, <1>2, <1>3, UnitsAreParts, UnitType
<1>6. ASSUME NEW p \in Parts
      PROVE  (OnWire(p) + InMemory(p))' = OnWire(p) + InMemory(p) + (IF p = part THEN File[r] ELSE 0)
  <2>1. /\ Occurrences(p, wire') = Occurrences(p, wire) + Occurrences(p, Units(part, n))
        /\ Occurrences(p, UnitsIn(file_list')) = Occurrences(p, UnitsIn(file_list)) + Occurrences(p, Units(part, left))
    BY <1>1, <1>2, <1>5, OccurrencesJoined
  <2>2. /\ Occurrences(p, Units(part, n)) = IF p = part THEN n ELSE 0
        /\ Occurrences(p, Units(part, left)) = IF p = part THEN left ELSE 0
    BY <1>2, <1>3, OccurrencesUnits
  <2>3. /\ OnWire(p)' = Occurrences(p, wire')
        /\ InMemory(p)' = Occurrences(p, outBuffer) + Occurrences(p, UnitsIn(file_list'))
    BY <1>1 DEF OnWire, InMemory
  <2>4. /\ Occurrences(p, wire) \in Nat /\ Occurrences(p, outBuffer) \in Nat
        /\ Occurrences(p, UnitsIn(file_list)) \in Nat
    BY <1>1, CountsAre
  <2>5. File[r] = n + left /\ n \in Nat /\ left \in Nat
    BY <1>2 DEF left
  <2>6. /\ OnWire(p) = Occurrences(p, wire)
        /\ InMemory(p) = Occurrences(p, outBuffer) + Occurrences(p, UnitsIn(file_list))
    BY DEF OnWire, InMemory
  <2>7. OnWire(p)' + InMemory(p)' = OnWire(p) + InMemory(p) + (IF p = part THEN File[r] ELSE 0)
    <3>1. CASE p = part
      BY <2>1, <2>2, <2>3, <2>4, <2>5, <2>6, <3>1
    <3>2. CASE p # part
      BY <2>1, <2>2, <2>3, <2>4, <2>5, <2>6, <3>2
    <3> QED BY <3>1, <3>2
  <2> QED BY <2>7
<1> QED BY <1>2, <1>3, <1>4, <1>6, CountsKept

LEMMA CompleteWriteBuffer == Complete /\ WriteBuffer => NothingLost'
<1> SUFFICES ASSUME Complete, WriteBuffer, connected PROVE NothingLost'
  BY DEF NothingLost, WriteBuffer
<1> DEFINE n == Least(Len(outBuffer), Space)
           head == SubSeq(outBuffer, 1, n)
           rest == SubSeq(outBuffer, n + 1, Len(outBuffer))
<1>1. /\ Types /\ pc = "write" /\ pc' = "files" /\ UNCHANGED <<answer, file_list>>
      /\ wire' = wire \o head /\ outBuffer' = rest
      /\ outBuffer \in Seq(Parts) /\ wire \in Seq(Parts) /\ file_list \in Seq(Waits)
  BY DEF Complete, Load, Types, Queues, WriteBuffer
<1>2. n \in Nat /\ n <= Len(outBuffer)
  BY <1>1, SpaceType, LeastIsLeast
<1> HIDE DEF n
<1>3. head \in Seq(Parts) /\ rest \in Seq(Parts) /\ head \o rest = outBuffer
  <2>1. n \in 0 .. Len(outBuffer)
    BY <1>1, <1>2
  <2>2. head \in Seq(Parts) /\ rest \in Seq(Parts)
    BY <1>1, <2>1, Rest
  <2> QED BY <1>1, <2>1, <2>2, HeadAndRest
<1> HIDE DEF head, rest
<1>4. ASSUME NEW p \in Parts
      PROVE  Expected(p)' = Expected(p) /\ (OnWire(p) + InMemory(p))' = OnWire(p) + InMemory(p)
  <2>1. /\ Occurrences(p, wire') = Occurrences(p, wire) + Occurrences(p, head)
        /\ Occurrences(p, outBuffer) = Occurrences(p, head) + Occurrences(p, rest)
    BY <1>1, <1>3, OccurrencesJoined
  <2>2. /\ OnWire(p)' = Occurrences(p, wire')
        /\ InMemory(p)' = Occurrences(p, rest) + Occurrences(p, UnitsIn(file_list))
    BY <1>1 DEF OnWire, InMemory
  <2>3. /\ Occurrences(p, wire) \in Nat /\ Occurrences(p, UnitsIn(file_list)) \in Nat
        /\ Occurrences(p, head) \in Nat /\ Occurrences(p, rest) \in Nat
    BY <1>1, <1>3, CountsAre, OccurrencesType
  <2>4. Expected(p)' = Expected(p)
    BY <1>1 DEF Expected, Submitted, SizeOf
  <2> QED BY <2>1, <2>2, <2>3, <2>4 DEF OnWire, InMemory
<1>5. \A p \in Parts : OnWire(p) + InMemory(p) = Expected(p)
  BY DEF Complete, NothingLost, Expected
<1>6. \A p \in Parts : OnWire(p)' + InMemory(p)' = Expected(p)'
  BY <1>4, <1>5
<1> QED BY <1>6 DEF NothingLost, Expected

LEMMA CompleteProgress == Complete /\ FileProgress => NothingLost'
<1> SUFFICES ASSUME Complete, FileProgress, connected PROVE NothingLost'
  BY DEF NothingLost, FileProgress
<1> DEFINE file == Head(file_list)
           n == Least(file.left, Space)
           part == 2 * file.answer
<1>1. /\ Types /\ UNCHANGED <<answer, outBuffer, pc>> /\ wire' = wire \o Units(part, n)
      /\ outBuffer \in Seq(Parts) /\ wire \in Seq(Parts) /\ file_list \in Seq(Waits)
  BY DEF Complete, Load, Types, Queues, FileProgress, Put
<1>2. n \in Nat /\ part \in Parts
  BY <1>1, ProgressEffect
<1>3. \A p \in Parts : Occurrences(p, UnitsIn(file_list')) =
                  Occurrences(p, UnitsIn(file_list)) - (IF p = part THEN n ELSE 0)
  BY <1>1, ProgressUnits
<1> HIDE DEF n, part
<1>4. ASSUME NEW p \in Parts
      PROVE  Expected(p)' = Expected(p) /\ (OnWire(p) + InMemory(p))' = OnWire(p) + InMemory(p)
  <2>1. Units(part, n) \in Seq(Parts) /\ Occurrences(p, Units(part, n)) = IF p = part THEN n ELSE 0
    BY <1>2, UnitsAreParts, OccurrencesUnits
  <2>2. Occurrences(p, wire') = Occurrences(p, wire) + Occurrences(p, Units(part, n))
    BY <1>1, <2>1, OccurrencesJoined
  <2>3. /\ OnWire(p)' = Occurrences(p, wire')
        /\ InMemory(p)' = Occurrences(p, outBuffer) + Occurrences(p, UnitsIn(file_list'))
    BY <1>1 DEF OnWire, InMemory
  <2>4. /\ Occurrences(p, wire) \in Nat /\ Occurrences(p, outBuffer) \in Nat
        /\ Occurrences(p, UnitsIn(file_list)) \in Nat
    BY <1>1, CountsAre
  <2>5. Expected(p)' = Expected(p)
    BY <1>1 DEF Expected, Submitted, SizeOf
  <2> QED BY <1>2, <1>3, <2>1, <2>2, <2>3, <2>4, <2>5 DEF OnWire, InMemory
<1>5. \A p \in Parts : OnWire(p) + InMemory(p) = Expected(p)
  BY DEF Complete, NothingLost, Expected
<1>6. \A p \in Parts : OnWire(p)' + InMemory(p)' = Expected(p)'
  BY <1>4, <1>5
<1> QED BY <1>6 DEF NothingLost, Expected

\* A failed write closes the connection; all else leaves the units alone.
LEMMA CompleteQuiet == Complete /\ Quiet => NothingLost'
<1> SUFFICES ASSUME Complete, Quiet, connected' PROVE NothingLost'
  BY DEF NothingLost
<1>1. Types /\ UNCHANGED <<outBuffer, file_list, wire>>
  BY TypesQuiet DEF Complete, Load
<1>2. connected /\ UNCHANGED answer /\ (pc = "sendFile" <=> pc' = "sendFile")
  BY DEF Quiet, Drain, Reset, MarkInEpoll, WriteWithOther, WriteEvent, BeginWrite, FileBlocked, FinishWrite,
         AnswerFails, Close, SendFileFails, WriteBufferFails, FileFails, HandleClose, conn, vars
<1>3. \A p \in Parts : UNCHANGED <<OnWire(p), InMemory(p), Expected(p)>>
  BY <1>1, <1>2 DEF OnWire, InMemory, Expected, Submitted, SizeOf
<1>4. \A p \in Parts : OnWire(p) + InMemory(p) = Expected(p)
  BY <1>2 DEF Complete, NothingLost, Expected
<1>5. \A p \in Parts : OnWire(p)' + InMemory(p)' = Expected(p)'
  BY <1>3, <1>4
<1> QED BY <1>5 DEF NothingLost, Expected

LEMMA CompleteInit == Init => Complete
<1> SUFFICES ASSUME Init PROVE NothingLost
  BY LoadInit DEF Complete
<1>1. wire = <<>> /\ outBuffer = <<>> /\ file_list = <<>> /\ answer = 0
  BY DEF Init
<1>2. UnitsIn(file_list) = <<>>
  BY <1>1, NoFilesLeft
<1>3. ASSUME NEW p \in Parts PROVE OnWire(p) + InMemory(p) = IF Submitted(p) THEN SizeOf(p) ELSE 0
  <2>1. OnWire(p) = 0 /\ InMemory(p) = 0 + 0
    BY <1>1, <1>2, OccurrencesNone DEF OnWire, InMemory
  <2>2. ~Submitted(p)
    BY <1>1 DEF Submitted, Parts
  <2> QED BY <2>1, <2>2
<1> QED BY <1>3 DEF NothingLost

\* However the socket splits the messages and the files, each unit is sent once
\* or waits once while the connection is open.
THEOREM NoUnitLost == Spec => []NothingLost
<1>1. Complete /\ [Next]_vars => Complete'
  BY StepCases, LoadNext, CompleteAnswer, CompleteSendFile, CompleteWriteBuffer, CompleteProgress, CompleteQuiet
     DEF Complete
<1>2. Complete => NothingLost
  BY DEF Complete
<1> QED BY <1>1, <1>2, CompleteInit, PTL DEF Spec
=============================================================================
