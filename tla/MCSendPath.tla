----------------------------- MODULE MCSendPath -----------------------------
(* Three answers: a message with a file, a message alone, and a message     *)
(* with a file; the send buffer holds two units, so that every part can be  *)
(* split and can wait behind another.                                       *)
EXTENDS SendPath

\* Buffers of up to four bytes, in every state their indices allow.
B == INSTANCE Buffer WITH Byte <- 0 .. 2, Zero <- 0
SmallBuffers ==
    {b \in [cheapPrepend : 0 .. 2, buffer : BoundedSeq(0 .. 2, 4), reader : 0 .. 4, writer : 0 .. 4] : B!Valid(b)}
Data == BoundedSeq(1 .. 2, 3)

MCMessage == <<1, 3, 1>>
MCFile == <<3, 0, 3>>

\* tcp/Buffer.h: each member function does to the contents of a Buffer what
\* SendPath says of outBuffer_, in every small buffer.
ASSUME BufferIsQueue ==
         /\ \A b \in SmallBuffers, d \in Data :
              LET a == B!AppendBytes(b, d) IN B!Valid(a) /\ B!Contents(a) = B!Contents(b) \o d
         /\ \A b \in SmallBuffers, n \in 0 .. 5 :
              LET a == B!Retrieve(b, n)
              IN  B!Valid(a) /\ B!Contents(a) = SubSeq(B!Contents(b), n + 1, Len(B!Contents(b)))
         /\ \A b \in SmallBuffers, d \in Data :
              Len(d) <= B!PrependableBytes(b) => B!Contents(B!Prepend(b, d)) = d \o B!Contents(b)
         /\ \A b \in SmallBuffers, n \in 0 .. 5 : B!Valid(B!HasWritten(b, n))
         /\ \A n, c \in 0 .. 2 : B!Valid(B!New(n, c)) /\ B!Contents(B!New(n, c)) = <<>>
         /\ \A n \in 0 .. 5, c, d \in Data :
              LET a == B!Swap(B!AppendBytes(B!New(n, 1), c), B!FromString(d))
              IN  B!Contents(a[1]) = d /\ B!Contents(a[2]) = c
         /\ \A d \in Data : B!Valid(B!FromString(d)) /\ B!Contents(B!FromString(d)) = d

=============================================================================
