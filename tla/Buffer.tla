-------------------------------- MODULE Buffer --------------------------------
(***************************************************************************)
(* A Buffer: a vector of bytes and two indices into it.  What is between   *)
(* the indices is its contents; TCPConnection keeps inBuffer_ and          *)
(* outBuffer_ in one each, and the other modules speak of their contents   *)
(* only.  The operators are the member functions: they take the buffer     *)
(* before and give the buffer after.                                       *)
(***************************************************************************)
EXTENDS Integers, Sequences

CONSTANTS Byte,   \* the values of a char
          Zero    \* the one a vector fills itself with

Buffers == [cheapPrepend : Nat, buffer : Seq(Byte), reader : Nat, writer : Nat]

Valid(b) == /\ b \in Buffers
            /\ b.cheapPrepend <= Len(b.buffer)
            /\ b.reader <= b.writer /\ b.writer <= Len(b.buffer)

New(initSize, cheapPrepend) ==
    [cheapPrepend |-> cheapPrepend, buffer |-> [i \in 1 .. initSize + cheapPrepend |-> Zero],
     reader |-> cheapPrepend, writer |-> cheapPrepend]

FromString(str) == [cheapPrepend |-> 0, buffer |-> str, reader |-> 0, writer |-> Len(str)]

ReadableBytes(b) == b.writer - b.reader
WritableBytes(b) == Len(b.buffer) - b.writer
PrependableBytes(b) == b.reader

\* toString, and what peek points to.
Contents(b) == SubSeq(b.buffer, b.reader + 1, b.writer)

RetrieveAll(b) == [b EXCEPT !.reader = b.cheapPrepend, !.writer = b.cheapPrepend]

Retrieve(b, len) == IF len < ReadableBytes(b) THEN [b EXCEPT !.reader = @ + len] ELSE RetrieveAll(b)

\* swap: cheapPrepend is a const member and stays.
Takes(a, b) == [a EXCEPT !.buffer = b.buffer, !.reader = b.reader, !.writer = b.writer]
Swap(a, b) == <<Takes(a, b), Takes(b, a)>>

\* vector::resize and std::copy.
Resized(v, n) == [i \in 1 .. n |-> IF i <= Len(v) THEN v[i] ELSE Zero]
Copied(v, at, data) ==
    [i \in DOMAIN v |-> IF at < i /\ i <= at + Len(data) THEN data[i - at] ELSE v[i]]

\* Room at the end: the vector grows, unless what has been read leaves enough
\* room in front to move the contents there.
Grows(b, len) == WritableBytes(b) + PrependableBytes(b) < len + b.cheapPrepend

MakeSpace(b, len) ==
    IF Grows(b, len)
      THEN [b EXCEPT !.buffer = Resized(@, b.writer + len)]
      ELSE [b EXCEPT !.buffer = Copied(@, b.cheapPrepend, Contents(b)),
                     !.reader = b.cheapPrepend,
                     !.writer = b.cheapPrepend + ReadableBytes(b)]

EnsureWritableBytes(b, len) == IF WritableBytes(b) < len THEN MakeSpace(b, len) ELSE b

AppendBytes(b, data) ==
    LET room == EnsureWritableBytes(b, Len(data)) IN
    [room EXCEPT !.buffer = Copied(@, room.writer, data), !.writer = @ + Len(data)]

HasWritten(b, len) == IF len > WritableBytes(b) THEN b ELSE [b EXCEPT !.writer = @ + len]

Prepend(b, data) ==
    [b EXCEPT !.reader = @ - Len(data), !.buffer = Copied(@, b.reader - Len(data), data)]
=============================================================================
