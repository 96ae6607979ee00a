----------------------------- MODULE InputProofs -----------------------------
(***************************************************************************)
(* What a connection reads.  A Buffer is a queue of bytes: its member      *)
(* functions do to its contents what SendPath and HTTPContext say of       *)
(* outBuffer_ and inBuffer_.  And the parser never loses its place in      *)
(* them, whatever they are and however they are cut into pieces: at every  *)
(* place it is as far as RequestReader is with the whole text, so that it  *)
(* answers the requests that were sent, each as soon as it is there.       *)
(***************************************************************************)
EXTENDS RequestReader, Buffer, SequenceLemmas

LEMMA ValidFacts ==
  ASSUME NEW b, Valid(b)
  PROVE  /\ b = [cheapPrepend |-> b.cheapPrepend, buffer |-> b.buffer, reader |-> b.reader, writer |-> b.writer]
         /\ b.cheapPrepend \in Nat /\ b.reader \in Nat /\ b.writer \in Nat /\ b.buffer \in Seq(Byte)
         /\ Len(b.buffer) \in Nat
         /\ b.cheapPrepend <= Len(b.buffer) /\ b.reader <= b.writer /\ b.writer <= Len(b.buffer)
BY DEF Valid, Buffers

LEMMA ContentsFacts ==
  ASSUME NEW b, Valid(b)
  PROVE  /\ Contents(b) \in Seq(Byte) /\ Len(Contents(b)) = ReadableBytes(b) /\ ReadableBytes(b) \in Nat
         /\ \A i \in 1 .. ReadableBytes(b) : Contents(b)[i] = b.buffer[b.reader + i]
BY ValidFacts DEF Contents, ReadableBytes

LEMMA CopiedFacts ==
  ASSUME NEW v \in Seq(Byte), NEW bytes \in Seq(Byte), NEW at \in Nat, at + Len(bytes) <= Len(v)
  PROVE  /\ Copied(v, at, bytes) \in Seq(Byte) /\ Len(Copied(v, at, bytes)) = Len(v)
         /\ \A i \in 1 .. Len(bytes) : Copied(v, at, bytes)[at + i] = bytes[i]
         /\ \A i \in 1 .. Len(v) : i <= at \/ i > at + Len(bytes) => Copied(v, at, bytes)[i] = v[i]
BY DEF Copied

LEMMA ResizedFacts ==
  ASSUME NEW v \in Seq(Byte), NEW n \in Nat, Zero \in Byte
  PROVE  /\ Resized(v, n) \in Seq(Byte) /\ Len(Resized(v, n)) = n
         /\ \A i \in 1 .. n : i <= Len(v) => Resized(v, n)[i] = v[i]
BY DEF Resized

\* ensureWritableBytes: afterwards there is room, and the contents are what they
\* were, whether the vector has grown or they have been moved to its front.
THEOREM SpaceIsMade ==
  ASSUME NEW b, Valid(b), NEW len \in Nat, Zero \in Byte
  PROVE  LET room == EnsureWritableBytes(b, len)
         IN  Valid(room) /\ Contents(room) = Contents(b) /\ WritableBytes(room) >= len
<1> DEFINE room == EnsureWritableBytes(b, len)
           held == ReadableBytes(b)
<1>1. /\ b.cheapPrepend \in Nat /\ b.reader \in Nat /\ b.writer \in Nat /\ b.buffer \in Seq(Byte)
      /\ Len(b.buffer) \in Nat
      /\ b.cheapPrepend <= Len(b.buffer) /\ b.reader <= b.writer /\ b.writer <= Len(b.buffer)
      /\ b = [cheapPrepend |-> b.cheapPrepend, buffer |-> b.buffer, reader |-> b.reader, writer |-> b.writer]
  BY ValidFacts
<1>2. /\ Contents(b) \in Seq(Byte) /\ Len(Contents(b)) = held /\ held \in Nat
      /\ \A i \in 1 .. held : Contents(b)[i] = b.buffer[b.reader + i]
  BY ContentsFacts
<1>3. CASE WritableBytes(b) >= len
  BY <1>1, <1>3 DEF EnsureWritableBytes, WritableBytes
<1>4. CASE WritableBytes(b) < len /\ Grows(b, len)
  <2> DEFINE v == Resized(b.buffer, b.writer + len)
  <2>1. b.writer + len \in Nat /\ b.writer + len > Len(b.buffer)
    BY <1>1, <1>4 DEF WritableBytes
  <2>2. v \in Seq(Byte) /\ Len(v) = b.writer + len /\ \A i \in 1 .. Len(b.buffer) : v[i] = b.buffer[i]
    <3>1. v \in Seq(Byte) /\ Len(v) = b.writer + len /\ \A i \in 1 .. b.writer + len : i <= Len(b.buffer) => v[i] = b.buffer[i]
      BY <1>1, <2>1, ResizedFacts
    <3>2. \A i \in 1 .. Len(b.buffer) : i \in 1 .. b.writer + len /\ i <= Len(b.buffer)
      BY <1>1, <2>1
    <3> QED BY <3>1, <3>2
  <2> HIDE DEF v
  <2>3. room = [cheapPrepend |-> b.cheapPrepend, buffer |-> v, reader |-> b.reader, writer |-> b.writer]
    BY <1>1, <1>4 DEF EnsureWritableBytes, MakeSpace, v
  <2>4. Valid(room) /\ WritableBytes(room) = len
    BY <1>1, <2>1, <2>2, <2>3 DEF Valid, Buffers, WritableBytes
  <2>5. /\ Contents(room) \in Seq(Byte) /\ Len(Contents(room)) = held
        /\ \A i \in 1 .. held : Contents(room)[i] = v[b.reader + i]
    BY <2>3, <2>4, ContentsFacts DEF ReadableBytes
  <2>6. \A i \in 1 .. held : v[b.reader + i] = b.buffer[b.reader + i]
    BY <1>1, <2>2 DEF ReadableBytes
  <2>7. Contents(room) = Contents(b)
    BY <1>2, <2>5, <2>6, SameElements
  <2> QED BY <2>4, <2>7
<1>5. CASE WritableBytes(b) < len /\ ~Grows(b, len)
  <2> DEFINE v == Copied(b.buffer, b.cheapPrepend, Contents(b))
             w == b.cheapPrepend + held
  <2>1. w \in Nat /\ w + len <= Len(b.buffer)
    BY <1>1, <1>2, <1>5 DEF Grows, WritableBytes, PrependableBytes, ReadableBytes
  <2>2. /\ v \in Seq(Byte) /\ Len(v) = Len(b.buffer)
        /\ \A i \in 1 .. held : v[b.cheapPrepend + i] = Contents(b)[i]
    <3>1. b.cheapPrepend + Len(Contents(b)) <= Len(b.buffer)
      BY <1>1, <1>2, <2>1
    <3> QED BY <1>1, <1>2, <3>1, CopiedFacts
  <2> HIDE DEF v, held
  <2>3. room = [cheapPrepend |-> b.cheapPrepend, buffer |-> v, reader |-> b.cheapPrepend, writer |-> w]
    BY <1>1, <1>5 DEF EnsureWritableBytes, MakeSpace, v, held
  <2>4. Valid(room) /\ WritableBytes(room) >= len
    BY <1>1, <1>2, <2>1, <2>2, <2>3 DEF Valid, Buffers, WritableBytes
  <2>5. /\ Contents(room) \in Seq(Byte) /\ Len(Contents(room)) = held
        /\ \A i \in 1 .. held : Contents(room)[i] = v[b.cheapPrepend + i]
    <3>1. ReadableBytes(room) = held
      BY <1>1, <1>2, <2>3 DEF ReadableBytes
    <3> QED BY <2>3, <2>4, <3>1, ContentsFacts
  <2>6. Contents(room) = Contents(b)
    BY <1>2, <2>2, <2>5, SameElements
  <2> QED BY <2>4, <2>6
<1>6. WritableBytes(b) >= len \/ WritableBytes(b) < len
  BY <1>1 DEF WritableBytes
<1> QED BY <1>3, <1>4, <1>5, <1>6

\* In the branch that moves, the contents go strictly towards the front, as
\* std::copy requires of ranges that overlap.
THEOREM MovesToTheFront ==
  ASSUME NEW b, Valid(b), NEW len \in Nat, WritableBytes(b) < len, ~Grows(b, len)
  PROVE  b.cheapPrepend < b.reader
BY ValidFacts DEF Grows, WritableBytes, PrependableBytes

\* append: the contents are followed by the data.
THEOREM AppendAppends ==
  ASSUME NEW b, Valid(b), NEW bytes \in Seq(Byte), Zero \in Byte
  PROVE  Valid(AppendBytes(b, bytes)) /\ Contents(AppendBytes(b, bytes)) = Contents(b) \o bytes
<1> DEFINE room == EnsureWritableBytes(b, Len(bytes))
           v == Copied(room.buffer, room.writer, bytes)
           after == AppendBytes(b, bytes)
           held == ReadableBytes(room)
<1>1. Valid(room) /\ Contents(room) = Contents(b) /\ WritableBytes(room) >= Len(bytes)
  BY SpaceIsMade
<1> HIDE DEF room
<1>2. /\ room.cheapPrepend \in Nat /\ room.reader \in Nat /\ room.writer \in Nat /\ room.buffer \in Seq(Byte)
      /\ Len(room.buffer) \in Nat /\ Len(bytes) \in Nat
      /\ room.cheapPrepend <= Len(room.buffer) /\ room.reader <= room.writer
      /\ room.writer + Len(bytes) <= Len(room.buffer)
      /\ room = [cheapPrepend |-> room.cheapPrepend, buffer |-> room.buffer, reader |-> room.reader, writer |-> room.writer]
  BY <1>1, ValidFacts DEF WritableBytes
<1>3. /\ v \in Seq(Byte) /\ Len(v) = Len(room.buffer)
      /\ \A i \in 1 .. Len(bytes) : v[room.writer + i] = bytes[i]
      /\ \A i \in 1 .. Len(room.buffer) : i <= room.writer => v[i] = room.buffer[i]
  BY <1>2, CopiedFacts
<1> HIDE DEF v
<1>4. after = [cheapPrepend |-> room.cheapPrepend, buffer |-> v, reader |-> room.reader,
               writer |-> room.writer + Len(bytes)]
  <2>1. after = [room EXCEPT !.buffer = v, !.writer = room.writer + Len(bytes)]
    BY Zenon DEF AppendBytes, room, v
  <2> HIDE DEF after
  <2> QED BY <1>2, <2>1
<1>5. Valid(after) /\ ReadableBytes(after) = held + Len(bytes)
  BY <1>2, <1>3, <1>4 DEF Valid, Buffers, ReadableBytes
<1>6. /\ Contents(room) \in Seq(Byte) /\ Len(Contents(room)) = held /\ held \in Nat
      /\ \A i \in 1 .. held : Contents(room)[i] = room.buffer[room.reader + i]
  BY <1>1, ContentsFacts
<1>7. /\ Contents(after) \in Seq(Byte) /\ Len(Contents(after)) = held + Len(bytes)
      /\ \A i \in 1 .. held + Len(bytes) : Contents(after)[i] = v[room.reader + i]
  BY <1>4, <1>5, ContentsFacts
<1>8. room.reader + held = room.writer
  BY <1>2 DEF ReadableBytes
<1> HIDE DEF after, held
<1>9. \A i \in 1 .. held + Len(bytes) : Contents(after)[i] = (Contents(room) \o bytes)[i]
  <2> TAKE i \in 1 .. held + Len(bytes)
  <2>1. CASE i <= held
    <3>1. i \in 1 .. held /\ room.reader + i \in 1 .. Len(room.buffer) /\ room.reader + i <= room.writer
      BY <1>2, <1>6, <1>8, <2>1
    <3>2. v[room.reader + i] = room.buffer[room.reader + i]
      BY <1>3, <3>1
    <3>3. (Contents(room) \o bytes)[i] = Contents(room)[i]
      BY <1>6, <3>1
    <3> QED BY <1>6, <1>7, <3>1, <3>2, <3>3
  <2>2. CASE i > held
    <3> DEFINE j == i - held
    <3>1. j \in 1 .. Len(bytes) /\ room.reader + i = room.writer + j
      BY <1>2, <1>6, <1>8, <2>2, SMTT(30)
    <3>2. v[room.writer + j] = bytes[j]
      BY <1>3, <3>1
    <3>3. (Contents(room) \o bytes)[i] = bytes[j]
      BY <1>6, <2>2, <3>1
    <3> QED BY <1>7, <3>1, <3>2, <3>3
  <2> QED BY <1>6, <2>1, <2>2
<1>10. Contents(room) \o bytes \in Seq(Byte) /\ Len(Contents(room) \o bytes) = held + Len(bytes)
  BY <1>6
<1>11. Contents(after) = Contents(room) \o bytes
  BY <1>7, <1>9, <1>10, SameElements
<1> QED BY <1>1, <1>5, <1>11 DEF after

\* retrieve: the contents lose their front, or all if there is not more.
THEOREM RetrieveTakesFront ==
  ASSUME NEW b, Valid(b), NEW len \in Nat
  PROVE  /\ Valid(Retrieve(b, len))
         /\ Contents(Retrieve(b, len)) = SubSeq(Contents(b), len + 1, Len(Contents(b)))
<1> DEFINE after == Retrieve(b, len)
           held == ReadableBytes(b)
<1>1. /\ b.cheapPrepend \in Nat /\ b.reader \in Nat /\ b.writer \in Nat /\ b.buffer \in Seq(Byte)
      /\ Len(b.buffer) \in Nat
      /\ b.cheapPrepend <= Len(b.buffer) /\ b.reader <= b.writer /\ b.writer <= Len(b.buffer)
      /\ b = [cheapPrepend |-> b.cheapPrepend, buffer |-> b.buffer, reader |-> b.reader, writer |-> b.writer]
  BY ValidFacts
<1>2. /\ Contents(b) \in Seq(Byte) /\ Len(Contents(b)) = held /\ held \in Nat
      /\ \A i \in 1 .. held : Contents(b)[i] = b.buffer[b.reader + i]
  BY ContentsFacts
<1>3. CASE len < held
  <2>1. after = [cheapPrepend |-> b.cheapPrepend, buffer |-> b.buffer, reader |-> b.reader + len, writer |-> b.writer]
    BY <1>1, <1>3 DEF Retrieve
  <2>2. Valid(after) /\ ReadableBytes(after) = held - len
    BY <1>1, <1>3, <2>1 DEF Valid, Buffers, ReadableBytes
  <2>3. /\ Contents(after) \in Seq(Byte) /\ Len(Contents(after)) = held - len
        /\ \A i \in 1 .. held - len : Contents(after)[i] = b.buffer[b.reader + len + i]
    BY <2>1, <2>2, ContentsFacts
  <2> HIDE DEF held, after
  <2>4. \A i \in 1 .. held - len : len + i \in 1 .. held /\ b.reader + (len + i) = b.reader + len + i
    BY <1>1, <1>2, <1>3
  <2>5. \A i \in 1 .. held - len : Contents(after)[i] = Contents(b)[len + i]
    BY <1>2, <2>3, <2>4
  <2> DEFINE rest == SubSeq(Contents(b), len + 1, Len(Contents(b)))
  <2>6. rest \in Seq(Byte) /\ Len(rest) = held - len /\ \A i \in 1 .. held - len : rest[i] = Contents(b)[len + i]
    BY <1>2, <1>3
  <2> HIDE DEF rest
  <2>7. Contents(after) = rest
    BY <2>3, <2>5, <2>6, SameElements
  <2> QED BY <2>2, <2>7 DEF rest, after
<1>4. CASE ~(len < held)
  <2>1. after = [cheapPrepend |-> b.cheapPrepend, buffer |-> b.buffer, reader |-> b.cheapPrepend, writer |-> b.cheapPrepend]
    BY <1>1, <1>4 DEF Retrieve, RetrieveAll
  <2>2. Valid(after) /\ Contents(after) = <<>>
    BY <1>1, <2>1 DEF Valid, Buffers, Contents
  <2>3. SubSeq(Contents(b), len + 1, Len(Contents(b))) = <<>>
    BY <1>2, <1>4
  <2> QED BY <2>2, <2>3
<1> QED BY <1>3, <1>4

-----------------------------------------------------------------------------
(* The parser.  Its snapshot holds a token with its mark in place, and while *)
(* it waits for the next piece its state is the snapshot's.                  *)

InputInv == /\ TypeOK /\ TokensInOrder
            /\ Marked(snapshot.parseState, snapshot.lastRequest, 0, snapshot.colon,
                      Len(snapshot.lastRequest))
            /\ pc = "idle" => state \in Invalid \cup {snapshot.parseState}

LEMMA InputFacts ==
  ASSUME TypeOK
  PROVE  /\ input.text \in Seq(Char) /\ Len(input.text) \in Nat /\ sent \in 0 .. Len(input.text)
         /\ Len(data) \in Nat /\ start \in Nat /\ cur \in Nat /\ size \in Nat /\ SizeT \in Nat \ {0}
BY HTTPContextAssumption DEF TypeOK, InputType

LEMMA Middle ==
  ASSUME NEW S, NEW s \in Seq(S), NEW from \in Nat, NEW to \in Nat, from <= to, to <= Len(s)
  PROVE  /\ SubSeq(s, from + 1, to) \in Seq(S) /\ Len(SubSeq(s, from + 1, to)) = to - from
         /\ \A i \in 1 .. to - from : SubSeq(s, from + 1, to)[i] = s[from + i]
OBVIOUS

\* What is cut out of the data between two offsets.
LEMMA TokenFacts ==
  ASSUME data \in Seq(Char), NEW from \in Nat, NEW to \in Nat, from <= to, to <= Len(data)
  PROVE  /\ Token(from, to) \in Seq(Char) /\ Len(Token(from, to)) = to - from
         /\ \A i \in 1 .. to - from : Token(from, to)[i] = data[from + i]
BY Middle DEF Token

\* From which state, and on which character, a name's mark or a value is reached.
LEMMA RulesFacts ==
  \A r \in Rules :
    /\ r[3] \in HeadState
    /\ r[3] = "BEFORE_URL_PARAM_VALUE" => r[1] = "URL_PARAM_KEY" /\ r[2] = {"="}
    /\ r[3] = "URL_PARAM_VALUE" => r[1] \in {"BEFORE_URL_PARAM_VALUE", "URL_PARAM_VALUE"}
    /\ r[3] = "BEFORE_HEADER_VALUE" => r[1] = "HEADER_KEY" /\ r[2] = {":"}
    /\ r[3] = "HEADER_VALUE" => \/ r[1] = "BEFORE_HEADER_VALUE" /\ r[2] = Blank
                                \/ r[1] = "HEADER_VALUE"
BY DEF Rules, HeadState

LEMMA AfterFacts ==
  ASSUME NEW s \in HeadState, NEW c
  PROVE  /\ After(s, c) \in HeadState \cup Invalid
         /\ After(s, c) = "BEFORE_URL_PARAM_VALUE" => s = "URL_PARAM_KEY" /\ c = "="
         /\ After(s, c) = "URL_PARAM_VALUE" => s \in {"BEFORE_URL_PARAM_VALUE", "URL_PARAM_VALUE"}
         /\ After(s, c) = "BEFORE_HEADER_VALUE" => s = "HEADER_KEY" /\ c = ":"
         /\ After(s, c) = "HEADER_VALUE" => (s = "BEFORE_HEADER_VALUE" /\ c \in Blank) \/ s = "HEADER_VALUE"
<1>1. CASE {r \in Rules : r[1] = s /\ c \in r[2]} = {}
  <2>1. After(s, c) \in Invalid
    BY <1>1 DEF After, Otherwise, Invalid
  <2> QED BY <2>1 DEF Invalid
<1>2. CASE {r \in Rules : r[1] = s /\ c \in r[2]} # {}
  <2>1. PICK r \in Rules : r[1] = s /\ c \in r[2] /\ After(s, c) = r[3]
    BY <1>2 DEF After
  <2> QED BY <2>1, RulesFacts
<1> QED BY <1>1, <1>2

LEMMA WithFacts ==
  ASSUME NEW map \in SUBSET (Seq(Char) \X Seq(Char)), NEW key \in Seq(Char), NEW value \in Seq(Char)
  PROVE  With(map, key, value) \in SUBSET (Seq(Char) \X Seq(Char))
BY DEF With

\* A token that is complete is between two offsets of the data, in order.
LEMMA FilledFacts ==
  ASSUME InputInv, pc = "parse", NEW to
  PROVE  Filled(state, to) \in Requests
<1>1. /\ request \in Requests /\ data \in Seq(Char) /\ Len(data) \in Nat /\ start \in Nat /\ cur \in Nat
      /\ start <= cur /\ cur <= Len(data) /\ colon \in Int /\ Marked(state, data, start, colon, cur)
  BY InputFacts DEF InputInv, TypeOK, TokensInOrder
<1>2. Token(start, cur) \in Seq(Char)
  BY <1>1, TokenFacts
<1>3. CASE state = "URL_PARAM_VALUE"
  <2>1. colon \in Nat /\ colon + 1 \in Nat /\ start <= colon /\ colon <= Len(data) /\ colon + 1 <= cur
    BY <1>1, <1>3 DEF Marked
  <2>2. Token(start, colon) \in Seq(Char) /\ Token(colon + 1, cur) \in Seq(Char)
    BY <1>1, <2>1, TokenFacts
  <2>3. PICK params : params = With(request.params, Token(start, colon), Token(colon + 1, cur))
    OBVIOUS
  <2>4. params \in SUBSET (Seq(Char) \X Seq(Char))
    BY <1>1, <2>2, <2>3, WithFacts DEF Requests
  <2>5. Filled(state, to) \in {request, [request EXCEPT !.params = params]}
    BY <1>3, <2>3 DEF Filled
  <2> QED BY <1>1, <2>4, <2>5 DEF Requests
<1>4. CASE state = "HEADER_VALUE"
  <2>1. colon \in Nat /\ colon + 2 \in Nat /\ start <= colon /\ colon <= Len(data) /\ colon + 2 <= cur
    <3>1. start <= colon /\ colon + 1 < cur
      BY <1>1, <1>4, Zenon DEF Marked
    <3> QED BY <1>1, <3>1
  <2>2. Token(start, colon) \in Seq(Char) /\ Token(colon + 2, cur) \in Seq(Char)
    BY <1>1, <2>1, TokenFacts
  <2>3. PICK headers : headers = With(request.headers, Token(start, colon), Token(colon + 2, cur))
    OBVIOUS
  <2>4. headers \in SUBSET (Seq(Char) \X Seq(Char))
    BY <1>1, <2>2, <2>3, WithFacts DEF Requests
  <2>5. Filled(state, to) \in {request, [request EXCEPT !.headers = headers]}
    BY <1>4, <2>3 DEF Filled
  <2> QED BY <1>1, <2>4, <2>5 DEF Requests
<1>5. CASE state \notin {"URL_PARAM_VALUE", "HEADER_VALUE"}
  <2>1. PICK t \in Seq(Char) : t = Token(start, cur)
    BY <1>2
  <2>2. Filled(state, to) \in {request, [request EXCEPT !.method = t], [request EXCEPT !.method = <<>>],
                               [request EXCEPT !.url = t], [request EXCEPT !.protocol = t],
                               [request EXCEPT !.version = t]}
    BY <1>5, <2>1 DEF Filled
  <2>3. <<>> \in Seq(Char)
    OBVIOUS
  <2> QED BY <1>1, <2>1, <2>2, <2>3 DEF Requests
<1> QED BY <1>3, <1>4, <1>5

LEMMA InputInit == Init => InputInv
<1> SUFFICES ASSUME Init PROVE InputInv
  OBVIOUS
<1>1. request \in Requests /\ snapshot \in Snapshots /\ Minus1 \in 0 .. SizeT - 1
  BY HTTPContextAssumption DEF Init, NoRequest, Requests, Fresh, Snapshots, HeadState, Minus1
<1>2. TypeOK
  <2>1. input \in Inputs /\ Len(input.text) \in Nat
    BY HTTPContextAssumption DEF Init, InputType
  <2>2. <<>> \in Seq(Char) /\ Len(<<>>) = 0 /\ "START" \in ParseState
    BY DEF ParseState, HeadState
  <2> QED BY <1>1, <2>1, <2>2 DEF Init, TypeOK
<1>3. TokensInOrder /\ snapshot.parseState = "START" /\ Marked("START", snapshot.lastRequest, 0, snapshot.colon, Len(snapshot.lastRequest))
  BY DEF Init, Fresh, TokensInOrder, Marked
<1> QED BY <1>2, <1>3 DEF Init, InputInv

\* A piece arrives: what was kept stands in front of it, with its mark in place.
LEMMA InputArrive == ASSUME InputInv, NEW n \in 1 .. Len(input.text), Arrive(n) PROVE InputInv'
<1>1. PICK new, rest : /\ new = inBuffer \o SubSeq(input.text, sent + 1, sent + n)
                       /\ rest = IF snapshot.parseState = "START" THEN <<>> ELSE snapshot.lastRequest
  OBVIOUS
<1>2. /\ pc = "idle" /\ sent + n <= Len(input.text) /\ sent' = sent + n /\ inBuffer' = <<>> /\ data' = rest \o new
      /\ size' = Len(new) /\ start' = 0 /\ cur' = Len(rest) /\ pc' = "parse"
      /\ colon' = IF snapshot.parseState = "START" THEN 0 ELSE snapshot.colon
      /\ UNCHANGED <<input, state, contentLength, request, snapshot, outcome>>
  BY <1>1 DEF Arrive, MayArrive
<1>3. new \in Seq(Char) /\ rest \in Seq(Char) /\ Len(new) \in Nat /\ Len(rest) \in Nat
  <2>1. input.text \in Seq(Char) /\ sent \in Nat /\ sent + n \in Nat /\ inBuffer \in Seq(Char) /\ snapshot.lastRequest \in Seq(Char)
    BY InputFacts DEF InputInv, TypeOK, Snapshots
  <2>2. SubSeq(input.text, sent + 1, sent + n) \in Seq(Char)
    BY <1>2, <2>1, Middle
  <2>3. new \in Seq(Char)
    BY <1>1, <2>1, <2>2
  <2>4. rest \in Seq(Char)
    BY <1>1, <2>1
  <2> QED BY <2>3, <2>4
<1>4. /\ data' \in Seq(Char) /\ Len(data') = Len(rest) + Len(new)
      /\ \A i \in 1 .. Len(rest) : data'[i] = rest[i]
  BY <1>2, <1>3, Joined
<1>5. TypeOK'
  <2>1. /\ sent' \in 0 .. Len(input'.text) /\ inBuffer' \in Seq(Char) /\ size' \in 0 .. Len(data')
        /\ start' \in 0 .. Len(data') /\ cur' \in 0 .. Len(data') /\ colon' \in Int
    <3>1. sent \in Nat /\ Len(input.text) \in Nat /\ snapshot.colon \in Int /\ <<>> \in Seq(Char)
      BY InputFacts DEF InputInv, TypeOK, Snapshots
    <3>2. sent' \in 0 .. Len(input'.text)
      BY <1>2, <3>1
    <3>3. size' \in 0 .. Len(data') /\ start' \in 0 .. Len(data') /\ cur' \in 0 .. Len(data')
      BY <1>2, <1>3, <1>4
    <3> QED BY <1>2, <3>1, <3>2, <3>3
  <2> QED BY <1>2, <1>4, <2>1 DEF InputInv, TypeOK
<1>6. start' <= cur'
  BY <1>2, <1>3
<1>7. Marked(state, data', start', colon', cur')
  <2>1. CASE state \in Invalid \/ snapshot.parseState = "START"
    BY <1>2, <2>1 DEF InputInv, Marked, Invalid
  <2>2. CASE state = snapshot.parseState /\ snapshot.parseState # "START"
    <3>1. Marked(state, rest, 0, snapshot.colon, Len(rest)) /\ colon' = snapshot.colon /\ snapshot.colon \in Int
      BY <1>1, <1>2, <2>2 DEF InputInv, TypeOK, Snapshots
    <3>2. PICK c \in Int : c = snapshot.colon
      BY <3>1
    <3>3. 0 <= c /\ c < Len(rest) => data'[c + 1] = rest[c + 1]
      BY <1>3, <1>4
    <3>4. 0 <= c /\ c + 1 < Len(rest) => data'[c + 2] = rest[c + 2]
      BY <1>3, <1>4
    <3> QED BY <1>2, <1>3, <3>1, <3>2, <3>3, <3>4 DEF Marked
  <2> QED BY <1>2, <2>1, <2>2 DEF InputInv
<1> QED BY <1>2, <1>5, <1>6, <1>7 DEF InputInv, TokensInOrder

\* A character of the head: a token begins, ends, or gets its mark.
LEMMA InputParseHead == ASSUME InputInv, ParseHead PROVE InputInv'
<1>1. PICK c, to : c = data[cur + 1] /\ to = After(state, c)
  OBVIOUS
<1>2. /\ pc = "parse" /\ state \in HeadState /\ cur < Len(data) /\ state' = to /\ request' = Filled(state, to)
      /\ start' = IF <<state, to>> \in BeginsHere THEN cur
                  ELSE IF <<state, to>> \in BeginsNext THEN cur + 1 ELSE start
      /\ colon' = IF <<state, to>> \in Colons THEN cur ELSE colon
      /\ cur' = cur + 1
      /\ UNCHANGED <<stream, inBuffer, contentLength, snapshot, pc, data, size, outcome>>
  BY <1>1 DEF ParseHead, At
<1>3. /\ start \in Nat /\ cur \in Nat /\ Len(data) \in Nat /\ colon \in Int /\ start <= cur
      /\ Marked(state, data, start, colon, cur)
  BY <1>2, InputFacts DEF InputInv, TypeOK, TokensInOrder
<1>4. start' \in Nat /\ start' <= cur' /\ cur' <= Len(data) /\ colon' \in Int
  BY <1>2, <1>3
<1>5. TypeOK'
  <2>1. request' \in Requests
    BY <1>2, FilledFacts
  <2>2. state' \in ParseState
    BY <1>1, <1>2, AfterFacts DEF ParseState
  <2> QED BY <1>2, <1>3, <1>4, <2>1, <2>2 DEF InputInv, TypeOK, stream
<1>6. /\ to = "BEFORE_URL_PARAM_VALUE" => state = "URL_PARAM_KEY" /\ c = "="
      /\ to = "URL_PARAM_VALUE" => state \in {"BEFORE_URL_PARAM_VALUE", "URL_PARAM_VALUE"}
      /\ to = "BEFORE_HEADER_VALUE" => state = "HEADER_KEY" /\ c = ":"
      /\ to = "HEADER_VALUE" => (state = "BEFORE_HEADER_VALUE" /\ c \in Blank) \/ state = "HEADER_VALUE"
  <2>1. state \in HeadState
    BY <1>2
  <2> QED BY <1>1, <2>1, AfterFacts
<1>7. Marked(to, data, start', colon', cur')
  <2>1. CASE to \in {"BEFORE_URL_PARAM_VALUE", "BEFORE_HEADER_VALUE"}
    <3>1. c = (IF to = "BEFORE_URL_PARAM_VALUE" THEN "=" ELSE ":") /\ <<state, to>> \in Colons
      BY <1>6, <2>1 DEF Colons
    <3>2. start' = start
      BY <1>2, <2>1 DEF BeginsHere, BeginsNext
    <3>3. colon' = cur /\ cur' = cur + 1 /\ data[colon' + 1] = c /\ start' <= colon' /\ colon' < cur' /\ colon' + 1 = cur'
      <4>1. colon' = cur /\ cur' = cur + 1
        BY <1>2, <3>1
      <4>2. data[colon' + 1] = c
        BY <1>1, <4>1, Zenon
      <4> QED BY <1>3, <3>2, <4>1, <4>2
    <3> QED BY <2>1, <3>1, <3>3 DEF Marked
  <2>2. CASE to \in {"URL_PARAM_VALUE", "HEADER_VALUE"}
    <3>1. start' = start /\ colon' = colon
      BY <1>2, <2>2 DEF BeginsHere, BeginsNext, Colons
    <3>2. CASE to = "URL_PARAM_VALUE"
      <4>1. state \in {"BEFORE_URL_PARAM_VALUE", "URL_PARAM_VALUE"}
        BY <1>6, <3>2
      <4> QED BY <1>2, <1>3, <3>1, <3>2, <4>1 DEF Marked
    <3>3. CASE to = "HEADER_VALUE"
      <4>1. (state = "BEFORE_HEADER_VALUE" /\ c \in Blank) \/ state = "HEADER_VALUE"
        BY <1>6, <3>3
      <4>2. CASE state = "BEFORE_HEADER_VALUE" /\ c \in Blank
        <5>1. start <= colon /\ colon + 1 = cur /\ data[colon + 1] = ":"
          BY <1>3, <4>2, Zenon DEF Marked
        <5>2. data[colon + 2] \in Blank
          BY <1>1, <1>3, <4>2, <5>1
        <5> QED BY <1>2, <1>3, <3>1, <3>3, <5>1, <5>2 DEF Marked
      <4>3. CASE state = "HEADER_VALUE"
        BY <1>2, <1>3, <3>1, <3>3, <4>3 DEF Marked
      <4> QED BY <4>1, <4>2, <4>3
    <3> QED BY <2>2, <3>2, <3>3
  <2>3. CASE to \notin {"BEFORE_URL_PARAM_VALUE", "BEFORE_HEADER_VALUE", "URL_PARAM_VALUE", "HEADER_VALUE"}
    BY <2>3 DEF Marked
  <2> QED BY <2>1, <2>2, <2>3
<1> QED BY <1>2, <1>4, <1>5, <1>7 DEF InputInv, TokensInOrder

\* Whatever Content-Length says, contentLength_ is a size_t.
LEMMA LengthFacts ==
  ASSUME TypeOK
  PROVE  LengthOf(request.headers) \in 0 .. SizeT - 1
<1>1. \A k \in Int : k % SizeT \in 0 .. SizeT - 1
  BY HTTPContextAssumption
<1>2. CASE \E h \in request.headers : h[1] = ContentLength
  <2>1. PICK h \in request.headers : h = CHOOSE g \in request.headers : g[1] = ContentLength
    BY <1>2
  <2>2. \A v : Atoi(v) \in Int
    BY DEF Atoi, Digit
  <2>3. LengthOf(request.headers) = Atoi(h[2]) % SizeT
    BY <1>2, <2>1 DEF LengthOf
  <2> QED BY <1>1, <2>2, <2>3
<1>3. CASE ~ \E h \in request.headers : h[1] = ContentLength
  BY <1>3 DEF LengthOf, TypeOK
<1> QED BY <1>2, <1>3

\* A state in which no name and no value is read.
LEMMA Unmarked ==
  ASSUME NEW s, s \notin {"BEFORE_URL_PARAM_VALUE", "URL_PARAM_VALUE", "BEFORE_HEADER_VALUE", "HEADER_VALUE"},
         NEW text, NEW from, NEW mark, NEW to
  PROVE  Marked(s, text, from, mark, to)
BY DEF Marked

LEMMA InputEndOfHead == ASSUME InputInv, EndOfHead PROVE InputInv'
<1>1. PICK length : length = LengthOf(request.headers)
  OBVIOUS
<1>2. /\ pc = "parse" /\ state = "CR_LF_CR" /\ cur < Len(data) /\ cur' = cur + 1
      /\ state' \in {"BODY", "COMPLETE", "INVALID_CRLF"}
      /\ contentLength' \in {contentLength, length} /\ start' \in {start, cur + 1}
      /\ UNCHANGED <<stream, inBuffer, request, snapshot, pc, data, size, colon, outcome>>
  BY <1>1 DEF EndOfHead, At
<1>3. length \in 0 .. SizeT - 1
  BY <1>1, LengthFacts DEF InputInv
<1>4. start \in Nat /\ cur \in Nat /\ Len(data) \in Nat /\ start <= cur
  BY InputFacts DEF InputInv, TypeOK, TokensInOrder
<1>5. start' \in 0 .. Len(data) /\ cur' \in 0 .. Len(data) /\ start' <= cur'
  BY <1>2, <1>4
<1>6. TypeOK'
  BY <1>2, <1>3, <1>5 DEF InputInv, TypeOK, stream, ParseState, Invalid
<1>7. Marked(state', data', start', colon', cur')
  BY <1>2, Unmarked
<1> QED BY <1>2, <1>5, <1>6, <1>7 DEF InputInv, TokensInOrder

\* Where the process ends it ends in a body: no token was being read.
LEMMA InputTerminates ==
  ASSUME InputInv, Terminates, UNCHANGED <<stream, snapshot, data, size, start, colon, outcome>>
  PROVE  InputInv'
BY DEF InputInv, TypeOK, TokensInOrder, Terminates, stream

LEMMA LeftFacts == ASSUME TypeOK PROVE Left \in Nat
BY InputFacts DEF Left

LEMMA BodyGrows ==
  ASSUME NEW q \in Requests, NEW piece \in Seq(Char)
  PROVE  [q EXCEPT !.body = @ \o piece] \in Requests
<1>1. q.body \o piece \in Seq(Char)
  BY DEF Requests
<1> QED BY <1>1 DEF Requests

LEMMA InputBodyGoesOn == ASSUME InputInv, BodyGoesOn PROVE InputInv'
<1>1. CASE start + Left <= Len(data)
  <2>1. PICK left, piece : left = Left /\ piece = Token(start, start + Left)
    OBVIOUS
  <2>2. /\ pc = "parse" /\ state = "BODY" /\ contentLength > left /\ contentLength' = contentLength - left
        /\ request' = [request EXCEPT !.body = @ \o piece] /\ cur' = Len(data)
        /\ UNCHANGED <<inBuffer, state, pc, stream, snapshot, data, size, start, colon, outcome>>
    BY <1>1, <2>1 DEF BodyGoesOn, At
  <2>3. left \in Nat /\ start \in Nat /\ Len(data) \in Nat /\ start + left <= Len(data) /\ data \in Seq(Char)
        /\ contentLength \in 0 .. SizeT - 1 /\ SizeT \in Nat
    BY <1>1, <2>1, InputFacts, LeftFacts DEF InputInv, TypeOK
  <2>4. piece \in Seq(Char)
    BY <2>1, <2>3, TokenFacts
  <2>5. request' \in Requests
    BY <2>2, <2>4, BodyGrows DEF InputInv, TypeOK
  <2>6. contentLength' \in 0 .. SizeT - 1 /\ cur' \in 0 .. Len(data) /\ start <= cur'
    BY <2>2, <2>3
  <2>7. TypeOK'
    BY <2>2, <2>5, <2>6 DEF InputInv, TypeOK, stream
  <2>8. Marked(state', data', start', colon', cur')
    BY <2>2, Unmarked
  <2> QED BY <2>2, <2>6, <2>7, <2>8 DEF InputInv, TokensInOrder
<1>2. CASE ~(start + Left <= Len(data))
  BY <1>2, InputTerminates DEF BodyGoesOn
<1> QED BY <1>1, <1>2

LEMMA InputBodyEnds == ASSUME InputInv, BodyEnds PROVE InputInv'
<1>1. CASE start + Left <= Len(data)
  <2>1. PICK left, extra : left = Left /\ extra = Token(start + contentLength, start + Left)
    OBVIOUS
  <2>2. PICK memory : memory = IF InPlace THEN extra \o Token(Len(extra), Len(data)) ELSE data
    OBVIOUS
  <2>3. PICK piece : piece = SubSeq(memory, start + 1, start + contentLength)
    OBVIOUS
  <2>4. /\ pc = "parse" /\ state = "BODY" /\ cur < Len(data) /\ contentLength <= left /\ state' = "COMPLETE"
        /\ inBuffer' = extra /\ request' = [request EXCEPT !.body = @ \o piece] /\ cur' = cur + 1
        /\ UNCHANGED <<contentLength, pc, stream, snapshot, data, size, start, colon, outcome>>
    BY <1>1, <2>1, <2>2, <2>3 DEF BodyEnds, At
  <2>5. left \in Nat /\ start \in Nat /\ cur \in Nat /\ Len(data) \in Nat /\ start + left <= Len(data) /\ data \in Seq(Char)
        /\ contentLength \in Nat /\ contentLength <= left /\ start <= cur
    BY <1>1, <2>1, <2>4, InputFacts, LeftFacts DEF InputInv, TypeOK, TokensInOrder
  <2>6. extra \in Seq(Char) /\ Len(extra) = left - contentLength /\ Len(extra) \in Nat /\ Len(extra) <= Len(data)
    <3>1. start + contentLength \in Nat /\ start + left \in Nat /\ start + contentLength <= start + left
      BY <2>5
    <3>2. extra \in Seq(Char) /\ Len(extra) = (start + left) - (start + contentLength)
      BY <2>1, <2>5, <3>1, TokenFacts
    <3> QED BY <2>5, <3>2
  <2>7. memory \in Seq(Char) /\ Len(memory) = Len(data)
    <3>1. PICK rest : rest = Token(Len(extra), Len(data))
      OBVIOUS
    <3>2. rest \in Seq(Char) /\ Len(rest) = Len(data) - Len(extra)
      <4>1. Len(data) <= Len(data)
        BY <2>5
      <4> QED BY <2>5, <2>6, <3>1, <4>1, TokenFacts
    <3>3. extra \o rest \in Seq(Char) /\ Len(extra \o rest) = Len(extra) + Len(rest)
      BY <2>6, <3>2, Joined
    <3>4. Len(extra \o rest) = Len(data)
      BY <2>5, <2>6, <3>2, <3>3
    <3> QED BY <2>2, <2>5, <3>1, <3>3, <3>4
  <2>8. piece \in Seq(Char)
    <3>1. start + contentLength \in Nat /\ start <= start + contentLength /\ start + contentLength <= Len(memory)
      BY <2>4, <2>5, <2>7
    <3> QED BY <2>3, <2>5, <2>7, <3>1, Middle
  <2>9. request' \in Requests
    BY <2>4, <2>8, BodyGrows DEF InputInv, TypeOK
  <2>10. cur' \in 0 .. Len(data) /\ start <= cur'
    BY <2>4, <2>5
  <2>11. TypeOK'
    BY <2>4, <2>6, <2>9, <2>10 DEF InputInv, TypeOK, stream, ParseState
  <2>12. Marked(state', data', start', colon', cur')
    BY <2>4, Unmarked
  <2> QED BY <2>4, <2>10, <2>11, <2>12 DEF InputInv, TokensInOrder
<1>2. CASE ~(start + Left <= Len(data))
  BY <1>2, InputTerminates DEF BodyEnds
<1> QED BY <1>1, <1>2

\* The request is not complete: what is kept is the token, with its mark counted
\* from where the token begins.
LEMMA InputUnfinished == ASSUME InputInv, Unfinished PROVE InputInv'
<1>1. /\ pc = "parse" /\ cur = Len(data) /\ state \in HeadState \cup {"BODY"} /\ snapshot' = Snapshot /\ pc' = "idle"
      /\ UNCHANGED <<stream, inBuffer, state, contentLength, request, pointers, outcome>>
  BY DEF Unfinished, Stopped, InputInv, TypeOK, ParseState
<1>2. /\ data \in Seq(Char) /\ Len(data) \in Nat /\ start \in Nat /\ cur \in Nat /\ colon \in Int /\ start <= cur
      /\ Marked(state, data, start, colon, cur)
  BY <1>1, InputFacts DEF InputInv, TypeOK, TokensInOrder
<1>3. CASE state = "BODY"
  <2>1. snapshot' = [parseState |-> "BODY", lastRequest |-> <<>>, colon |-> 0]
    BY <1>1, <1>3 DEF Snapshot
  <2>2. snapshot' \in Snapshots /\ snapshot'.parseState = "BODY"
    BY <2>1 DEF Snapshots
  <2>3. Marked("BODY", snapshot'.lastRequest, 0, snapshot'.colon, Len(snapshot'.lastRequest))
    BY Unmarked
  <2> QED BY <1>1, <1>2, <1>3, <2>2, <2>3 DEF InputInv, TypeOK, TokensInOrder, stream, pointers
<1>4. CASE state # "BODY"
  <2>1. PICK token, c : token = Token(start, cur) /\ c = IF colon # 0 THEN colon - start ELSE 0
    OBVIOUS
  <2>2. snapshot' = [parseState |-> state, lastRequest |-> token, colon |-> c]
    BY <1>1, <1>4, <2>1 DEF Snapshot
  <2>3. token \in Seq(Char) /\ Len(token) = cur - start /\ \A i \in 1 .. cur - start : token[i] = data[start + i]
    <3>1. cur <= Len(data)
      BY <1>1, <1>2
    <3> QED BY <1>2, <2>1, <3>1, TokenFacts
  <2>4. c \in Int /\ snapshot' \in Snapshots
    BY <1>1, <1>2, <1>4, <2>1, <2>2, <2>3 DEF Snapshots
  <2>5. start <= colon => c = colon - start /\ colon \in Nat
    BY <1>2, <2>1
  <2>6. start <= colon /\ colon < cur => 0 <= c /\ c < Len(token) /\ token[c + 1] = data[colon + 1]
    BY <1>2, <2>3, <2>5
  <2>7. start <= colon /\ colon + 1 < cur => c + 1 < Len(token) /\ token[c + 2] = data[colon + 2]
    BY <1>2, <2>3, <2>5
  <2>8. start <= colon /\ colon + 1 = cur => c + 1 = Len(token)
    BY <1>2, <2>3, <2>5
  <2>9. Marked(state, token, 0, c, Len(token))
    BY <1>2, <2>6, <2>7, <2>8 DEF Marked
  <2> QED BY <1>1, <1>2, <1>4, <2>2, <2>4, <2>9 DEF InputInv, TypeOK, TokensInOrder, stream, pointers
<1> QED BY <1>3, <1>4

LEMMA InputComplete == ASSUME InputInv, Complete PROVE InputInv'
<1>1. NoRequest \in Requests /\ Minus1 \in 0 .. SizeT - 1
  BY HTTPContextAssumption DEF NoRequest, Requests, Minus1
<1>2. snapshot' = [snapshot EXCEPT !.parseState = "START"] /\ snapshot \in Snapshots
  BY DEF Complete, InputInv, TypeOK
<1>3. snapshot' \in Snapshots /\ snapshot'.parseState = "START"
  BY <1>2 DEF Snapshots, HeadState
<1>4. Marked("START", snapshot'.lastRequest, 0, snapshot'.colon, Len(snapshot'.lastRequest))
  BY Unmarked
<1>5. TypeOK' /\ TokensInOrder' /\ state' = "START"
  BY <1>1, <1>3 DEF Complete, InputInv, TypeOK, TokensInOrder, stream, pointers, ParseState, HeadState
<1> QED BY <1>3, <1>4, <1>5 DEF InputInv

LEMMA InputError == ASSUME InputInv, Error PROVE InputInv'
BY DEF Error, InputInv, TypeOK, TokensInOrder, stream, pointers

LEMMA InputNext == InputInv /\ [Next]_vars => InputInv'
<1> SUFFICES ASSUME InputInv, [Next]_vars PROVE InputInv'
  OBVIOUS
<1>1. CASE UNCHANGED vars
  BY <1>1 DEF vars, stream, pointers, InputInv, TypeOK, TokensInOrder
<1> QED BY <1>1, InputArrive, InputParseHead, InputEndOfHead, InputBodyGoesOn, InputBodyEnds, InputUnfinished,
           InputComplete, InputError DEF Next

LEMMA InputHolds == Spec => []InputInv
BY InputInit, InputNext, PTL DEF Spec

\* Whatever a peer sends and however it is cut into pieces, the parser's pointers
\* stay within the data, the length of a body within a size_t, and everything it
\* puts in the request, the snapshot and inBuffer_ is made of characters of the
\* data (HTTP-Context.cc 82-402).
THEOREM InputTyped == Spec => []TypeOK
<1>1. InputInv => TypeOK
  BY DEF InputInv
<1> QED BY <1>1, InputHolds, PTL

\* And it finds the name, the mark and the value of a parameter or a header where
\* it left them in an earlier piece (HTTP-Context.cc 97-115, 379-388).
THEOREM TokensAlwaysInOrder == Spec => []TokensInOrder
<1>1. InputInv => TokensInOrder
  BY DEF InputInv
<1> QED BY <1>1, InputHolds, PTL

-----------------------------------------------------------------------------
(* The reader of a whole text.  Where it reads a value it has the mark, with *)
(* a blank behind it in a header, within the token.                          *)

Sound(a) == /\ a \in Readings
            /\ a.state \in {"BEFORE_URL_PARAM_VALUE", "URL_PARAM_VALUE", "BEFORE_HEADER_VALUE"} =>
                 a.mark < Len(a.token)
            /\ a.state = "HEADER_VALUE" => a.mark + 1 < Len(a.token)
            /\ a.state = "BODY" => a.left > 0

LEMMA NewRequestSound ==
  ASSUME NEW parsed \in Seq(Results)
  PROVE  Sound(NewRequest(parsed)) /\ NewRequest(parsed).parsed = parsed /\ NewRequest(parsed).state = "START"
<1>1. NoRequest \in Requests /\ <<>> \in Seq(Char) /\ 0 \in 0 .. SizeT - 1
  BY HTTPContextAssumption DEF NoRequest, Requests
<1> QED BY <1>1 DEF Sound, NewRequest, Readings, HeadState

LEMMA ReadingFields ==
  ASSUME NEW a \in Readings
  PROVE  /\ a.state \in HeadState \cup {"BODY"} \cup Invalid /\ a.request \in Requests /\ a.token \in Seq(Char)
         /\ a.mark \in Nat /\ a.left \in 0 .. SizeT - 1 /\ a.parsed \in Seq(Results) /\ Len(a.token) \in Nat
         /\ Len(a.parsed) \in Nat
BY DEF Readings

LEMMA OneMore ==
  ASSUME NEW a \in Readings, NEW q \in Requests, NEW s \in Invalid \cup {"COMPLETE"}
  PROVE  Append(a.parsed, [status |-> s, request |-> q]) \in Seq(Results)
<1>1. [status |-> s, request |-> q] \in Results
  BY DEF Results
<1> QED BY <1>1, ReadingFields

LEMMA AnsweredSound ==
  ASSUME NEW a \in Readings, NEW q \in Requests
  PROVE  /\ Sound(Answered(a, q))
         /\ Answered(a, q).parsed = Append(a.parsed, [status |-> "COMPLETE", request |-> q])
         /\ Answered(a, q).state = "START"
BY OneMore, NewRequestSound DEF Answered

LEMMA RefusedSound ==
  ASSUME NEW a \in Readings, NEW error \in Invalid
  PROVE  /\ Sound(Refused(a, error))
         /\ Refused(a, error).parsed = Append(a.parsed, [status |-> error, request |-> NoRequest])
         /\ Refused(a, error).state = error
<1>1. NoRequest \in Requests
  BY DEF NoRequest, Requests
<1>2. PICK p \in Seq(Results) : p = Append(a.parsed, [status |-> error, request |-> NoRequest])
  BY <1>1, OneMore
<1>3. Refused(a, error) = [a EXCEPT !.state = error, !.parsed = p]
  BY <1>2 DEF Refused
<1>4. Refused(a, error) \in Readings /\ Refused(a, error).parsed = p /\ Refused(a, error).state = error
  BY <1>3 DEF Readings
<1> QED BY <1>2, <1>4 DEF Sound, Invalid

LEMMA BodyLengthFacts ==
  ASSUME NEW q
  PROVE  BodyLength(q) \in 0 .. SizeT - 1
<1>1. \A k \in Int : k % SizeT \in 0 .. SizeT - 1
  BY HTTPContextAssumption
<1>2. \A v : Atoi(v) \in Int
  BY DEF Atoi, Digit
<1>3. 0 \in 0 .. SizeT - 1
  BY HTTPContextAssumption
<1>4. CASE HasLength(q)
  BY <1>1, <1>2, <1>4 DEF BodyLength
<1>5. CASE ~HasLength(q)
  BY <1>3, <1>5 DEF BodyLength
<1> QED BY <1>4, <1>5

LEMMA WithTokenFacts ==
  ASSUME NEW a, Sound(a), NEW to
  PROVE  WithToken(a, to) \in Requests
<1>1. a.request \in Requests /\ a.token \in Seq(Char) /\ a.mark \in Nat /\ Len(a.token) \in Nat
  BY ReadingFields DEF Sound
<1>2. <<>> \in Seq(Char)
  OBVIOUS
<1>3. CASE a.state = "URL_PARAM_VALUE"
  <2>1. a.mark < Len(a.token)
    BY <1>3 DEF Sound
  <2>2. SubSeq(a.token, 1, a.mark) \in Seq(Char) /\ SubSeq(a.token, a.mark + 1 + 1, Len(a.token)) \in Seq(Char)
    BY <1>1, <2>1
  <2>3. PICK params : params = Named(a.request.params, a, 1)
    OBVIOUS
  <2>4. params \in SUBSET (Seq(Char) \X Seq(Char))
    BY <1>1, <2>2, <2>3, WithFacts DEF Requests, Named
  <2>5. WithToken(a, to) \in {a.request, [a.request EXCEPT !.params = params]}
    BY <1>3, <2>3 DEF WithToken
  <2> QED BY <1>1, <2>4, <2>5 DEF Requests
<1>4. CASE a.state = "HEADER_VALUE"
  <2>1. a.mark + 1 < Len(a.token)
    BY <1>4 DEF Sound
  <2>2. SubSeq(a.token, 1, a.mark) \in Seq(Char) /\ SubSeq(a.token, a.mark + 2 + 1, Len(a.token)) \in Seq(Char)
    BY <1>1, <2>1
  <2>3. PICK headers : headers = Named(a.request.headers, a, 2)
    OBVIOUS
  <2>4. headers \in SUBSET (Seq(Char) \X Seq(Char))
    BY <1>1, <2>2, <2>3, WithFacts DEF Requests, Named
  <2>5. WithToken(a, to) \in {a.request, [a.request EXCEPT !.headers = headers]}
    BY <1>4, <2>3 DEF WithToken
  <2> QED BY <1>1, <2>4, <2>5 DEF Requests
<1>5. CASE a.state \notin {"URL_PARAM_VALUE", "HEADER_VALUE"}
  <2>1. PICK t \in Seq(Char) : t = a.token
    BY <1>1
  <2>2. WithToken(a, to) \in {a.request, [a.request EXCEPT !.method = t], [a.request EXCEPT !.method = <<>>],
                              [a.request EXCEPT !.url = t], [a.request EXCEPT !.protocol = t],
                              [a.request EXCEPT !.version = t]}
    BY <1>5, <2>1 DEF WithToken
  <2> QED BY <1>1, <1>2, <2>1, <2>2 DEF Requests
<1> QED BY <1>3, <1>4, <1>5

\* One character of a head.
LEMMA ReadHeadSound ==
  ASSUME NEW a, Sound(a), NEW c \in Char, a.state \in HeadState \ {"CR_LF_CR"}
  PROVE  /\ Sound(ReadHead(a, c))
         /\ After(a.state, c) \notin Invalid =>
              /\ ReadHead(a, c).state = After(a.state, c) /\ ReadHead(a, c).parsed = a.parsed
              /\ ReadHead(a, c).request = WithToken(a, After(a.state, c))
              /\ ReadHead(a, c).token = TokenWith(a, c, After(a.state, c))
              /\ ReadHead(a, c).mark = IF <<a.state, After(a.state, c)>> \in Colons THEN Len(a.token) ELSE a.mark
         /\ After(a.state, c) \in Invalid => ReadHead(a, c) = Refused(a, After(a.state, c))
<1>1. PICK to : to = After(a.state, c)
  OBVIOUS
<1>2. a \in Readings /\ a.token \in Seq(Char) /\ a.mark \in Nat /\ Len(a.token) \in Nat /\ a.state \in HeadState
  BY ReadingFields DEF Sound
<1>3. /\ to \in HeadState \cup Invalid
      /\ to = "BEFORE_URL_PARAM_VALUE" => a.state = "URL_PARAM_KEY"
      /\ to = "URL_PARAM_VALUE" => a.state \in {"BEFORE_URL_PARAM_VALUE", "URL_PARAM_VALUE"}
      /\ to = "BEFORE_HEADER_VALUE" => a.state = "HEADER_KEY"
      /\ to = "HEADER_VALUE" => a.state \in {"BEFORE_HEADER_VALUE", "HEADER_VALUE"}
  BY <1>1, <1>2, AfterFacts
<1>4. CASE to \in Invalid
  BY <1>1, <1>2, <1>4, RefusedSound DEF ReadHead
<1>5. CASE to \notin Invalid
  <2> DEFINE mark == IF <<a.state, to>> \in Colons THEN Len(a.token) ELSE a.mark
             token == TokenWith(a, c, to)
  <2>1. ReadHead(a, c) = [a EXCEPT !.state = to, !.request = WithToken(a, to), !.token = token, !.mark = mark]
    BY <1>1, <1>5 DEF ReadHead
  <2>2. WithToken(a, to) \in Requests /\ to \in HeadState
    BY <1>3, <1>5, WithTokenFacts
  <2>3. token \in {<<c>>, <<>>, Append(a.token, c)} /\ <<c>> \in Seq(Char) /\ <<>> \in Seq(Char)
        /\ Append(a.token, c) \in Seq(Char) /\ Len(Append(a.token, c)) = Len(a.token) + 1
    BY <1>2 DEF TokenWith
  <2>4. token \in Seq(Char) /\ mark \in Nat
    BY <1>2, <2>3
  <2>5. CASE to \in {"BEFORE_URL_PARAM_VALUE", "BEFORE_HEADER_VALUE"}
    <3>1. token = Append(a.token, c)
      BY <1>3, <2>5 DEF TokenWith, BeginsHere, BeginsNext
    <3>2. mark = Len(a.token)
      BY <1>3, <2>5 DEF Colons
    <3>3. mark < Len(token)
      BY <1>2, <2>3, <3>1, <3>2
    <3> QED BY <1>1, <1>2, <1>5, <2>1, <2>2, <2>4, <2>5, <3>3 DEF Sound, Readings
  <2>6. CASE to \in {"URL_PARAM_VALUE", "HEADER_VALUE"}
    <3>1. token = Append(a.token, c)
      BY <1>3, <2>6 DEF TokenWith, BeginsHere, BeginsNext
    <3>2. mark = a.mark
      BY <1>3, <2>6 DEF Colons
    <3>3. a.mark < Len(a.token) /\ (to = "HEADER_VALUE" /\ a.state = "HEADER_VALUE" => a.mark + 1 < Len(a.token))
      BY <1>2, <1>3, <2>6 DEF Sound
    <3>4. mark < Len(token) /\ mark + 1 < Len(token)
      BY <1>2, <2>3, <3>1, <3>2, <3>3
    <3> QED BY <1>1, <1>2, <1>5, <2>1, <2>2, <2>4, <2>6, <3>4 DEF Sound, Readings
  <2>7. CASE to \notin {"BEFORE_URL_PARAM_VALUE", "BEFORE_HEADER_VALUE", "URL_PARAM_VALUE", "HEADER_VALUE"}
    <3>1. to # "BODY"
      BY <2>2 DEF HeadState
    <3> QED BY <1>1, <1>2, <1>5, <2>1, <2>2, <2>4, <2>7, <3>1 DEF Sound, Readings
  <2> QED BY <2>5, <2>6, <2>7
<1> QED BY <1>4, <1>5

\* The last character of a head.
LEMMA ReadEndOfHeadSound ==
  ASSUME NEW a, Sound(a), NEW c \in Char
  PROVE  /\ Sound(ReadEndOfHead(a, c))
         /\ c # LF => ReadEndOfHead(a, c) = Refused(a, "INVALID_CRLF")
         /\ c = LF /\ BodyLength(a.request) = 0 => ReadEndOfHead(a, c) = Answered(a, a.request)
         /\ c = LF /\ BodyLength(a.request) # 0 =>
              /\ ReadEndOfHead(a, c).state = "BODY" /\ ReadEndOfHead(a, c).left = BodyLength(a.request)
              /\ ReadEndOfHead(a, c).parsed = a.parsed /\ ReadEndOfHead(a, c).request = a.request
<1>1. a \in Readings /\ a.request \in Requests
  BY ReadingFields DEF Sound
<1>2. BodyLength(a.request) \in 0 .. SizeT - 1
  BY BodyLengthFacts
<1>3. CASE c # LF
  <2>1. "INVALID_CRLF" \in Invalid
    BY DEF Invalid
  <2> QED BY <1>1, <1>3, <2>1, RefusedSound DEF ReadEndOfHead
<1>4. CASE c = LF /\ BodyLength(a.request) = 0
  BY <1>1, <1>4, AnsweredSound DEF ReadEndOfHead
<1>5. CASE c = LF /\ BodyLength(a.request) # 0
  <2>1. PICK n \in 0 .. SizeT - 1 : n = BodyLength(a.request)
    BY <1>2
  <2>2. ReadEndOfHead(a, c) = [a EXCEPT !.state = "BODY", !.left = n] /\ n > 0
    BY <1>5, <2>1, HTTPContextAssumption DEF ReadEndOfHead
  <2> QED BY <1>1, <1>5, <2>1, <2>2 DEF Sound, Readings
<1> QED BY <1>3, <1>4, <1>5

\* A character of a body.
LEMMA ReadBodySound ==
  ASSUME NEW a, Sound(a), NEW c \in Char, a.state = "BODY"
  PROVE  LET q == [a.request EXCEPT !.body = Append(@, c)]
         IN  /\ q \in Requests /\ Sound(ReadBody(a, c))
             /\ a.left = 1 => ReadBody(a, c) = Answered(a, q)
             /\ a.left # 1 => ReadBody(a, c) = [a EXCEPT !.request = q, !.left = @ - 1]
<1>1. a \in Readings /\ a.request \in Requests /\ a.left \in 0 .. SizeT - 1 /\ a.left > 0
  BY ReadingFields DEF Sound
<1>2. PICK q : q = [a.request EXCEPT !.body = Append(@, c)]
  OBVIOUS
<1>3. q \in Requests
  <2>1. Append(a.request.body, c) \in Seq(Char)
    BY <1>1 DEF Requests
  <2> QED BY <1>1, <1>2, <2>1 DEF Requests
<1>4. CASE a.left = 1
  BY <1>1, <1>2, <1>3, <1>4, AnsweredSound DEF ReadBody
<1>5. CASE a.left # 1
  <2>1. ReadBody(a, c) = [a EXCEPT !.request = q, !.left = @ - 1]
    BY <1>2, <1>5 DEF ReadBody
  <2>2. a.left - 1 \in 0 .. SizeT - 1 /\ a.left - 1 > 0
    BY <1>1, <1>5, HTTPContextAssumption
  <2> QED BY <1>1, <1>2, <1>3, <1>5, <2>1, <2>2 DEF Sound, Readings
<1> QED BY <1>4, <1>5

\* One character, whatever is being read.
LEMMA ReadSound ==
  ASSUME NEW a, Sound(a), NEW c \in Char
  PROVE  /\ Sound(Read(a, c))
         /\ a.state \in Invalid => Read(a, c) = a
         /\ \/ Read(a, c).parsed = a.parsed
            \/ \E x \in Results : Read(a, c).parsed = Append(a.parsed, x)
<1>1. a \in Readings /\ a.state \in HeadState \cup {"BODY"} \cup Invalid /\ a.request \in Requests
  BY ReadingFields DEF Sound
<1>2. ASSUME NEW q \in Requests PROVE [status |-> "COMPLETE", request |-> q] \in Results
  BY DEF Results
<1>3. ASSUME NEW s \in Invalid PROVE [status |-> s, request |-> NoRequest] \in Results
  BY DEF Results, NoRequest, Requests
<1>4. CASE a.state = "BODY"
  <2>1. Read(a, c) = ReadBody(a, c)
    BY <1>4 DEF Read, HeadState
  <2>2. PICK q \in Requests : /\ Sound(ReadBody(a, c))
                              /\ a.left = 1 => ReadBody(a, c) = Answered(a, q)
                              /\ a.left # 1 => ReadBody(a, c) = [a EXCEPT !.request = q, !.left = @ - 1]
    BY <1>4, ReadBodySound
  <2>3. CASE a.left = 1
    <3>1. /\ ReadBody(a, c).parsed = Append(a.parsed, [status |-> "COMPLETE", request |-> q])
          /\ [status |-> "COMPLETE", request |-> q] \in Results
      BY <1>1, <1>2, <2>2, <2>3, AnsweredSound
    <3> QED BY <1>4, <2>1, <2>2, <3>1 DEF Invalid
  <2>4. CASE a.left # 1
    <3>1. ReadBody(a, c).parsed = a.parsed
      BY <1>1, <2>2, <2>4 DEF Readings
    <3> QED BY <1>4, <2>1, <2>2, <3>1 DEF Invalid
  <2> QED BY <2>3, <2>4
<1>5. CASE a.state = "CR_LF_CR"
  <2>1. Read(a, c) = ReadEndOfHead(a, c)
    BY <1>5 DEF Read
  <2>2. "INVALID_CRLF" \in Invalid /\ "CR_LF_CR" \notin Invalid
    BY DEF Invalid
  <2>3. Sound(ReadEndOfHead(a, c))
    BY ReadEndOfHeadSound
  <2>4. CASE c # LF
    <3>1. ReadEndOfHead(a, c).parsed = Append(a.parsed, [status |-> "INVALID_CRLF", request |-> NoRequest])
      BY <1>1, <2>2, <2>4, ReadEndOfHeadSound, RefusedSound
    <3> QED BY <1>3, <1>5, <2>1, <2>2, <2>3, <3>1
  <2>5. CASE c = LF /\ BodyLength(a.request) = 0
    <3>1. ReadEndOfHead(a, c).parsed = Append(a.parsed, [status |-> "COMPLETE", request |-> a.request])
      BY <1>1, <2>5, ReadEndOfHeadSound, AnsweredSound
    <3> QED BY <1>1, <1>2, <1>5, <2>1, <2>2, <2>3, <3>1
  <2>6. CASE c = LF /\ BodyLength(a.request) # 0
    <3>1. ReadEndOfHead(a, c).parsed = a.parsed
      BY <2>6, ReadEndOfHeadSound
    <3> QED BY <1>5, <2>1, <2>2, <2>3, <3>1
  <2> QED BY <2>4, <2>5, <2>6
<1>6. CASE a.state \in HeadState \ {"CR_LF_CR"}
  <2>1. Read(a, c) = ReadHead(a, c)
    BY <1>6 DEF Read, HeadState
  <2>2. a.state \notin Invalid
    BY <1>6 DEF HeadState, Invalid
  <2>3. Sound(ReadHead(a, c))
    BY <1>6, ReadHeadSound
  <2>4. CASE After(a.state, c) \notin Invalid
    <3>1. ReadHead(a, c).parsed = a.parsed
      BY <1>6, <2>4, ReadHeadSound
    <3> QED BY <2>1, <2>2, <2>3, <3>1
  <2>5. CASE After(a.state, c) \in Invalid
    <3>1. ReadHead(a, c).parsed = Append(a.parsed, [status |-> After(a.state, c), request |-> NoRequest])
      <4>1. ReadHead(a, c) = Refused(a, After(a.state, c))
        BY <1>6, <2>5, ReadHeadSound
      <4> QED BY <1>1, <2>5, <4>1, RefusedSound
    <3> QED BY <1>3, <2>1, <2>2, <2>3, <2>5, <3>1
  <2> QED BY <2>4, <2>5
<1>7. CASE a.state \in Invalid
  BY <1>7 DEF Read, HeadState, Invalid
<1> QED BY <1>1, <1>4, <1>5, <1>6, <1>7

\* The reader is what its recursion says.
LEMMA ReadingRecursion ==
  ASSUME NEW text \in Seq(Char)
  PROVE  /\ Reading(text)[0] = NewRequest(<<>>)
         /\ \A n \in 0 .. Len(text) : Sound(Reading(text)[n])
         /\ \A n \in 0 .. Len(text) - 1 : Reading(text)[n + 1] = Read(Reading(text)[n], text[n + 1])
<1> DEFINE S == {a \in Readings : Sound(a)}
           N == Len(text)
           base == NewRequest(<<>>)
           step == [p \in S \X Nat |-> IF p[2] + 1 \in 1 .. N THEN Read(p[1], text[p[2] + 1]) ELSE p[1]]
           Is(h) == h = [n \in 0 .. Len(text) |-> IF n = 0 THEN NewRequest(<<>>) ELSE Read(h[n - 1], text[n])]
           result == CHOOSE h : Is(h)
<1>1. N \in Nat /\ \A n \in 1 .. N : text[n] \in Char
  OBVIOUS
<1>2. base \in S
  <2>1. <<>> \in Seq(Results)
    OBVIOUS
  <2> QED BY <2>1, NewRequestSound DEF Sound
<1>3. step \in [S \X Nat -> S]
  <2>1. ASSUME NEW a \in S, NEW i \in Nat, i + 1 \in 1 .. N PROVE Read(a, text[i + 1]) \in S
    BY <1>1, <2>1, ReadSound DEF Sound
  <2> QED BY <2>1
<1>4. PICK f \in [0 .. N -> S] : f[0] = base /\ \A i \in 0 .. N - 1 : f[i + 1] = step[<<f[i], i>>]
  <2> HIDE DEF S, base, step
  <2>1. \E f \in [0 .. N -> S] : Computes(f, base, step, N)
    BY <1>1, <1>2, <1>3, FiniteRecursion
  <2> QED BY <2>1 DEF Computes
<1>5. ASSUME NEW i \in 0 .. N - 1 PROVE f[i + 1] = Read(f[i], text[i + 1])
  <2>1. i \in Nat /\ i + 1 \in 1 .. N /\ f[i] \in S
    BY <1>1, <1>4
  <2>2. step[<<f[i], i>>] = Read(f[i], text[i + 1])
    BY <2>1
  <2> QED BY <1>4, <2>2
<1>6. Is(f)
  <2>1. ASSUME NEW n \in 0 .. N, n # 0 PROVE f[n] = Read(f[n - 1], text[n])
    <3>1. n - 1 \in 0 .. N - 1 /\ (n - 1) + 1 = n
      BY <1>1, <2>1
    <3> QED BY <1>5, <3>1
  <2> HIDE DEF S
  <2> QED BY <1>1, <1>4, <2>1
<1>7. Is(result)
  <2> HIDE DEF Is
  <2> QED BY <1>6
<1>8. Reading(text) = result
  BY DEF Reading
<1> HIDE DEF result
<1>9. result[0] = base /\ \A n \in 0 .. N - 1 : result[n + 1] = Read(result[n], text[n + 1])
  <2>1. ASSUME NEW n \in 0 .. N - 1 PROVE result[n + 1] = Read(result[n], text[n + 1])
    <3>1. n + 1 \in 0 .. N /\ n + 1 # 0 /\ (n + 1) - 1 = n
      BY <1>1
    <3> QED BY <1>7, <3>1
  <2> QED BY <1>1, <1>7, <2>1
<1>10. ASSUME NEW n \in 0 .. N PROVE Sound(result[n])
  <2> DEFINE P == {i \in Nat : i <= N => Sound(result[i])}
  <2>1. 0 \in P
    BY <1>2, <1>9
  <2>2. ASSUME NEW i \in P PROVE i + 1 \in P
    <3>1. CASE i + 1 <= N
      <4>1. i \in 0 .. N - 1 /\ i + 1 \in 1 .. N /\ Sound(result[i])
        BY <1>1, <3>1
      <4>2. Sound(Read(result[i], text[i + 1]))
        BY <1>1, <4>1, ReadSound
      <4>3. Sound(result[i + 1])
        BY <1>9, <4>1, <4>2
      <4> QED BY <4>3
    <3> QED BY <3>1
  <2>3. P = Nat
    <3>1. P \in SUBSET Nat
      OBVIOUS
    <3> HIDE DEF P
    <3> QED BY <2>1, <2>2, <3>1, SetInduction
  <2> QED BY <1>1, <2>3
<1> QED BY <1>8, <1>9, <1>10

\* A request that was read stays read, and behind what is none nothing changes.
LEMMA ReadStaysRead ==
  ASSUME NEW text \in Seq(Char), NEW n \in 0 .. Len(text), NEW m \in 0 .. Len(text), n <= m
  PROVE  LET a == Reading(text)[n] b == Reading(text)[m]
         IN  /\ Len(a.parsed) <= Len(b.parsed)
             /\ \A r \in 1 .. Len(a.parsed) : b.parsed[r] = a.parsed[r]
             /\ a.state \in Invalid => b = a
<1> DEFINE R(i) == Reading(text)[i]
           Kept(i) == /\ Len(R(n).parsed) <= Len(R(i).parsed)
                      /\ \A r \in 1 .. Len(R(n).parsed) : R(i).parsed[r] = R(n).parsed[r]
                      /\ R(n).state \in Invalid => R(i) = R(n)
           P == {i \in Nat : n + i <= Len(text) => Kept(n + i)}
<1>1. Len(text) \in Nat /\ n \in Nat
  OBVIOUS
<1>2. \A i \in 0 .. Len(text) : R(i).parsed \in Seq(Results) /\ Len(R(i).parsed) \in Nat
  BY ReadingRecursion, ReadingFields DEF Sound
<1>3. 0 \in P
  <2>1. Kept(n)
    BY <1>2
  <2>2. n + 0 = n
    BY <1>1
  <2> HIDE DEF Kept
  <2> QED BY <2>1, <2>2
<1>4. ASSUME NEW i \in P, n + (i + 1) <= Len(text) PROVE Kept(n + (i + 1))
  <2>1. PICK k : k = n + i
    OBVIOUS
  <2>2. k \in 0 .. Len(text) - 1 /\ k \in 0 .. Len(text) /\ k + 1 \in 0 .. Len(text) /\ n + (i + 1) = k + 1 /\ text[k + 1] \in Char
    BY <1>1, <1>4, <2>1
  <2>3. Kept(k)
    <3> HIDE DEF Kept
    <3> QED BY <1>1, <2>1, <2>2
  <2>4. R(k + 1) = Read(R(k), text[k + 1]) /\ Sound(R(k))
    BY <2>2, ReadingRecursion
  <2>5. /\ R(k).state \in Invalid => R(k + 1) = R(k)
        /\ R(k + 1).parsed = R(k).parsed \/ \E x \in Results : R(k + 1).parsed = Append(R(k).parsed, x)
    BY <2>2, <2>4, ReadSound
  <2>6. Len(R(k).parsed) <= Len(R(k + 1).parsed) /\ \A r \in 1 .. Len(R(k).parsed) : R(k + 1).parsed[r] = R(k).parsed[r]
    <3>1. PICK p \in Seq(Results) : p = R(k).parsed
      BY <1>2, <2>2
    <3>2. \A x \in Results : Len(Append(p, x)) = Len(p) + 1 /\ \A r \in 1 .. Len(p) : Append(p, x)[r] = p[r]
      OBVIOUS
    <3>3. Len(p) \in Nat
      BY <3>1
    <3>4. PICK q : q = R(k + 1).parsed
      OBVIOUS
    <3>5. q = p \/ \E x \in Results : q = Append(p, x)
      BY <2>5, <3>1, <3>4
    <3>6. Len(p) <= Len(q) /\ \A r \in 1 .. Len(p) : q[r] = p[r]
      <4> HIDE DEF R
      <4> QED BY <3>2, <3>3, <3>5
    <3> QED BY <3>1, <3>4, <3>6
  <2>7. Kept(k + 1)
    <3> HIDE DEF R
    <3>1. Len(R(n).parsed) \in Nat /\ Len(R(k).parsed) \in Nat /\ Len(R(k + 1).parsed) \in Nat
      BY <1>1, <1>2, <2>2
    <3>2. \A r \in 1 .. Len(R(n).parsed) : r \in 1 .. Len(R(k).parsed)
      BY <2>3, <3>1
    <3> QED BY <2>3, <2>5, <2>6, <3>1, <3>2
  <2> HIDE DEF Kept
  <2> QED BY <2>2, <2>7
<1>5. P = Nat
  <2>1. P \in SUBSET Nat
    OBVIOUS
  <2> HIDE DEF Kept
  <2>2. ASSUME NEW i \in P PROVE i + 1 \in P
    BY <1>4
  <2> HIDE DEF P
  <2> QED BY <1>3, <2>1, <2>2, SetInduction
<1>6. Kept(m)
  <2>1. PICK i \in Nat : i = m - n /\ n + i = m /\ n + i <= Len(text)
    BY <1>1
  <2>2. i \in P
    BY <1>5, <2>1
  <2>3. Kept(n + i)
    <3> HIDE DEF Kept
    <3> QED BY <2>1, <2>2
  <2> HIDE DEF Kept
  <2> QED BY <2>1, <2>3
<1> QED BY <1>6

\* What is between two places of a text and what follows it.
LEMMA Adjoining ==
  ASSUME NEW S, NEW s \in Seq(S), NEW i \in Nat, NEW j \in Nat, NEW k \in Nat, i <= j, j <= k, k <= Len(s)
  PROVE  SubSeq(s, i + 1, j) \o SubSeq(s, j + 1, k) = SubSeq(s, i + 1, k)
<1> DEFINE a == SubSeq(s, i + 1, j)
           b == SubSeq(s, j + 1, k)
           c == SubSeq(s, i + 1, k)
<1>1. /\ a \in Seq(S) /\ Len(a) = j - i /\ \A x \in 1 .. j - i : a[x] = s[i + x]
      /\ b \in Seq(S) /\ Len(b) = k - j /\ \A x \in 1 .. k - j : b[x] = s[j + x]
      /\ c \in Seq(S) /\ Len(c) = k - i /\ \A x \in 1 .. k - i : c[x] = s[i + x]
  <2>1. Len(s) \in Nat /\ j <= Len(s) /\ i <= k
    OBVIOUS
  <2>2. a \in Seq(S) /\ Len(a) = j - i /\ \A x \in 1 .. j - i : a[x] = s[i + x]
    BY <2>1, Middle
  <2>3. b \in Seq(S) /\ Len(b) = k - j /\ \A x \in 1 .. k - j : b[x] = s[j + x]
    BY <2>1, Middle
  <2>4. c \in Seq(S) /\ Len(c) = k - i /\ \A x \in 1 .. k - i : c[x] = s[i + x]
    BY <2>1, Middle
  <2> QED BY <2>2, <2>3, <2>4
<1> HIDE DEF a, b, c
<1>2. /\ a \o b \in Seq(S) /\ Len(a \o b) = Len(a) + Len(b)
      /\ \A x \in 1 .. Len(a) : (a \o b)[x] = a[x]
      /\ \A x \in 1 .. Len(b) : (a \o b)[Len(a) + x] = b[x]
  <2>1. a \in Seq(S) /\ b \in Seq(S)
    BY <1>1
  <2> QED BY <2>1, Joined
<1>3. ASSUME NEW x \in 1 .. k - i PROVE (a \o b)[x] = c[x]
  <2>1. CASE x <= j - i
    BY <1>1, <1>2, <2>1
  <2>2. CASE x > j - i
    <3>1. PICK y \in 1 .. k - j : x = (j - i) + y
      <4>1. x - (j - i) \in 1 .. k - j /\ x = (j - i) + (x - (j - i))
        BY <2>2
      <4> QED BY <4>1
    <3>2. (a \o b)[x] = b[y]
      BY <1>1, <1>2, <3>1
    <3>3. b[y] = s[j + y] /\ c[x] = s[i + x] /\ j + y = i + x
      BY <1>1, <3>1
    <3> QED BY <3>2, <3>3
  <2>3. x <= j - i \/ x > j - i
    OBVIOUS
  <2> QED BY <2>1, <2>2, <2>3
<1>4. Len(a \o b) = Len(c) /\ \A x \in 1 .. Len(a \o b) : (a \o b)[x] = c[x]
  BY <1>1, <1>2, <1>3, SMTT(30)
<1>5. a \o b = c
  BY <1>1, <1>2, <1>4, SameElements
<1> QED BY <1>5 DEF a, b, c

\* And what is between two places of a part of it.
LEMMA Within ==
  ASSUME NEW S, NEW s \in Seq(S), NEW i \in Nat, NEW k \in Nat, i <= k, k <= Len(s),
         NEW from \in Nat, NEW to \in Nat, from <= to, to <= k - i
  PROVE  SubSeq(SubSeq(s, i + 1, k), from + 1, to) = SubSeq(s, (i + from) + 1, i + to)
<1> DEFINE a == SubSeq(s, i + 1, k)
           b == SubSeq(a, from + 1, to)
           c == SubSeq(s, (i + from) + 1, i + to)
<1>1. a \in Seq(S) /\ Len(a) = k - i /\ \A x \in 1 .. k - i : a[x] = s[i + x]
  BY Middle
<1> HIDE DEF a
<1>2. b \in Seq(S) /\ Len(b) = to - from /\ \A x \in 1 .. to - from : b[x] = a[from + x]
  BY <1>1, Middle
<1>3. c \in Seq(S) /\ Len(c) = to - from /\ \A x \in 1 .. to - from : c[x] = s[(i + from) + x]
  <2>1. i + from \in Nat /\ i + to \in Nat /\ i + from <= i + to /\ i + to <= Len(s) /\ (i + to) - (i + from) = to - from
    OBVIOUS
  <2>2. c \in Seq(S) /\ Len(c) = (i + to) - (i + from) /\ \A x \in 1 .. (i + to) - (i + from) : c[x] = s[(i + from) + x]
    <3>1. PICK x \in Nat, y \in Nat : x = i + from /\ y = i + to /\ x <= y /\ y <= Len(s)
      BY <2>1
    <3>2. /\ SubSeq(s, x + 1, y) \in Seq(S) /\ Len(SubSeq(s, x + 1, y)) = y - x
          /\ \A z \in 1 .. y - x : SubSeq(s, x + 1, y)[z] = s[x + z]
      <4>1. PICK t : t = s /\ t \in Seq(S) /\ y <= Len(t)
        BY <3>1
      <4> HIDE DEF a, b, c
      <4>2. /\ SubSeq(t, x + 1, y) \in Seq(S) /\ Len(SubSeq(t, x + 1, y)) = y - x
            /\ \A z \in 1 .. y - x : SubSeq(t, x + 1, y)[z] = t[x + z]
        BY <3>1, <4>1, Middle, SMTT(30)
      <4> QED BY <4>1, <4>2
    <3> QED BY <3>1, <3>2
  <2> QED BY <2>1, <2>2
<1> HIDE DEF b, c
<1>4. ASSUME NEW x \in 1 .. to - from PROVE b[x] = c[x]
  <2>1. from + x \in 1 .. k - i /\ i + (from + x) = (i + from) + x
    OBVIOUS
  <2> QED BY <1>1, <1>2, <1>3, <2>1
<1>5. b = c
  BY <1>2, <1>3, <1>4, SameElements
<1> QED BY <1>5 DEF a, b, c

LEMMA OneFurther ==
  ASSUME NEW S, NEW s \in Seq(S), NEW i \in Nat, NEW k \in Nat, i <= k, k < Len(s)
  PROVE  Append(SubSeq(s, i + 1, k), s[k + 1]) = SubSeq(s, i + 1, k + 1)
<1>1. k + 1 \in Nat /\ k <= k + 1 /\ k + 1 <= Len(s) /\ s[k + 1] \in S
  OBVIOUS
<1>2. SubSeq(s, i + 1, k) \o SubSeq(s, k + 1, k + 1) = SubSeq(s, i + 1, k + 1)
  BY <1>1, Adjoining
<1>3. SubSeq(s, k + 1, k + 1) = <<s[k + 1]>>
  <2>1. PICK t, x : t = SubSeq(s, k + 1, k + 1) /\ x = s[k + 1]
    OBVIOUS
  <2>2. t \in Seq(S) /\ Len(t) = (k + 1) - k /\ \A y \in 1 .. (k + 1) - k : t[y] = s[k + y]
    BY <1>1, <2>1, Middle
  <2>3. Len(t) = 1 /\ t[1] = x /\ x \in S
    BY <1>1, <2>1, <2>2
  <2>4. <<x>> \in Seq(S) /\ Len(<<x>>) = 1 /\ <<x>>[1] = x
    BY <2>3
  <2>5. t = <<x>>
    BY <2>2, <2>3, <2>4, SameElements
  <2> QED BY <2>1, <2>5
<1>4. SubSeq(s, i + 1, k) \in Seq(S)
  BY Middle
<1>5. \A t \in Seq(S), x \in S : t \o <<x>> = Append(t, x)
  OBVIOUS
<1> QED BY <1>1, <1>2, <1>3, <1>4, <1>5

\* A request with k characters of a text in its body.
BodyTo(q, text, n, k) == [q EXCEPT !.body = @ \o SubSeq(text, n + 1, n + k)]

\* And with one more.
Longer(q, c) == [q EXCEPT !.body = Append(@, c)]

LEMMA BodyToFacts ==
  ASSUME NEW q \in Requests, NEW text \in Seq(Char), NEW n \in Nat, NEW k \in Nat, n + k <= Len(text)
  PROVE  /\ BodyTo(q, text, n, k) \in Requests
         /\ k = 0 => BodyTo(q, text, n, k) = q
         /\ n + k < Len(text) => Longer(BodyTo(q, text, n, k), text[n + k + 1]) = BodyTo(q, text, n, k + 1)
<1>1. PICK body, part : body = q.body /\ part = SubSeq(text, n + 1, n + k)
  OBVIOUS
<1>2. body \in Seq(Char) /\ part \in Seq(Char)
  <2>1. n + k \in Nat /\ n <= n + k
    OBVIOUS
  <2> QED BY <1>1, <2>1, Middle DEF Requests
<1>3. BodyTo(q, text, n, k) = [q EXCEPT !.body = body \o part]
  BY <1>1 DEF BodyTo
<1>4. BodyTo(q, text, n, k) \in Requests
  <2>1. body \o part \in Seq(Char)
    BY <1>2, Joined
  <2> QED BY <1>3, <2>1 DEF Requests
<1>5. ASSUME k = 0 PROVE BodyTo(q, text, n, k) = q
  <2>1. part = <<>>
    BY <1>1, <1>5
  <2>2. body \o part = q.body
    <3>1. \A t \in Seq(Char) : t \o <<>> = t
      OBVIOUS
    <3> QED BY <1>1, <1>2, <2>1, <3>1
  <2> QED BY <1>3, <2>2 DEF Requests
<1>6. ASSUME n + k < Len(text)
      PROVE  Longer(BodyTo(q, text, n, k), text[n + k + 1]) = BodyTo(q, text, n, k + 1)
  <2>1. PICK c, more : c = text[n + k + 1] /\ more = SubSeq(text, n + 1, n + (k + 1))
    OBVIOUS
  <2>2. c \in Char /\ Append(part, c) = more
    <3>1. n + k \in Nat /\ n <= n + k /\ n + (k + 1) = (n + k) + 1 /\ n + k + 1 \in 1 .. Len(text)
      BY <1>6
    <3>2. Append(SubSeq(text, n + 1, n + k), text[(n + k) + 1]) = SubSeq(text, n + 1, (n + k) + 1)
      BY <1>6, <3>1, OneFurther
    <3> QED BY <1>1, <2>1, <3>1, <3>2
  <2>3. Append(body \o part, c) = body \o more
    <3>1. body \o part \in Seq(Char) /\ <<c>> \in Seq(Char)
      BY <1>2, <2>2
    <3>2. Append(body \o part, c) = (body \o part) \o <<c>> /\ Append(part, c) = part \o <<c>>
      <4>1. \A t \in Seq(Char), x \in Char : Append(t, x) = t \o <<x>>
        OBVIOUS
      <4> QED BY <1>2, <2>2, <3>1, <4>1, Zenon
    <3>3. (body \o part) \o <<c>> = body \o (part \o <<c>>)
      <4>1. PICK last \in Seq(Char) : last = <<c>>
        BY <3>1
      <4>2. (body \o part) \o last = body \o (part \o last)
        BY <1>2, Regroup, SMTT(30)
      <4> QED BY <4>1, <4>2
    <3> QED BY <2>2, <3>2, <3>3
  <2>4. BodyTo(q, text, n, k + 1) = [q EXCEPT !.body = body \o more]
    BY <1>1, <2>1 DEF BodyTo
  <2> QED BY <1>3, <2>1, <2>3, <2>4 DEF Requests, Longer
<1> QED BY <1>4, <1>5, <1>6

\* b is the reader at a, which is in a body, k characters later.
InBody(a, b, text, n, k) ==
    /\ k < a.left => /\ b.state = "BODY" /\ b.left = a.left - k /\ b.parsed = a.parsed
                     /\ b.request = BodyTo(a.request, text, n, k)
    /\ k = a.left => b = Answered(a, BodyTo(a.request, text, n, k))

LEMMA ReadBodyStep ==
  ASSUME NEW a, NEW b, Sound(a), Sound(b), NEW text \in Seq(Char), NEW n \in Nat, NEW k \in Nat, n + k < Len(text),
         k < a.left, InBody(a, b, text, n, k)
  PROVE  InBody(a, Read(b, text[n + k + 1]), text, n, k + 1)
<1>1. /\ a.request \in Requests /\ a.left \in Nat /\ b.left \in Nat /\ b.request \in Requests /\ b \in Readings
  BY ReadingFields, HTTPContextAssumption DEF Sound
<1>2. /\ b.state = "BODY" /\ b.left = a.left - k /\ b.parsed = a.parsed
      /\ b.request = BodyTo(a.request, text, n, k)
  BY DEF InBody
<1>3. PICK c, q : c = text[n + k + 1] /\ q = BodyTo(a.request, text, n, k + 1)
  OBVIOUS
<1>4. n + k + 1 \in 1 .. Len(text) /\ c \in Char
  BY <1>3
<1>5. Longer(b.request, c) = q
  <2>1. n + k <= Len(text)
    OBVIOUS
  <2>2. Longer(BodyTo(a.request, text, n, k), text[n + k + 1]) = BodyTo(a.request, text, n, k + 1)
    BY <1>1, <2>1, BodyToFacts
  <2> QED BY <1>2, <1>3, <2>2
<1>6. Read(b, c) = ReadBody(b, c)
  BY <1>2 DEF Read, HeadState
<1>7. q \in Requests /\ (b.left = 1 => ReadBody(b, c) = Answered(b, q))
      /\ (b.left # 1 => ReadBody(b, c) = [b EXCEPT !.request = q, !.left = @ - 1])
  BY <1>2, <1>4, <1>5, ReadBodySound DEF Longer
<1>8. CASE k + 1 < a.left
  <2>1. b.left # 1 /\ b.left - 1 = a.left - (k + 1)
    BY <1>1, <1>2, <1>8
  <2>2. PICK d : d = ReadBody(b, c)
    OBVIOUS
  <2>3. d = [b EXCEPT !.request = q, !.left = @ - 1]
    BY <1>7, <2>1, <2>2
  <2>4. d.state = "BODY" /\ d.left = a.left - (k + 1) /\ d.parsed = a.parsed /\ d.request = q
    BY <1>1, <1>2, <2>1, <2>3 DEF Readings
  <2> QED BY <1>3, <1>6, <1>8, <2>2, <2>4 DEF InBody
<1>9. CASE k + 1 = a.left
  <2>1. b.left = 1
    BY <1>1, <1>2, <1>9
  <2>2. Answered(b, q) = Answered(a, q)
    BY <1>2 DEF Answered
  <2>3. ~(k + 1 < a.left)
    BY <1>1, <1>9
  <2> QED BY <1>3, <1>6, <1>7, <1>9, <2>1, <2>2, <2>3 DEF InBody
<1> QED BY <1>1, <1>8, <1>9

\* k characters of a body.
LEMMA ReadBodyRun ==
  ASSUME NEW text \in Seq(Char), NEW n \in 0 .. Len(text), Reading(text)[n].state = "BODY",
         NEW k \in Nat, n + k <= Len(text), k <= Reading(text)[n].left
  PROVE  InBody(Reading(text)[n], Reading(text)[n + k], text, n, k)
<1> DEFINE R(i) == Reading(text)[i]
           Is(i) == InBody(R(n), R(n + i), text, n, i)
           P == {i \in Nat : n + i <= Len(text) /\ i <= R(n).left => Is(i)}
<1>1. Len(text) \in Nat /\ n \in Nat
  OBVIOUS
<1>2. Sound(R(n)) /\ R(n).state = "BODY" /\ R(n).request \in Requests /\ R(n).left \in Nat /\ R(n).left > 0
  <2>1. Sound(R(n))
    BY ReadingRecursion
  <2> QED BY <2>1, ReadingFields, HTTPContextAssumption DEF Sound
<1>3. Is(0)
  <2>1. n + 0 = n /\ 0 < R(n).left /\ R(n).left - 0 = R(n).left /\ 0 # R(n).left
    BY <1>1, <1>2
  <2>2. BodyTo(R(n).request, text, n, 0) = R(n).request
    <3>1. PICK q \in Requests : q = R(n).request
      BY <1>2
    <3>2. SubSeq(text, n + 1, n + 0) = <<>> /\ q.body \in Seq(Char) /\ \A t \in Seq(Char) : t \o <<>> = t
      BY <1>1 DEF Requests
    <3>3. [q EXCEPT !.body = q.body] = q
      BY DEF Requests
    <3>4. BodyTo(q, text, n, 0) = q
      BY <3>2, <3>3 DEF BodyTo
    <3> QED BY <3>1, <3>4
  <2> HIDE DEF R
  <2> QED BY <1>2, <2>1, <2>2 DEF InBody
<1>4. ASSUME NEW i \in P, n + (i + 1) <= Len(text), i + 1 <= R(n).left PROVE Is(i + 1)
  <2>1. /\ n + i \in 0 .. Len(text) - 1 /\ n + i \in 0 .. Len(text) /\ n + (i + 1) = (n + i) + 1
        /\ i < R(n).left /\ i \in Nat /\ n + i < Len(text)
    BY <1>1, <1>2, <1>4
  <2>2. Is(i)
    <3> HIDE DEF Is
    <3> QED BY <1>2, <2>1
  <2>3. R((n + i) + 1) = Read(R(n + i), text[(n + i) + 1]) /\ Sound(R(n + i))
    BY <2>1, ReadingRecursion
  <2>4. InBody(R(n), Read(R(n + i), text[n + i + 1]), text, n, i + 1)
    <3> HIDE DEF R
    <3> QED BY <1>1, <1>2, <2>1, <2>2, <2>3, ReadBodyStep
  <2> HIDE DEF R
  <2> QED BY <2>1, <2>3, <2>4
<1>5. P = Nat
  <2>1. P \in SUBSET Nat
    OBVIOUS
  <2> HIDE DEF Is
  <2>2. 0 \in P
    BY <1>3
  <2>3. ASSUME NEW i \in P PROVE i + 1 \in P
    BY <1>4
  <2> HIDE DEF P
  <2> QED BY <2>1, <2>2, <2>3, SetInduction
<1>6. Is(k)
  <2> HIDE DEF Is
  <2> QED BY <1>5
<1> QED BY <1>6

-----------------------------------------------------------------------------
(* What an input says, at the places where a head or a request ends.         *)

LEMMA Places ==
  ASSUME NEW S, NEW s \in Seq(S), NEW n, Len(s) = n
  PROVE  DOMAIN s = 1 .. n /\ \A r \in 1 .. n : s[r] \in S
OBVIOUS

LEMMA InputSays ==
  ASSUME NEW i \in Inputs, ReadsAsSaid(i)
  PROVE  /\ i.text \in Seq(Char) /\ Len(i.text) \in Nat /\ Len(i.text) < SizeT /\ SizeT \in Nat
         /\ i.heads \in Seq(Nat) /\ i.ends \in Seq(Nat) /\ i.waits \in Seq(BOOLEAN) /\ i.parsed \in Seq(Results)
         /\ Len(i.parsed) \in Nat /\ \A r \in 1 .. Len(i.parsed) : i.heads[r] \in Nat /\ i.ends[r] \in Nat
         /\ DOMAIN i.heads = 1 .. Len(i.parsed) /\ DOMAIN i.ends = 1 .. Len(i.parsed)
         /\ DOMAIN i.waits = 1 .. Len(i.parsed) /\ DOMAIN i.parsed = 1 .. Len(i.parsed)
<1>1. /\ i.text \in Seq(Char) /\ i.heads \in Seq(Nat) /\ i.ends \in Seq(Nat) /\ i.waits \in Seq(BOOLEAN)
      /\ Len(i.ends) = Len(i.heads) /\ Len(i.waits) = Len(i.ends) /\ Len(i.parsed) = Len(i.ends) /\ SizeT \in Nat
  BY HTTPContextAssumption DEF InputType
<1>2. Len(i.text) \in 0 .. Len(i.text) /\ Len(i.text) \in Nat
  BY <1>1
<1>3. i.parsed \in Seq(Results)
  <2>1. Sound(Reading(i.text)[Len(i.text)])
    BY <1>1, <1>2, ReadingRecursion
  <2>2. Reading(i.text)[Len(i.text)].parsed \in Seq(Results)
    BY <2>1, ReadingFields DEF Sound
  <2> QED BY <2>2 DEF ReadsAsSaid
<1>4. Len(i.text) < SizeT
  BY DEF ReadsAsSaid
<1>5. PICK heads \in Seq(Nat), ends \in Seq(Nat), waits \in Seq(BOOLEAN), parsed \in Seq(Results) :
        /\ heads = i.heads /\ ends = i.ends /\ waits = i.waits /\ parsed = i.parsed
        /\ Len(ends) = Len(heads) /\ Len(waits) = Len(ends) /\ Len(parsed) = Len(ends)
  BY <1>1, <1>3
<1>6. /\ Len(parsed) \in Nat /\ DOMAIN heads = 1 .. Len(parsed) /\ DOMAIN ends = 1 .. Len(parsed)
      /\ DOMAIN waits = 1 .. Len(parsed) /\ DOMAIN parsed = 1 .. Len(parsed)
      /\ \A r \in 1 .. Len(parsed) : heads[r] \in Nat /\ ends[r] \in Nat
  <2>1. PICK l \in Nat : l = Len(parsed) /\ l = Len(heads) /\ l = Len(ends) /\ l = Len(waits)
    BY <1>5
  <2>2. DOMAIN heads = 1 .. l /\ \A r \in 1 .. l : heads[r] \in Nat
    BY <2>1, Places
  <2>3. DOMAIN ends = 1 .. l /\ \A r \in 1 .. l : ends[r] \in Nat
    BY <2>1, Places
  <2>4. DOMAIN waits = 1 .. l
    BY <2>1, Places
  <2>5. DOMAIN parsed = 1 .. l
    BY <2>1, Places
  <2> QED BY <2>1, <2>2, <2>3, <2>4, <2>5
<1> QED BY <1>1, <1>2, <1>3, <1>4, <1>5, <1>6

\* Where reading one more character completes a request.
LEMMA RequestEndsHere ==
  ASSUME NEW i \in Inputs, ReadsAsSaid(i), NEW n \in Nat, n < Len(i.text),
         Reading(i.text)[n].state \notin Invalid, Reading(i.text)[n + 1].state \notin Invalid,
         Len(Reading(i.text)[n + 1].parsed) = Len(Reading(i.text)[n].parsed) + 1
  PROVE  LET r == Len(Reading(i.text)[n].parsed) + 1
         IN  /\ r \in 1 .. Len(i.parsed) /\ i.ends[r] = n + 1
             /\ i.parsed[r] = Reading(i.text)[n + 1].parsed[r]
<1> DEFINE R(m) == Reading(i.text)[m]
           r == Len(R(n).parsed) + 1
<1>1. /\ i.text \in Seq(Char) /\ Len(i.text) \in Nat /\ i.ends \in Seq(Nat) /\ DOMAIN i.ends = 1 .. Len(i.parsed)
      /\ DOMAIN i.parsed = 1 .. Len(i.parsed)
  BY InputSays
<1>2. n \in 0 .. Len(i.text) /\ n + 1 \in 0 .. Len(i.text) /\ Len(i.text) \in 0 .. Len(i.text) /\ n + 1 <= Len(i.text)
  BY <1>1
<1>3. Len(R(n).parsed) \in Nat /\ Len(R(n + 1).parsed) = r /\ r \in 1 .. r
  <2>1. Sound(R(n))
    BY <1>1, <1>2, ReadingRecursion
  <2> QED BY <2>1, ReadingFields DEF Sound
<1>4. R(Len(i.text)).parsed = i.parsed
  BY DEF ReadsAsSaid
<1>5. r <= Len(i.parsed) /\ i.parsed[r] = R(n + 1).parsed[r]
  <2>1. /\ Len(R(n + 1).parsed) <= Len(R(Len(i.text)).parsed)
        /\ \A x \in 1 .. Len(R(n + 1).parsed) : R(Len(i.text)).parsed[x] = R(n + 1).parsed[x]
    BY <1>1, <1>2, ReadStaysRead
  <2> QED BY <1>3, <1>4, <2>1
<1>6. r \in 1 .. Len(i.parsed)
  <2>1. Len(i.parsed) \in Nat
    BY InputSays
  <2> QED BY <1>3, <1>5, <2>1
<1>7. i.ends[r] <= n + 1
  <2>1. EndsAsSaid(i, n + 1)
    BY <1>2 DEF ReadsAsSaid
  <2>2. i.ends[r] <= n + 1 <=> r <= Len(R(n + 1).parsed)
    BY <1>1, <1>6, <2>1 DEF EndsAsSaid
  <2> QED BY <1>3, <2>2
<1>8. ~(i.ends[r] <= n)
  <2>1. EndsAsSaid(i, n)
    BY <1>2 DEF ReadsAsSaid
  <2>2. i.ends[r] <= n <=> r <= Len(R(n).parsed)
    BY <1>1, <1>6, <2>1 DEF EndsAsSaid
  <2> QED BY <1>3, <2>2
<1>9. i.ends[r] = n + 1
  <2>1. i.ends[r] \in Nat
    BY <1>6, InputSays
  <2> QED BY <1>7, <1>8, <2>1
<1> HIDE DEF R
<1> QED BY <1>5, <1>6, <1>9 DEF R

\* Where reading one more character completes a head.
LEMMA HeadEndsHere ==
  ASSUME NEW i \in Inputs, ReadsAsSaid(i), NEW n \in Nat, n < Len(i.text),
         Reading(i.text)[n].state = "CR_LF_CR", i.text[n + 1] = LF
  PROVE  LET a == Reading(i.text)[n] b == Reading(i.text)[n + 1] r == Len(a.parsed) + 1
         IN  /\ b = ReadEndOfHead(a, LF) /\ Sound(a)
             /\ r \in 1 .. Len(i.parsed) /\ i.heads[r] = n + 1
             /\ BodyLength(a.request) = 0 =>
                  /\ i.ends[r] = n + 1
                  /\ i.parsed[r] = [status |-> "COMPLETE", request |-> a.request]
<1> DEFINE a == Reading(i.text)[n]
           b == Reading(i.text)[n + 1]
           r == Len(a.parsed) + 1
<1>1. /\ i.text \in Seq(Char) /\ Len(i.text) \in Nat /\ i.heads \in Seq(Nat) /\ DOMAIN i.heads = 1 .. Len(i.parsed)
      /\ DOMAIN i.parsed = 1 .. Len(i.parsed) /\ Len(i.parsed) \in Nat
  BY InputSays
<1>2. n \in 0 .. Len(i.text) /\ n + 1 \in 0 .. Len(i.text) /\ n \in 0 .. Len(i.text) - 1 /\ LF \in Char
  BY <1>1 DEF Char
<1>3. Sound(a) /\ b = Read(a, LF) /\ a \in Readings /\ a.parsed \in Seq(Results) /\ Len(a.parsed) \in Nat /\ a.request \in Requests
  <2>1. Sound(a) /\ b = Read(a, LF)
    BY <1>1, <1>2, ReadingRecursion
  <2> QED BY <2>1, ReadingFields DEF Sound
<1>4. b = ReadEndOfHead(a, LF)
  BY <1>3 DEF Read, HeadState
<1>5. a.state \notin Invalid /\ a.state # "BODY" /\ b.state \notin Invalid
  <2>1. b.state \in {"BODY", "START"}
    <3>1. CASE BodyLength(a.request) = 0
      <4>1. b = Answered(a, a.request)
        BY <1>4, <3>1 DEF ReadEndOfHead
      <4>2. a \in Readings /\ a.request \in Requests
        BY <1>3
      <4> HIDE DEF a, b
      <4> QED BY <4>1, <4>2, AnsweredSound
    <3>2. CASE BodyLength(a.request) # 0
      BY <1>2, <1>3, <1>4, <3>2, ReadEndOfHeadSound
    <3> QED BY <3>1, <3>2
  <2> QED BY <2>1 DEF Invalid
<1>6. CASE BodyLength(a.request) = 0
  <2>1. b.parsed = Append(a.parsed, [status |-> "COMPLETE", request |-> a.request]) /\ b.state = "START"
    <3>1. b = Answered(a, a.request)
      BY <1>4, <1>6 DEF ReadEndOfHead
    <3>2. a \in Readings /\ a.request \in Requests
      BY <1>3
    <3> HIDE DEF a, b
    <3> QED BY <3>1, <3>2, AnsweredSound
  <2>2. PICK x \in Results : x = [status |-> "COMPLETE", request |-> a.request]
    BY <1>3 DEF Results
  <2>3. Len(b.parsed) = Len(a.parsed) + 1 /\ b.parsed[r] = x
    BY <1>3, <2>1, <2>2
  <2>4. r \in 1 .. Len(i.parsed) /\ i.ends[r] = n + 1 /\ i.parsed[r] = b.parsed[r]
    BY <1>5, <2>3, RequestEndsHere
  <2>5. EndsAsSaid(i, n) /\ EndsAsSaid(i, n + 1)
    BY <1>2 DEF ReadsAsSaid
  <2>6. i.heads[r] <= n <=> r <= Len(a.parsed) \/ (r = Len(a.parsed) + 1 /\ a.state = "BODY")
    BY <1>1, <1>5, <2>4, <2>5 DEF EndsAsSaid
  <2>7. i.heads[r] <= n + 1 <=> r <= Len(b.parsed) \/ (r = Len(b.parsed) + 1 /\ b.state = "BODY")
    BY <1>1, <1>5, <2>4, <2>5 DEF EndsAsSaid
  <2>8. i.heads[r] \in Nat /\ ~(i.heads[r] <= n) /\ i.heads[r] <= n + 1
    <3>1. i.heads[r] \in Nat
      BY <2>4, InputSays
    <3> HIDE DEF a, b
    <3> QED BY <1>3, <1>5, <2>3, <2>6, <2>7, <3>1
  <2>9. i.heads[r] = n + 1
    BY <2>8
  <2> HIDE DEF a, b
  <2> QED BY <1>3, <1>4, <2>2, <2>3, <2>4, <2>9 DEF a, b
<1>7. CASE BodyLength(a.request) # 0
  <2>1. b.parsed = a.parsed /\ b.state = "BODY"
    BY <1>2, <1>3, <1>4, <1>7, ReadEndOfHeadSound
  <2>2. EndsAsSaid(i, n) /\ EndsAsSaid(i, n + 1)
    BY <1>2 DEF ReadsAsSaid
  <2>3. r \in 1 .. Len(i.parsed)
    <3>1. Len(b.parsed) < Len(i.parsed)
      BY <1>5, <2>1, <2>2 DEF EndsAsSaid
    <3> QED BY <1>1, <1>3, <2>1, <3>1
  <2>4. i.heads[r] <= n <=> r <= Len(a.parsed) \/ (r = Len(a.parsed) + 1 /\ a.state = "BODY")
    BY <1>1, <1>5, <2>2, <2>3 DEF EndsAsSaid
  <2>5. i.heads[r] <= n + 1 <=> r <= Len(b.parsed) \/ (r = Len(b.parsed) + 1 /\ b.state = "BODY")
    BY <1>1, <1>5, <2>2, <2>3 DEF EndsAsSaid
  <2>6. i.heads[r] \in Nat /\ ~(i.heads[r] <= n) /\ i.heads[r] <= n + 1
    <3>1. i.heads[r] \in Nat
      BY <2>3, InputSays
    <3> HIDE DEF a, b
    <3> QED BY <1>3, <1>5, <2>1, <2>4, <2>5, <3>1
  <2>7. i.heads[r] = n + 1
    BY <2>6
  <2> HIDE DEF a, b
  <2> QED BY <1>3, <1>4, <1>7, <2>3, <2>7 DEF a, b
<1> QED BY <1>6, <1>7

-----------------------------------------------------------------------------
(* The parser and the reader of the whole text.  Wherever the parser is,     *)
(* the reader at the same place of the text is in the same state, with the   *)
(* same request, token, mark and rest of a body, and has read the requests   *)
(* that were answered.                                                       *)

LastSent(n) == SubSeq(input.text, sent - n + 1, sent)

\* How much of the text has been looked at: without what is back in inBuffer_.
Place == IF pc = "parse" /\ state # "COMPLETE" THEN sent - Len(data) + cur ELSE sent - Len(inBuffer)

\* A reader has the whole request; the parser has yet to see that it has.
Whole == pc = "parse" /\ (state = "COMPLETE" \/ (state = "BODY" /\ contentLength = 0))

WholeInSync(a) == /\ a = NewRequest(Append(outcome, [status |-> "COMPLETE", request |-> request]))
                  /\ input.ends[Len(outcome) + 1] = Place

PartInSync(a) == /\ a.state = state /\ a.request = request /\ a.parsed = outcome
                 /\ IF state = "BODY" THEN a.left = contentLength ELSE contentLength = Minus1

WithMark == {"BEFORE_URL_PARAM_VALUE", "URL_PARAM_VALUE", "BEFORE_HEADER_VALUE", "HEADER_VALUE"}

TokenInSync(a) ==
    /\ state \notin {"START", "BODY"} =>
         a.token = IF pc = "parse" THEN Token(start, cur) ELSE snapshot.lastRequest
    /\ state \in WithMark => a.mark = IF pc = "parse" THEN colon - start ELSE snapshot.colon

ReadingInSync == state \notin Invalid =>
    LET a == Reading(input.text)[Place]
    IN IF Whole THEN WholeInSync(a) ELSE PartInSync(a) /\ TokenInSync(a)

\* Of what is no request both have read the same error, and the parser goes on
\* repeating it.
ErrorInSync == state \in Invalid =>
    LET a == Reading(input.text)[sent] n == Len(a.parsed) IN
    /\ a.state = state
    /\ n \in 1 .. Len(outcome) + 1 /\ a.parsed[n] = [status |-> state, request |-> NoRequest]
    /\ \A r \in 1 .. Len(outcome) : outcome[r] = a.parsed[IF r < n THEN r ELSE n]

\* The data is the end of what was sent.  A body is read from where it begins,
\* and out of a piece that holds nothing else than the data.
DataInSync ==
    pc = "parse" /\ state \notin Invalid \cup {"COMPLETE"} =>
       /\ inBuffer = <<>>
       /\ Len(data) <= sent /\ data = LastSent(Len(data))
       /\ Len(data) - size <= cur
       /\ ~HeadInPieces => size = Len(data)
       /\ snapshot.parseState = "BODY" => state = "BODY"
       /\ state = "BODY" /\ contentLength = 0 => cur < Len(data)
       /\ state = "BODY" /\ cur < Len(data) => start = cur /\ size = Len(data)
       /\ state = "BODY" /\ cur < Len(data) /\ InPlace => start > 0 /\ input.heads[Len(outcome) + 1] = Place

\* So is what was put back, and it begins where a request does.
BufferInSync ==
    /\ Len(inBuffer) <= sent
    /\ (pc = "parse" /\ state = "COMPLETE") \/ (pc = "idle" /\ state \notin Invalid) =>
          inBuffer = LastSent(Len(inBuffer))
    /\ pc = "idle" /\ state \notin Invalid /\ inBuffer # <<>> =>
          state = "START" /\ outcome # <<>> /\ input.ends[Len(outcome)] = Place

\* So is the token that waits for the rest of its request.
SnapshotInSync ==
    pc = "idle" /\ state \notin Invalid \cup {"START"} =>
       /\ Len(snapshot.lastRequest) <= sent
       /\ snapshot.lastRequest = LastSent(Len(snapshot.lastRequest))
       /\ state = "BODY" => snapshot.lastRequest = <<>>

\* What the peer may send together.
PeerInSync ==
    /\ \A r \in DOMAIN input.ends : r > Len(outcome) /\ input.waits[r] => sent <= input.ends[r]
    /\ pc = "parse" /\ state \notin Invalid /\ HeadInPieces =>
         \A r \in DOMAIN input.heads : input.heads[r] <= sent - size \/ sent <= input.heads[r]
    /\ pc = "parse" /\ state \notin Invalid /\ InPlace =>
         \A r \in DOMAIN input.ends :
            r = Len(outcome) + 1 /\ sent - Len(data) < input.heads[r] =>
                sent - input.ends[r] <= input.heads[r] - (sent - Len(data))

InSync == /\ pc # "terminated" /\ outcome \in Seq(Results)
          /\ ReadingInSync /\ ErrorInSync
          /\ DataInSync /\ BufferInSync /\ SnapshotInSync /\ PeerInSync

LEMMA SyncFacts ==
  ASSUME InputsAsSaid, InputInv, InSync
  PROVE  /\ input \in Inputs /\ ReadsAsSaid(input) /\ input.text \in Seq(Char) /\ Len(input.text) \in Nat
         /\ Len(input.text) < SizeT /\ SizeT \in Nat /\ SizeT > 0 /\ sent \in Nat /\ sent <= Len(input.text)
         /\ data \in Seq(Char) /\ Len(data) \in Nat /\ size \in Nat /\ size <= Len(data)
         /\ start \in Nat /\ cur \in Nat /\ start <= cur /\ cur <= Len(data) /\ colon \in Int
         /\ contentLength \in 0 .. SizeT - 1 /\ request \in Requests
         /\ outcome \in Seq(Results) /\ Len(outcome) \in Nat
         /\ inBuffer \in Seq(Char) /\ Len(inBuffer) \in Nat /\ Len(inBuffer) <= sent
         /\ snapshot.parseState \in HeadState \cup {"BODY"} /\ snapshot.lastRequest \in Seq(Char)
         /\ snapshot.colon \in Int /\ state \in ParseState /\ pc \in {"idle", "parse"}
<1>1. /\ input \in Inputs /\ ReadsAsSaid(input)
  BY DEF InputInv, TypeOK, InputsAsSaid
<1>2. /\ input.text \in Seq(Char) /\ Len(input.text) \in Nat /\ Len(input.text) < SizeT /\ SizeT \in Nat
  BY <1>1, InputSays
<1>3. /\ sent \in 0 .. Len(input.text) /\ data \in Seq(Char) /\ size \in 0 .. Len(data)
      /\ start \in 0 .. Len(data) /\ cur \in 0 .. Len(data) /\ start <= cur /\ colon \in Int
      /\ contentLength \in 0 .. SizeT - 1 /\ request \in Requests /\ inBuffer \in Seq(Char)
      /\ snapshot \in Snapshots /\ state \in ParseState /\ pc \in {"idle", "parse", "terminated"}
  BY DEF InputInv, TypeOK, TokensInOrder
<1>4. outcome \in Seq(Results) /\ Len(inBuffer) <= sent /\ pc # "terminated"
  BY DEF InSync, BufferInSync
<1>5. Len(data) \in Nat /\ Len(outcome) \in Nat /\ Len(inBuffer) \in Nat
  BY <1>3, <1>4
<1>6. /\ snapshot.parseState \in HeadState \cup {"BODY"} /\ snapshot.lastRequest \in Seq(Char)
      /\ snapshot.colon \in Int
  BY <1>3 DEF Snapshots
<1>7. sent \in Nat /\ sent <= Len(input.text) /\ size \in Nat /\ size <= Len(data) /\ start \in Nat /\ cur \in Nat
      /\ cur <= Len(data)
  BY <1>2, <1>3, <1>5
<1>8. SizeT > 0
  BY HTTPContextAssumption
<1>9. pc \in {"idle", "parse"}
  BY <1>3, <1>4
<1> QED BY <1>1, <1>2, <1>3, <1>4, <1>5, <1>6, <1>7, <1>8, <1>9

LEMMA StatesApart ==
  /\ HeadState \cap Invalid = {} /\ "BODY" \notin HeadState \cup Invalid /\ "COMPLETE" \notin HeadState \cup Invalid
  /\ "BODY" # "COMPLETE" /\ "START" \in HeadState /\ "CR_LF_CR" \in HeadState /\ WithMark \subseteq HeadState
  /\ "START" \notin WithMark /\ "CR_LF_CR" \notin WithMark
BY DEF HeadState, Invalid, WithMark

\* Where the data is in the text.
LEMMA PlaceFacts ==
  ASSUME InputsAsSaid, InputInv, InSync, pc = "parse", state \notin Invalid \cup {"COMPLETE"}
  PROVE  /\ Place = sent - Len(data) + cur /\ Place \in 0 .. Len(input.text) /\ Place <= sent
         /\ \A from \in Nat, to \in Nat : from <= to /\ to <= Len(data) =>
               Token(from, to) = SubSeq(input.text, (sent - Len(data) + from) + 1, sent - Len(data) + to)
         /\ cur < Len(data) => /\ Place + 1 \in 0 .. Len(input.text) /\ Place < Len(input.text)
                               /\ data[cur + 1] = input.text[Place + 1] /\ data[cur + 1] \in Char
<1>1. /\ input.text \in Seq(Char) /\ Len(input.text) \in Nat /\ sent \in Nat /\ sent <= Len(input.text)
      /\ data \in Seq(Char) /\ Len(data) \in Nat /\ cur \in Nat /\ cur <= Len(data)
  BY SyncFacts
<1>2. Len(data) <= sent /\ data = LastSent(Len(data))
  BY DEF InSync, DataInSync
<1>3. PICK base \in Nat : base = sent - Len(data)
  BY <1>1, <1>2
<1>4. data = SubSeq(input.text, base + 1, sent) /\ Len(data) = sent - base /\ base <= sent
  BY <1>1, <1>2, <1>3 DEF LastSent
<1>5. Place = base + cur /\ Place \in 0 .. Len(input.text) /\ Place <= sent
  <2>1. Place = sent - Len(data) + cur
    BY DEF Place
  <2>2. Place = base + cur
    BY <1>3, <2>1
  <2>3. base + cur \in Nat /\ base + cur <= sent
    BY <1>1, <1>3
  <2> QED BY <1>1, <2>2, <2>3
<1>6. ASSUME NEW from \in Nat, NEW to \in Nat, from <= to, to <= Len(data)
      PROVE  Token(from, to) = SubSeq(input.text, (base + from) + 1, base + to)
  <2>1. to <= sent - base
    BY <1>4, <1>6
  <2>2. SubSeq(SubSeq(input.text, base + 1, sent), from + 1, to) = SubSeq(input.text, (base + from) + 1, base + to)
    BY <1>1, <1>4, <1>6, <2>1, Within
  <2> QED BY <1>4, <2>2 DEF Token
<1>7. ASSUME cur < Len(data)
      PROVE  /\ Place + 1 \in 0 .. Len(input.text) /\ Place < Len(input.text)
             /\ data[cur + 1] = input.text[Place + 1] /\ data[cur + 1] \in Char
  <2>1. cur + 1 \in 1 .. sent - base /\ cur + 1 \in 1 .. Len(data) /\ base + (cur + 1) = Place + 1 /\ Place + 1 <= sent
    BY <1>1, <1>4, <1>5, <1>7
  <2>2. \A i \in 1 .. sent - base : SubSeq(input.text, base + 1, sent)[i] = input.text[base + i]
    BY <1>1, <1>4, Middle
  <2>3. data[cur + 1] = input.text[base + (cur + 1)]
    BY <1>4, <2>1, <2>2
  <2> QED BY <1>1, <1>5, <2>1, <2>3
<1> QED BY <1>3, <1>5, <1>6, <1>7

LEMMA SyncInit == ASSUME InputsAsSaid, Init PROVE InSync
<1>1. input \in Inputs /\ ReadsAsSaid(input) /\ input.text \in Seq(Char) /\ input.ends \in Seq(Nat)
  BY InputSays DEF Init, InputsAsSaid
<1>2. <<>> \in Seq(Results) /\ <<>> \in Seq(Char) /\ Len(<<>>) = 0
  OBVIOUS
<1>3. Place = 0
  <2>1. pc # "parse" /\ sent \in Nat /\ sent = 0 /\ Len(inBuffer) = 0
    BY DEF Init
  <2> QED BY <2>1 DEF Place
<1>4. Reading(input.text)[0] = NewRequest(<<>>)
  BY <1>1, ReadingRecursion
<1>5. ReadingInSync
  <2>1. ~Whole /\ state = "START" /\ state \notin WithMark
    BY DEF Whole, Init, WithMark
  <2>2. PartInSync(NewRequest(<<>>)) /\ TokenInSync(NewRequest(<<>>))
    BY <2>1 DEF PartInSync, TokenInSync, NewRequest, Init
  <2> QED BY <1>3, <1>4, <2>1, <2>2 DEF ReadingInSync
<1>6. ErrorInSync /\ DataInSync /\ SnapshotInSync
  BY StatesApart DEF Init, ErrorInSync, DataInSync, SnapshotInSync
<1>7. BufferInSync
  <2>1. LastSent(0) = <<>>
    BY <1>1 DEF LastSent, Init
  <2> QED BY <1>2, <2>1 DEF Init, BufferInSync
<1>8. PeerInSync
  <2>1. \A r \in DOMAIN input.ends : input.ends[r] \in Nat
    BY <1>1
  <2> QED BY <2>1 DEF Init, PeerInSync
<1> QED BY <1>2, <1>5, <1>6, <1>7, <1>8 DEF Init, InSync

\* Between two pieces nothing is whole and unanswered.
LEMMA IdleInSync ==
  ASSUME InputsAsSaid, InputInv, InSync, pc = "idle"
  PROVE  /\ Place = sent - Len(inBuffer) /\ Place \in 0 .. Len(input.text) /\ ~Whole
         /\ state \notin Invalid =>
              /\ state = snapshot.parseState /\ state # "COMPLETE"
              /\ PartInSync(Reading(input.text)[Place]) /\ TokenInSync(Reading(input.text)[Place])
              /\ Sound(Reading(input.text)[Place])
<1>1. Place = sent - Len(inBuffer) /\ ~Whole
  BY DEF Place, Whole
<1>2. Place \in 0 .. Len(input.text) /\ input.text \in Seq(Char)
  <2>1. /\ input.text \in Seq(Char) /\ Len(input.text) \in Nat /\ sent \in Nat /\ sent <= Len(input.text)
        /\ Len(inBuffer) \in Nat /\ Len(inBuffer) <= sent
    BY SyncFacts
  <2> QED BY <1>1, <2>1
<1>3. Sound(Reading(input.text)[Place])
  BY <1>2, ReadingRecursion
<1>4. ASSUME state \notin Invalid
      PROVE  /\ state = snapshot.parseState /\ state # "COMPLETE"
             /\ PartInSync(Reading(input.text)[Place]) /\ TokenInSync(Reading(input.text)[Place])
  <2>1. state = snapshot.parseState
    BY <1>4 DEF InputInv
  <2>2. snapshot.parseState # "COMPLETE"
    BY SyncFacts, StatesApart
  <2> QED BY <1>1, <1>4, <2>1, <2>2 DEF InSync, ReadingInSync
<1> QED BY <1>1, <1>2, <1>3, <1>4

\* A piece arrives.
LEMMA SyncArrive ==
  ASSUME BodyApart, ShortNext, InputsAsSaid, InputInv, InSync, NEW n \in 1 .. Len(input.text), Arrive(n)
  PROVE  InSync'
<1> DEFINE text == input.text
           piece == SubSeq(text, sent + 1, sent + n)
           new == inBuffer \o piece
           rest == IF snapshot.parseState = "START" THEN <<>> ELSE snapshot.lastRequest
<1>0. PICK held, kept : held = Len(inBuffer) /\ kept = Len(rest)
  OBVIOUS
<1>1. /\ pc = "idle" /\ MayArrive(n) /\ sent + n <= Len(text) /\ sent' = sent + n /\ inBuffer' = <<>>
      /\ data' = rest \o new /\ size' = Len(new) /\ start' = 0 /\ cur' = kept /\ pc' = "parse"
      /\ colon' = IF snapshot.parseState = "START" THEN 0 ELSE snapshot.colon
      /\ input' = input /\ state' = state /\ contentLength' = contentLength /\ request' = request
      /\ snapshot' = snapshot /\ outcome' = outcome
  BY <1>0 DEF Arrive, MayArrive
<1>2. /\ text \in Seq(Char) /\ Len(text) \in Nat /\ sent \in Nat /\ inBuffer \in Seq(Char) /\ held \in Nat /\ held <= sent
      /\ n \in Nat /\ n > 0 /\ sent + n \in Nat /\ sent + n <= Len(text)
      /\ input \in Inputs /\ ReadsAsSaid(input) /\ snapshot.lastRequest \in Seq(Char) /\ snapshot.colon \in Int
      /\ outcome \in Seq(Results) /\ Len(outcome) \in Nat
  <2>1. /\ text \in Seq(Char) /\ Len(text) \in Nat /\ sent \in Nat /\ inBuffer \in Seq(Char) /\ Len(inBuffer) \in Nat
        /\ Len(inBuffer) <= sent /\ input \in Inputs /\ ReadsAsSaid(input) /\ snapshot.lastRequest \in Seq(Char)
        /\ snapshot.colon \in Int /\ outcome \in Seq(Results) /\ Len(outcome) \in Nat
    BY SyncFacts
  <2>2. n \in Nat /\ n > 0
    BY <2>1
  <2>3. sent + n \in Nat
    BY <2>1, <2>2
  <2> QED BY <1>0, <1>1, <2>1, <2>2, <2>3
<1>3. piece \in Seq(Char) /\ Len(piece) = n
  <2>1. sent <= sent + n /\ (sent + n) - sent = n
    BY <1>2
  <2> QED BY <1>2, <2>1, Middle
<1>4. rest \in Seq(Char) /\ kept \in Nat
  BY <1>0, <1>2
<1>5. new \in Seq(Char) /\ Len(new) = held + n
  <2> HIDE DEF piece
  <2> QED BY <1>0, <1>2, <1>3, Joined
<1>6. data' \in Seq(Char) /\ Len(data') = kept + (held + n) /\ \A i \in 1 .. kept : data'[i] = rest[i]
  <2> HIDE DEF new, rest
  <2> QED BY <1>0, <1>1, <1>4, <1>5, Joined
<1> HIDE DEF new, piece, rest
<1>7. PeerInSync'
  <2>1. \A r \in DOMAIN input.ends : r > Len(outcome) /\ input.waits[r] => sent + n <= input.ends[r]
    BY <1>1 DEF MayArrive
  <2>2. ASSUME state \notin Invalid, HeadInPieces, NEW r \in DOMAIN input.heads
        PROVE  input.heads[r] <= (sent + n) - size' \/ sent + n <= input.heads[r]
    <3>1. state = snapshot.parseState /\ state # "START"
      BY <1>1, <2>2, IdleInSync DEF HeadInPieces
    <3>2. held = 0
      BY <1>0, <1>1, <2>2, <3>1 DEF InSync, BufferInSync
    <3>3. ~(sent < input.heads[r] /\ input.heads[r] < sent + n)
      BY <1>1, <2>2 DEF MayArrive
    <3>4. input.heads[r] \in Nat /\ (sent + n) - size' = sent
      <4>1. input.heads[r] \in Nat
        BY <1>2, InputSays
      <4> QED BY <1>1, <1>2, <1>5, <3>2, <4>1
    <3> QED BY <1>2, <3>3, <3>4
  <2>3. ASSUME InPlace, NEW r \in DOMAIN input.ends, r = Len(outcome) + 1, (sent + n) - Len(data') < input.heads[r]
        PROVE  (sent + n) - input.ends[r] <= input.heads[r] - ((sent + n) - Len(data'))
    <3>1. (sent + n) - Len(data') = sent - held
      <4>1. kept = 0
        BY <1>0, <2>3 DEF InPlace, rest
      <4> QED BY <1>2, <1>6, <4>1
    <3>2. (sent + n) - input.ends[r] <= input.heads[r] - (sent - held)
      BY <1>0, <1>1, <2>3, <3>1 DEF MayArrive
    <3>3. PICK p : p = (sent + n) - Len(data') /\ p = sent - held
      BY <3>1
    <3> QED BY <3>2, <3>3
  <2> QED BY <1>1, <2>1, <2>2, <2>3 DEF PeerInSync, HeadInPieces, InPlace
<1>8. BufferInSync'
  <2>1. ~((pc' = "parse" /\ state' = "COMPLETE") \/ (pc' = "idle" /\ state' \notin Invalid)) /\ pc' # "idle"
    <3>1. state # "COMPLETE"
      <4>1. CASE state \in Invalid
        BY <4>1, StatesApart
      <4>2. CASE state \notin Invalid
        BY <1>1, <4>2, IdleInSync
      <4> QED BY <4>1, <4>2
    <3> QED BY <1>1, <3>1
  <2>2. Len(inBuffer') <= sent'
    <3>1. Len(<<>>) = 0 /\ 0 <= sent + n
      BY <1>2
    <3> QED BY <1>1, <3>1
  <2> QED BY <2>1, <2>2 DEF BufferInSync
<1>9. SnapshotInSync'
  BY <1>1 DEF SnapshotInSync
<1>10. CASE state \in Invalid
  <2>1. ErrorInSync'
    <3>1. Reading(text)[sent + n] = Reading(text)[sent]
      <4>1. Reading(text)[sent].state \in Invalid /\ sent \in 0 .. Len(text) /\ sent + n \in 0 .. Len(text) /\ sent <= sent + n
        BY <1>2, <1>10 DEF InSync, ErrorInSync
      <4> QED BY <1>2, <4>1, ReadStaysRead
    <3> QED BY <1>1, <1>10, <3>1 DEF InSync, ErrorInSync
  <2> QED BY <1>1, <1>2, <1>7, <1>8, <1>9, <1>10, <2>1 DEF InSync, ReadingInSync, DataInSync
<1>11. CASE state \notin Invalid
  <2> DEFINE a == Reading(text)[Place]
  <2>1. /\ Place = sent - held /\ Place \in 0 .. Len(text) /\ ~Whole /\ state = snapshot.parseState /\ state # "COMPLETE"
        /\ PartInSync(a) /\ TokenInSync(a) /\ Sound(a)
    BY <1>0, <1>1, <1>11, IdleInSync
  <2>2. inBuffer = LastSent(held) /\ (held # 0 => state = "START")
    BY <1>0, <1>1, <1>2, <1>11 DEF InSync, BufferInSync
  <2>3. /\ kept <= sent - held /\ rest = SubSeq(text, (sent - held - kept) + 1, sent - held)
        /\ state = "BODY" => kept = 0
    <3>1. CASE state = "START"
      <4>1. rest = <<>> /\ kept = 0
        BY <1>0, <2>1, <3>1 DEF rest
      <4>2. SubSeq(text, (sent - held - 0) + 1, sent - held) = <<>>
        BY <1>2
      <4> QED BY <1>2, <3>1, <4>1, <4>2
    <3>2. CASE state # "START"
      <4>1. held = 0 /\ rest = snapshot.lastRequest /\ sent - held = sent
        BY <1>2, <2>1, <2>2, <3>2 DEF rest
      <4>2. kept <= sent /\ rest = LastSent(kept) /\ (state = "BODY" => kept = 0)
        BY <1>0, <1>1, <1>11, <3>2, <4>1 DEF InSync, SnapshotInSync
      <4> QED BY <4>1, <4>2 DEF LastSent
    <3> QED BY <3>1, <3>2
  <2>4. data' = SubSeq(text, (sent - held - kept) + 1, sent + n)
    <3>0. PICK j \in Nat : j = sent - held /\ j <= sent
      BY <1>2
    <3>1. PICK i \in Nat : i = sent - held - kept /\ j = sent - held /\ i <= j /\ j <= sent
      BY <1>2, <1>4, <2>3, <3>0
    <3>2. inBuffer = SubSeq(text, j + 1, sent) /\ rest = SubSeq(text, i + 1, j)
      BY <2>2, <2>3, <3>1 DEF LastSent
    <3>3. sent <= sent + n
      BY <1>2
    <3>4. new = SubSeq(text, j + 1, sent + n)
      <4>1. SubSeq(text, j + 1, sent) \o SubSeq(text, sent + 1, sent + n) = SubSeq(text, j + 1, sent + n)
        <5>1. PICK k \in Nat : k = sent + n /\ j <= sent /\ sent <= k /\ k <= Len(text) /\ text \in Seq(Char) /\ sent \in Nat
          BY <1>2, <3>1, <3>3
        <5> HIDE DEF text
        <5>2. SubSeq(text, j + 1, sent) \o SubSeq(text, sent + 1, k) = SubSeq(text, j + 1, k)
          BY <5>1, Adjoining
        <5> QED BY <5>1, <5>2
      <4> QED BY <3>2, <4>1 DEF new, piece
    <3>5. j <= sent + n
      BY <1>2, <3>1
    <3>6. rest \o new = SubSeq(text, i + 1, sent + n)
      <4>1. PICK k \in Nat : k = sent + n /\ j <= k /\ k <= Len(text)
        BY <1>2, <3>5
      <4>2. SubSeq(text, i + 1, j) \o SubSeq(text, j + 1, k) = SubSeq(text, i + 1, k)
        <5>1. text \in Seq(Char) /\ i <= j /\ j <= k /\ k <= Len(text)
          BY <1>2, <3>1, <4>1
        <5> HIDE DEF text
        <5> QED BY <5>1, Adjoining
      <4> QED BY <3>2, <3>4, <4>1, <4>2
    <3> QED BY <1>1, <3>1, <3>6
  <2>5. Len(data') <= sent' /\ data' = LastSent(Len(data))'
    <3>1. sent' - Len(data') = sent - held - kept
      BY <1>1, <1>2, <1>4, <1>6
    <3>2. Len(data') <= sent'
      BY <1>1, <1>2, <1>4, <1>6, <2>3
    <3> QED BY <1>1, <2>4, <3>1, <3>2 DEF LastSent
  <2>6. Len(data') - size' = kept /\ (~HeadInPieces => size' = Len(data'))
    <3>1. Len(data') - size' = kept
      BY <1>1, <1>2, <1>4, <1>5, <1>6
    <3>2. ~HeadInPieces => kept = 0
      BY <1>0, <2>1, <2>3 DEF HeadInPieces, rest
    <3> QED BY <1>1, <1>2, <1>4, <1>5, <1>6, <3>1, <3>2
  <2>7. state = "BODY" => contentLength > 0 /\ cur' = 0 /\ size' = Len(data') /\ ~InPlace
    <3>1. state = "BODY" => contentLength > 0
      BY <2>1 DEF PartInSync, Sound
    <3>2. state = "BODY" => ~HeadInPieces /\ ~InPlace
      BY <2>1 DEF HeadInPieces, InPlace
    <3> QED BY <1>1, <2>3, <2>6, <3>1, <3>2
  <2>8. DataInSync'
    <3>1. /\ snapshot.parseState = "BODY" => state = "BODY"
          /\ ~(state = "BODY" /\ contentLength = 0) /\ ~(state = "BODY" /\ InPlace)
      BY <2>1, <2>7
    <3>2. Len(data') - size' <= cur'
      BY <1>1, <1>4, <2>6
    <3> QED BY <1>1, <2>5, <2>6, <2>7, <3>1, <3>2 DEF DataInSync, HeadInPieces, InPlace
  <2>9. Place' = Place /\ ~Whole'
    <3>1. Place' = sent' - Len(data') + cur'
      BY <1>1, <2>1 DEF Place
    <3>2. sent' - Len(data') + cur' = sent - held
      <4>1. PICK l \in Nat : l = Len(data') /\ l = kept + (held + n)
        BY <1>2, <1>4, <1>6
      <4>2. sent' = sent + n /\ cur' = kept
        BY <1>1
      <4>3. (sent + n) - l + kept = sent - held
        BY <1>2, <1>4, <4>1
      <4> QED BY <4>1, <4>2, <4>3
    <3>3. ~Whole'
      BY <1>1, <2>1, <2>7 DEF Whole
    <3> QED BY <2>1, <3>1, <3>2, <3>3
  <2>10. TokenInSync(a)'
    <3>1. Reading(text')[Place'] = a
      BY <1>1, <2>9
    <3>2. ASSUME state \notin {"START", "BODY"} PROVE a.token = Token(start, cur)'
      <4>1. a.token = rest
        BY <1>1, <2>1, <3>2 DEF TokenInSync, rest
      <4>2. Token(start, cur)' = SubSeq(data', 0 + 1, kept)
        BY <1>1 DEF Token
      <4>3. SubSeq(data', 0 + 1, kept) = rest
        <5>1. /\ SubSeq(data', 0 + 1, kept) \in Seq(Char) /\ Len(SubSeq(data', 0 + 1, kept)) = kept - 0
              /\ \A i \in 1 .. kept - 0 : SubSeq(data', 0 + 1, kept)[i] = data'[0 + i]
          <6>1. 0 \in Nat /\ 0 <= kept /\ kept <= Len(data')
            BY <1>2, <1>4, <1>6
          <6> QED BY <1>4, <1>6, <6>1, Middle
        <5>2. PICK t \in Seq(Char) : t = SubSeq(data', 0 + 1, kept)
          BY <5>1
        <5>3. Len(t) = kept /\ \A i \in 1 .. kept : t[i] = data'[i]
          BY <1>4, <5>1, <5>2
        <5>4. t = rest
          BY <1>0, <1>4, <1>6, <5>3, SameElements
        <5> QED BY <5>2, <5>4
      <4> QED BY <4>1, <4>2, <4>3
    <3>3. ASSUME state \in WithMark PROVE a.mark = colon' - start'
      <4>1. state # "START"
        BY <3>3, StatesApart
      <4>2. colon' = snapshot.colon /\ start' = 0
        BY <1>1, <2>1, <4>1
      <4> QED BY <1>1, <1>2, <2>1, <3>3, <4>2 DEF TokenInSync
    <3> HIDE DEF a
    <3> QED BY <1>1, <3>1, <3>2, <3>3 DEF TokenInSync, a
  <2>11. PartInSync(a)'
    BY <1>1, <2>1, <2>9 DEF PartInSync
  <2>12. ReadingInSync' /\ ErrorInSync'
    BY <1>1, <1>11, <2>9, <2>10, <2>11 DEF ReadingInSync, ErrorInSync
  <2> QED BY <1>1, <1>2, <1>7, <1>8, <1>9, <2>8, <2>12 DEF InSync
<1> QED BY <1>10, <1>11

\* What the parser cuts out of the data is what the reader kept of the text.
LEMMA FilledAsRead ==
  ASSUME InputInv, pc = "parse", NEW a, Sound(a), a.state = state, a.request = request, TokenInSync(a), NEW to
  PROVE  Filled(state, to) = WithToken(a, to)
<1>1. /\ data \in Seq(Char) /\ Len(data) \in Nat /\ start \in Nat /\ cur \in Nat
      /\ start <= cur /\ cur <= Len(data) /\ colon \in Int /\ Marked(state, data, start, colon, cur)
  BY InputFacts DEF InputInv, TypeOK, TokensInOrder
<1>2. state \notin {"START", "BODY"} => a.token = Token(start, cur)
  BY DEF TokenInSync
<1>3. ASSUME state \in {"URL_PARAM_VALUE", "HEADER_VALUE"}, NEW skipped \in {1, 2}, colon + skipped <= cur
      PROVE  /\ SubSeq(a.token, 1, a.mark) = Token(start, colon)
             /\ SubSeq(a.token, a.mark + skipped + 1, Len(a.token)) = Token(colon + skipped, cur)
  <2>1. a.token = Token(start, cur) /\ a.mark = colon - start
    BY <1>2, <1>3 DEF TokenInSync, WithMark
  <2>2. start <= colon /\ colon < cur
    BY <1>1, <1>3 DEF Marked
  <2>3. PICK m \in Nat, l \in Nat : m = colon - start /\ l = cur - start /\ m + skipped <= l /\ m <= l
    BY <1>1, <1>3, <2>2
  <2>4. PICK f \in Nat : f = m + skipped /\ f <= l
    BY <1>3, <2>3
  <2>5. Len(a.token) = l
    BY <1>1, <2>1, <2>3, TokenFacts
  <2>6. a.token = SubSeq(data, start + 1, cur)
    BY <2>1 DEF Token
  <2>7. SubSeq(a.token, 0 + 1, m) = SubSeq(data, (start + 0) + 1, start + m)
    <3>1. 0 \in Nat /\ 0 <= m /\ m <= cur - start
      BY <2>3
    <3> QED BY <1>1, <2>6, <3>1, Within
  <2>8. SubSeq(a.token, f + 1, l) = SubSeq(data, (start + f) + 1, start + l)
    <3>1. f <= l /\ l <= cur - start
      BY <2>3, <2>4
    <3> QED BY <1>1, <2>6, <3>1, Within
  <2>9. /\ start + 0 = start /\ start + m = colon /\ start + l = cur /\ start + f = colon + skipped
        /\ a.mark = m /\ a.mark + skipped = f /\ 0 + 1 = 1
    BY <1>1, <1>3, <2>1, <2>3, <2>4
  <2>10. SubSeq(a.token, 1, a.mark) = Token(start, colon)
    BY <2>7, <2>9 DEF Token
  <2>11. SubSeq(a.token, a.mark + skipped + 1, Len(a.token)) = Token(colon + skipped, cur)
    BY <2>5, <2>8, <2>9 DEF Token
  <2> QED BY <2>10, <2>11
<1>4. CASE state = "URL_PARAM_VALUE"
  <2>1. colon + 1 <= cur
    BY <1>1, <1>4 DEF Marked
  <2>2. /\ SubSeq(a.token, 1, a.mark) = Token(start, colon)
        /\ SubSeq(a.token, a.mark + 1 + 1, Len(a.token)) = Token(colon + 1, cur)
    BY <1>3, <1>4, <2>1
  <2>3. Named(request.params, a, 1) = With(request.params, Token(start, colon), Token(colon + 1, cur))
    BY <2>2 DEF Named
  <2> QED BY <1>4, <2>3 DEF Filled, WithToken
<1>5. CASE state = "HEADER_VALUE"
  <2>1. colon + 2 <= cur
    BY <1>1, <1>5 DEF Marked
  <2>2. /\ SubSeq(a.token, 1, a.mark) = Token(start, colon)
        /\ SubSeq(a.token, a.mark + 2 + 1, Len(a.token)) = Token(colon + 2, cur)
    BY <1>3, <1>5, <2>1
  <2>3. Named(request.headers, a, 2) = With(request.headers, Token(start, colon), Token(colon + 2, cur))
    BY <2>2 DEF Named
  <2> QED BY <1>5, <2>3 DEF Filled, WithToken
<1>6. CASE state \notin {"URL_PARAM_VALUE", "HEADER_VALUE"}
  BY <1>2, <1>6 DEF Filled, WithToken
<1> QED BY <1>4, <1>5, <1>6

\* While a piece is parsed the peer and what is kept for later stay as they are.
LEMMA SyncWithin ==
  ASSUME InputsAsSaid, InputInv, InSync, pc = "parse", state \notin Invalid \cup {"COMPLETE"}, pc' = "parse",
         UNCHANGED <<input, sent, inBuffer, snapshot, data, size, outcome>>
  PROVE  /\ pc' # "terminated" /\ outcome' \in Seq(Results)
         /\ BufferInSync' /\ SnapshotInSync' /\ PeerInSync'
<1>1. outcome \in Seq(Results) /\ input.text \in Seq(Char) /\ sent \in Nat
  BY SyncFacts
<1>2. PeerInSync'
  BY DEF InSync, PeerInSync, HeadInPieces, InPlace
<1>3. BufferInSync'
  <2>1. inBuffer' = <<>> /\ Len(<<>>) = 0
    BY DEF InSync, DataInSync
  <2>2. LastSent(0)' = <<>>
    <3>1. sent' = sent /\ input' = input
      OBVIOUS
    <3>2. SubSeq(input.text, sent - 0 + 1, sent) = <<>>
      BY <1>1
    <3> QED BY <3>1, <3>2 DEF LastSent
  <2> QED BY <1>1, <2>1, <2>2 DEF BufferInSync
<1>4. SnapshotInSync'
  BY DEF SnapshotInSync
<1> QED BY <1>1, <1>2, <1>3, <1>4

\* The next character makes it no request.
LEMMA SyncRefused ==
  ASSUME InputsAsSaid, InputInv, InSync, pc = "parse", state \notin Invalid \cup {"COMPLETE", "BODY"}, cur < Len(data),
         pc' = "parse", UNCHANGED <<input, sent, inBuffer, snapshot, data, size, outcome>>,
         state' \in Invalid, Reading(input.text)[Place + 1] = Refused(Reading(input.text)[Place], state')
  PROVE  InSync'
<1> DEFINE a == Reading(input.text)[Place]
<1>1. /\ pc' # "terminated" /\ outcome' \in Seq(Results) /\ BufferInSync' /\ SnapshotInSync' /\ PeerInSync'
  BY SyncWithin
<1>2. /\ input.text \in Seq(Char) /\ Place \in 0 .. Len(input.text) /\ Place + 1 \in 0 .. Len(input.text)
      /\ Place + 1 <= sent /\ sent \in 0 .. Len(input.text)
  <2>1. /\ input.text \in Seq(Char) /\ Len(input.text) \in Nat /\ sent \in Nat /\ sent <= Len(input.text)
        /\ cur \in Nat /\ Len(data) \in Nat
    BY SyncFacts
  <2>2. Place = sent - Len(data) + cur /\ Place \in 0 .. Len(input.text) /\ Place + 1 \in 0 .. Len(input.text)
    BY PlaceFacts
  <2>3. Place + 1 <= sent
    BY <2>1, <2>2
  <2> QED BY <2>1, <2>2, <2>3
<1>3. Sound(a) /\ PartInSync(a)
  <2>1. Sound(a)
    BY <1>2, ReadingRecursion
  <2>2. ~Whole
    BY DEF Whole
  <2> QED BY <2>1, <2>2 DEF InSync, ReadingInSync
<1>4. a \in Readings /\ a.parsed = outcome /\ outcome \in Seq(Results) /\ Len(outcome) \in Nat
  BY <1>3, SyncFacts DEF Sound, PartInSync
<1>5. PICK x : x = [status |-> state', request |-> NoRequest]
  OBVIOUS
<1>6. Refused(a, state').parsed = Append(outcome, x) /\ Refused(a, state').state = state'
  <2> HIDE DEF a
  <2> QED BY <1>4, <1>5, RefusedSound
<1>7. PICK b : b = Reading(input.text)[sent] /\ b.state = state' /\ b.parsed = Append(outcome, x)
  <2>1. Reading(input.text)[Place + 1].state \in Invalid
    BY <1>6
  <2>2. Reading(input.text)[sent] = Reading(input.text)[Place + 1]
    BY <1>2, <2>1, ReadStaysRead
  <2> QED BY <1>6, <2>2
<1>8. /\ Len(b.parsed) = Len(outcome) + 1 /\ b.parsed[Len(outcome) + 1] = x
      /\ \A r \in 1 .. Len(outcome) : b.parsed[r] = outcome[r]
  BY <1>4, <1>7
<1>9. ErrorInSync'
  <2>1. \A r \in 1 .. Len(outcome) : r < Len(outcome) + 1
    BY <1>4
  <2>2. Len(outcome) + 1 \in 1 .. Len(outcome) + 1
    BY <1>4
  <2>3. Reading(input'.text)[sent'] = b /\ outcome' = outcome
    BY <1>7
  <2> QED BY <1>5, <1>7, <1>8, <2>1, <2>2, <2>3 DEF ErrorInSync
<1> QED BY <1>1, <1>9 DEF InSync, ReadingInSync, DataInSync

\* A character of the head.
LEMMA SyncParseHead ==
  ASSUME InputsAsSaid, InputInv, InSync, ParseHead
  PROVE  InSync'
<1> DEFINE text == input.text
<1>0. PICK a, b : a = Reading(text)[Place] /\ b = Reading(text)[Place + 1]
  OBVIOUS
<1>1. PICK c, to : c = data[cur + 1] /\ to = After(state, c)
  OBVIOUS
<1>2. /\ pc = "parse" /\ state \in HeadState \ {"CR_LF_CR"} /\ cur < Len(data) /\ state' = to /\ request' = Filled(state, to)
      /\ start' = IF <<state, to>> \in BeginsHere THEN cur
                  ELSE IF <<state, to>> \in BeginsNext THEN cur + 1 ELSE start
      /\ colon' = IF <<state, to>> \in Colons THEN cur ELSE colon
      /\ cur' = cur + 1 /\ pc' = "parse" /\ contentLength' = contentLength
      /\ UNCHANGED <<input, sent, inBuffer, snapshot, data, size, outcome>>
  BY <1>1 DEF ParseHead, At, stream
<1>3. /\ text \in Seq(Char) /\ Len(text) \in Nat /\ sent \in Nat /\ sent <= Len(text) /\ data \in Seq(Char) /\ Len(data) \in Nat
      /\ start \in Nat /\ cur \in Nat /\ start <= cur /\ cur <= Len(data) /\ colon \in Int /\ size \in Nat
  BY SyncFacts
<1>4. state \notin Invalid \cup {"COMPLETE", "BODY"} /\ ~Whole
  BY <1>2, StatesApart DEF Whole
<1>5. /\ Place = sent - Len(data) + cur /\ Place \in 0 .. Len(text) - 1 /\ Place \in 0 .. Len(text)
      /\ Place + 1 \in 0 .. Len(text) /\ c = text[Place + 1] /\ c \in Char
  <2>1. /\ Place = sent - Len(data) + cur /\ Place \in 0 .. Len(text) /\ Place < Len(text)
        /\ Place + 1 \in 0 .. Len(text) /\ c = text[Place + 1] /\ c \in Char
    BY <1>1, <1>2, <1>4, PlaceFacts
  <2>2. \A p \in 0 .. Len(text), n \in Nat : n = Len(text) /\ p < n => p \in 0 .. n - 1
    OBVIOUS
  <2>3. Place \in 0 .. Len(text) - 1
    BY <1>3, <2>1, <2>2
  <2> QED BY <2>1, <2>3
<1>6. Sound(a) /\ Sound(b) /\ b = Read(a, c) /\ PartInSync(a) /\ TokenInSync(a)
  <2>1. Sound(a) /\ Sound(b) /\ b = Read(a, c)
    BY <1>0, <1>3, <1>5, ReadingRecursion
  <2> QED BY <1>0, <1>4, <2>1 DEF InSync, ReadingInSync
<1>7. a.state = state /\ a.request = request /\ a.parsed = outcome /\ contentLength = Minus1 /\ b = ReadHead(a, c)
  <2>1. a.state = state /\ a.request = request /\ a.parsed = outcome /\ contentLength = Minus1
    BY <1>4, <1>6 DEF PartInSync
  <2>2. b = ReadHead(a, c)
    BY <1>2, <1>4, <1>6, <2>1 DEF Read
  <2> QED BY <2>1, <2>2
<1>8. /\ pc' # "terminated" /\ outcome' \in Seq(Results) /\ BufferInSync' /\ SnapshotInSync' /\ PeerInSync'
  BY <1>2, <1>4, SyncWithin
<1>9. CASE to \in Invalid
  <2>1. b = Refused(a, to)
    BY <1>1, <1>2, <1>5, <1>6, <1>7, <1>9, ReadHeadSound
  <2> QED BY <1>0, <1>2, <1>4, <1>9, <2>1, SyncRefused
<1>10. CASE to \notin Invalid
  <2>1. to \in HeadState /\ to # "BODY" /\ to # "COMPLETE"
    BY <1>1, <1>2, <1>10, AfterFacts, StatesApart
  <2>2. /\ b.state = to /\ b.parsed = outcome /\ b.request = WithToken(a, to) /\ b.token = TokenWith(a, c, to)
        /\ b.mark = IF <<state, to>> \in Colons THEN Len(a.token) ELSE a.mark
    BY <1>1, <1>2, <1>5, <1>6, <1>7, <1>10, ReadHeadSound
  <2>3. b.request = request'
    BY <1>2, <1>6, <1>7, <2>2, FilledAsRead
  <2>4. Place' = Place + 1 /\ ~Whole' /\ Reading(text')[Place'] = b
    <3>1. Place' = sent - Len(data) + (cur + 1)
      BY <1>2, <2>1 DEF Place
    <3>2. Place' = Place + 1
      BY <1>3, <1>5, <3>1
    <3> QED BY <1>0, <1>2, <2>1, <3>2 DEF Whole
  <2>5. PartInSync(b)'
    BY <1>2, <1>7, <2>1, <2>2, <2>3 DEF PartInSync
  <2>6. state \notin {"START", "BODY"} => a.token = Token(start, cur)
    BY <1>2, <1>6 DEF TokenInSync
  <2>7. ASSUME to # "START" PROVE b.token = Token(start, cur)'
    <3>1. Token(start, cur)' = SubSeq(data, start' + 1, cur + 1)
      BY <1>2 DEF Token
    <3>2. CASE <<state, to>> \in BeginsHere
      <4>1. b.token = <<c>> /\ start' = cur
        BY <1>2, <1>7, <2>2, <3>2 DEF TokenWith
      <4>2. SubSeq(data, cur + 1, cur) = <<>> /\ Append(SubSeq(data, cur + 1, cur), data[cur + 1]) = SubSeq(data, cur + 1, cur + 1)
        BY <1>2, <1>3, OneFurther
      <4>3. Append(<<>>, c) = <<c>>
        OBVIOUS
      <4> QED BY <1>1, <3>1, <4>1, <4>2, <4>3
    <3>3. CASE <<state, to>> \notin BeginsHere /\ <<state, to>> \in BeginsNext
      <4>1. b.token = <<>> /\ start' = cur + 1
        BY <1>2, <1>7, <2>2, <3>3 DEF TokenWith
      <4>2. SubSeq(data, (cur + 1) + 1, cur + 1) = <<>>
        BY <1>3
      <4> QED BY <3>1, <4>1, <4>2
    <3>4. CASE <<state, to>> \notin BeginsHere \cup BeginsNext
      <4>1. state # "START"
        <5>1. ASSUME state = "START" PROVE to \in {"START", "METHOD"}
          <6>1. \A r \in Rules : r[1] = "START" => r[3] \in {"START", "METHOD"}
            BY DEF Rules
          <6>2. Otherwise("START") \in Invalid
            BY DEF Otherwise, Invalid
          <6> QED BY <1>1, <1>10, <5>1, <6>1, <6>2 DEF After
        <5> QED BY <2>7, <3>4, <5>1 DEF BeginsHere
      <4>2. b.token = Append(a.token, c) /\ start' = start /\ a.token = Token(start, cur)
        BY <1>2, <1>4, <1>7, <2>2, <2>6, <3>4, <4>1 DEF TokenWith
      <4>3. Append(SubSeq(data, start + 1, cur), data[cur + 1]) = SubSeq(data, start + 1, cur + 1)
        BY <1>2, <1>3, OneFurther
      <4> QED BY <1>1, <3>1, <4>2, <4>3 DEF Token
    <3> QED BY <3>2, <3>3, <3>4
  <2>8. ASSUME to \in WithMark PROVE b.mark = colon' - start'
    <3>1. start' = start
      <4>1. <<state, to>> \notin BeginsHere \cup BeginsNext
        BY <2>8 DEF WithMark, BeginsHere, BeginsNext
      <4> QED BY <1>2, <4>1
    <3>2. CASE <<state, to>> \in Colons
      <4>1. state \notin {"START", "BODY"} /\ a.token = Token(start, cur)
        BY <2>6, <3>2 DEF Colons
      <4>2. Len(a.token) = cur - start
        BY <1>3, <4>1, TokenFacts
      <4> QED BY <1>2, <2>2, <3>1, <3>2, <4>2
    <3>3. CASE <<state, to>> \notin Colons
      <4>1. state \in WithMark
        BY <1>1, <1>2, <2>8, <3>3, AfterFacts DEF WithMark, Colons
      <4>2. a.mark = colon - start
        BY <1>2, <1>6, <4>1 DEF TokenInSync
      <4> QED BY <1>2, <2>2, <3>1, <3>3, <4>2
    <3> QED BY <3>2, <3>3
  <2>9. TokenInSync(b)'
    BY <1>2, <2>7, <2>8 DEF TokenInSync
  <2>10. DataInSync'
    <3>1. /\ inBuffer = <<>> /\ Len(data) <= sent /\ data = LastSent(Len(data)) /\ Len(data) - size <= cur
          /\ (~HeadInPieces => size = Len(data)) /\ snapshot.parseState # "BODY"
      BY <1>2, <1>4 DEF InSync, DataInSync
    <3>2. Len(data) - size <= cur + 1
      BY <1>3, <3>1
    <3>3. state' # "BODY" /\ LastSent(Len(data))' = LastSent(Len(data))
      BY <1>2, <2>1 DEF LastSent
    <3> QED BY <1>2, <3>1, <3>2, <3>3 DEF DataInSync, HeadInPieces
  <2>11. ReadingInSync' /\ ErrorInSync'
    BY <1>2, <1>10, <2>4, <2>5, <2>9 DEF ReadingInSync, ErrorInSync
  <2> QED BY <1>8, <2>10, <2>11 DEF InSync
<1> QED BY <1>9, <1>10

\* The character that ends the head.
LEMMA SyncEndOfHead ==
  ASSUME InputsAsSaid, InputInv, InSync, EndOfHead
  PROVE  InSync'
<1> DEFINE text == input.text
<1>0. PICK a, b, r : a = Reading(text)[Place] /\ b = Reading(text)[Place + 1] /\ r = Len(outcome) + 1
  OBVIOUS
<1>1. PICK c, length : c = data[cur + 1] /\ length = LengthOf(request.headers)
  OBVIOUS
<1>2. /\ pc = "parse" /\ state = "CR_LF_CR" /\ cur < Len(data) /\ cur' = cur + 1 /\ pc' = "parse"
      /\ UNCHANGED <<input, sent, inBuffer, request, snapshot, data, size, colon, outcome>>
      /\ c # LF => state' = "INVALID_CRLF"
      /\ c = LF => /\ contentLength' = length /\ start' = cur + 1
                   /\ state' = IF cur + 1 < size \/ (HasLength(request) /\ length # 0) THEN "BODY" ELSE "COMPLETE"
  BY <1>1 DEF EndOfHead, At, stream, HasLength
<1>3. /\ text \in Seq(Char) /\ Len(text) \in Nat /\ sent \in Nat /\ sent <= Len(text) /\ data \in Seq(Char) /\ Len(data) \in Nat
      /\ cur \in Nat /\ cur <= Len(data) /\ size \in Nat /\ size <= Len(data) /\ input \in Inputs /\ ReadsAsSaid(input)
      /\ outcome \in Seq(Results) /\ Len(outcome) \in Nat
  BY SyncFacts
<1>4. state \notin Invalid \cup {"COMPLETE", "BODY"} /\ ~Whole
  BY <1>2, StatesApart DEF Whole
<1>5. /\ Place = sent - Len(data) + cur /\ Place \in Nat /\ Place \in 0 .. Len(text) /\ Place < Len(text)
      /\ Place \in 0 .. Len(text) - 1 /\ Place + 1 \in 0 .. Len(text) /\ c = text[Place + 1] /\ c \in Char
  <2>1. /\ Place = sent - Len(data) + cur /\ Place \in 0 .. Len(text) /\ Place < Len(text)
        /\ Place + 1 \in 0 .. Len(text) /\ c = text[Place + 1] /\ c \in Char
    BY <1>1, <1>2, <1>4, PlaceFacts
  <2>2. \A p \in 0 .. Len(text), n \in Nat : n = Len(text) /\ p < n => p \in 0 .. n - 1 /\ p \in Nat
    OBVIOUS
  <2>3. Place \in 0 .. Len(text) - 1 /\ Place \in Nat
    BY <1>3, <2>1, <2>2
  <2> QED BY <2>1, <2>3
<1>6. Sound(a) /\ b = Read(a, c) /\ PartInSync(a)
  <2>1. Sound(a) /\ b = Read(a, c)
    BY <1>0, <1>3, <1>5, ReadingRecursion
  <2> QED BY <1>0, <1>4, <2>1 DEF InSync, ReadingInSync
<1>7. /\ a.state = state /\ a.request = request /\ a.parsed = outcome /\ contentLength = Minus1
      /\ b = ReadEndOfHead(a, c)
  <2>1. a.state = state /\ a.request = request /\ a.parsed = outcome /\ contentLength = Minus1
    BY <1>4, <1>6 DEF PartInSync
  <2>2. b = ReadEndOfHead(a, c)
    BY <1>2, <1>4, <1>6, <2>1, StatesApart DEF Read
  <2> QED BY <2>1, <2>2
<1>8. /\ pc' # "terminated" /\ outcome' \in Seq(Results) /\ BufferInSync' /\ SnapshotInSync' /\ PeerInSync'
  BY <1>2, <1>4, SyncWithin
<1>9. CASE c # LF
  <2>1. b = Refused(a, "INVALID_CRLF") /\ "INVALID_CRLF" \in Invalid
    BY <1>5, <1>6, <1>7, <1>9, ReadEndOfHeadSound DEF Invalid
  <2> QED BY <1>0, <1>2, <1>4, <1>9, <2>1, SyncRefused
<1>10. CASE c = LF
  <2>1. /\ b = ReadEndOfHead(a, LF) /\ r \in 1 .. Len(input.parsed) /\ input.heads[r] = Place + 1
        /\ BodyLength(request) = 0 =>
             /\ input.ends[r] = Place + 1
             /\ input.parsed[r] = [status |-> "COMPLETE", request |-> request]
    <3>1. PICK p \in Nat : p = Place
      BY <1>5
    <3>2. a = Reading(text)[p] /\ b = Reading(text)[p + 1] /\ p < Len(text) /\ text[p + 1] = LF /\ a.state = "CR_LF_CR"
      BY <1>0, <1>2, <1>5, <1>7, <1>10, <3>1
    <3>3. /\ b = ReadEndOfHead(a, LF) /\ Len(a.parsed) + 1 \in 1 .. Len(input.parsed)
          /\ input.heads[Len(a.parsed) + 1] = p + 1
          /\ BodyLength(a.request) = 0 =>
               /\ input.ends[Len(a.parsed) + 1] = p + 1
               /\ input.parsed[Len(a.parsed) + 1] = [status |-> "COMPLETE", request |-> a.request]
      BY <1>3, <3>2, HeadEndsHere
    <3> QED BY <1>0, <1>7, <3>1, <3>3
  <2>2. /\ DOMAIN input.heads = 1 .. Len(input.parsed) /\ DOMAIN input.ends = 1 .. Len(input.parsed)
        /\ DOMAIN input.waits = 1 .. Len(input.parsed) /\ DOMAIN input.parsed = 1 .. Len(input.parsed)
    BY <1>3, InputSays
  <2>3. /\ inBuffer = <<>> /\ Len(data) <= sent /\ data = LastSent(Len(data)) /\ Len(data) - size <= cur
        /\ (~HeadInPieces => size = Len(data)) /\ snapshot.parseState # "BODY"
    BY <1>2, <1>4 DEF InSync, DataInSync
  <2>4. size = Len(data) \/ cur + 1 = Len(data)
    <3>1. ASSUME HeadInPieces PROVE cur + 1 = Len(data)
      <4>1. input.heads[r] <= sent - size \/ sent <= input.heads[r]
        BY <1>2, <1>4, <2>1, <2>2, <3>1 DEF InSync, PeerInSync
      <4>2. PICK p \in Nat : p = Place /\ p = sent - Len(data) + cur
        BY <1>5
      <4>3. p + 1 <= sent - size \/ sent <= p + 1
        BY <2>1, <4>1, <4>2
      <4> QED BY <1>2, <1>3, <2>3, <4>2, <4>3
    <3> QED BY <2>3, <3>1
  <2>5. /\ Len(data') - size' <= cur' /\ inBuffer' = <<>> /\ Len(data') <= sent' /\ data' = LastSent(Len(data))'
        /\ (~HeadInPieces => size = Len(data))'
    <3>1. Len(data) - size <= cur + 1
      BY <1>3, <2>3
    <3> QED BY <1>2, <2>3, <3>1 DEF LastSent, HeadInPieces
  <2>6. ASSUME state' = "BODY", contentLength' = 0 => cur + 1 < Len(data) PROVE DataInSync'
    <3>1. cur' < Len(data') => start' = cur' /\ size' = Len(data')
      BY <1>2, <1>3, <1>10, <2>4
    <3>2. start' > 0 /\ input'.heads[Len(outcome') + 1] = Place'
      <4>1. Place' = sent - Len(data) + (cur + 1)
        BY <1>2, <2>6, StatesApart DEF Place
      <4>2. Place' = Place + 1
        BY <1>3, <1>5, <4>1
      <4>3. start' > 0
        BY <1>2, <1>3, <1>10
      <4> QED BY <1>0, <1>2, <2>1, <4>2, <4>3
    <3> QED BY <1>2, <2>5, <2>6, <3>1, <3>2 DEF DataInSync
  <2>7. state' = "BODY" => Place' = Place + 1
    <3>1. ASSUME state' = "BODY" PROVE Place' = sent - Len(data) + (cur + 1)
      BY <1>2, <3>1, StatesApart DEF Place
    <3> QED BY <1>3, <1>5, <3>1
  <2>8. state' \in {"BODY", "COMPLETE"} /\ state' \notin Invalid
    BY <1>2, <1>10, StatesApart
  <2>9. length = IF HasLength(request) THEN BodyLength(request) ELSE Minus1
    BY <1>1, <1>7 DEF LengthOf, BodyLength, HasLength
  <2>10. CASE BodyLength(request) # 0
    <3>1. HasLength(request) /\ contentLength' = BodyLength(request) /\ state' = "BODY"
      <4>1. HasLength(request)
        BY <2>10 DEF BodyLength
      <4> QED BY <1>2, <1>10, <2>9, <2>10, <4>1
    <3>2. b.state = "BODY" /\ b.left = BodyLength(request) /\ b.parsed = outcome /\ b.request = request
      BY <1>5, <1>6, <1>7, <1>10, <2>10, ReadEndOfHeadSound
    <3>3. PartInSync(b)' /\ TokenInSync(b)' /\ ~Whole' /\ Reading(text')[Place'] = b
      BY <1>0, <1>2, <2>7, <2>10, <3>1, <3>2, StatesApart DEF PartInSync, TokenInSync, Whole
    <3>4. ReadingInSync' /\ ErrorInSync'
      BY <2>8, <3>3 DEF ReadingInSync, ErrorInSync
    <3>5. DataInSync'
      BY <2>6, <2>10, <3>1
    <3> QED BY <1>8, <3>4, <3>5 DEF InSync
  <2>11. CASE BodyLength(request) = 0
    <3>1. b = NewRequest(Append(outcome, [status |-> "COMPLETE", request |-> request]))
      BY <1>5, <1>6, <1>7, <1>10, <2>11, ReadEndOfHeadSound DEF Answered
    <3>2. input.ends[r] = Place + 1 /\ input.parsed[r] = [status |-> "COMPLETE", request |-> request]
      BY <2>1, <2>11
    <3>3. ~HasLength(request) => cur + 1 = Len(data)
      <4>1. ASSUME ~HasLength(request) PROVE sent <= Place + 1
        <5>1. input.waits[r]
          <6>1. input.parsed[r].status = "COMPLETE" /\ ~HasLength(input.parsed[r].request) => input.waits[r]
            BY <1>3, <2>1, <2>2 DEF ReadsAsSaid
          <6> QED BY <3>2, <4>1, <6>1
        <5>2. r > Len(outcome)
          BY <1>0, <1>3
        <5>3. sent <= input.ends[r]
          BY <2>1, <2>2, <5>1, <5>2 DEF InSync, PeerInSync
        <5> QED BY <3>2, <5>3
      <4>2. PICK l \in Nat, p \in Nat : l = Len(data) /\ p = Place /\ p = sent - l + cur /\ cur < l
        BY <1>2, <1>3, <1>5
      <4>3. sent <= p + 1 => cur + 1 = l
        BY <1>3, <4>2
      <4> QED BY <4>1, <4>2, <4>3
    <3>4. CASE state' = "BODY"
      <4>1. cur + 1 < size /\ HasLength(request) /\ contentLength' = 0
        <5>1. cur + 1 < size
          BY <1>2, <1>3, <1>10, <2>9, <2>11, <3>4
        <5>2. HasLength(request)
          BY <1>3, <3>3, <5>1
        <5> QED BY <1>2, <1>10, <2>9, <2>11, <5>1, <5>2
      <4>2. Whole'
        BY <1>2, <3>4, <4>1 DEF Whole
      <4>3. WholeInSync(b)' /\ Reading(text')[Place'] = b
        BY <1>0, <1>2, <2>7, <3>1, <3>2, <3>4 DEF WholeInSync
      <4>4. ReadingInSync' /\ ErrorInSync'
        BY <2>8, <4>2, <4>3 DEF ReadingInSync, ErrorInSync
      <4>5. DataInSync'
        <5>1. cur + 1 < Len(data)
          BY <1>3, <4>1
        <5> QED BY <2>6, <3>4, <5>1
      <4> QED BY <1>8, <4>4, <4>5 DEF InSync
    <3>5. CASE state' = "COMPLETE"
      <4>1. cur + 1 = Len(data)
        <5>1. ~(cur + 1 < size)
          BY <1>2, <1>10, <3>5, StatesApart
        <5> QED BY <1>2, <1>3, <2>4, <5>1
      <4>2. Place' = Place + 1
        <5>1. Place' = sent - 0
          <6>1. Len(<<>>) = 0
            OBVIOUS
          <6> QED BY <1>2, <2>3, <3>5, <6>1 DEF Place
        <5>2. PICK l \in Nat : l = Len(data) /\ l = cur + 1
          BY <1>3, <4>1
        <5>3. Place = sent - l + cur
          BY <1>5, <5>2
        <5> QED BY <1>3, <5>1, <5>2, <5>3
      <4>3. Whole'
        BY <1>2, <3>5 DEF Whole
      <4>4. WholeInSync(b)' /\ Reading(text')[Place'] = b
        BY <1>0, <1>2, <3>1, <3>2, <4>2 DEF WholeInSync
      <4>5. ReadingInSync' /\ ErrorInSync'
        BY <2>8, <4>3, <4>4 DEF ReadingInSync, ErrorInSync
      <4>6. DataInSync'
        BY <3>5 DEF DataInSync
      <4> QED BY <1>8, <4>5, <4>6 DEF InSync
    <3> QED BY <2>8, <3>4, <3>5
  <2> QED BY <2>10, <2>11
<1> QED BY <1>9, <1>10

\* In a body the piece holds what is left of the data, and the parser's reckoning
\* does not wrap around.
LEMMA BodyFacts ==
  ASSUME InputsAsSaid, InputInv, InSync, At({"BODY"})
  PROVE  /\ pc = "parse" /\ state = "BODY" /\ start = cur /\ size = Len(data)
         /\ Left \in Nat /\ Left = Len(data) - cur /\ start + Left = Len(data) /\ start + Left <= Len(data)
         /\ Place \in Nat /\ Place \in 0 .. Len(input.text) /\ Place + Left = sent
         /\ inBuffer = <<>> /\ input.text \in Seq(Char) /\ cur \in Nat /\ Len(data) \in Nat /\ sent \in Nat
         /\ sent <= Len(input.text) /\ contentLength \in Nat /\ Len(input.text) \in Nat
         /\ \A k \in Nat : k <= Left => Token(start, start + k) = SubSeq(input.text, Place + 1, Place + k)
         /\ \A k \in Nat : k <= Left => Token(start + k, start + Left) = SubSeq(input.text, (Place + k) + 1, sent)
<1>1. pc = "parse" /\ state = "BODY" /\ cur < Len(data) /\ state \notin Invalid \cup {"COMPLETE"}
  BY StatesApart DEF At
<1>2. /\ input.text \in Seq(Char) /\ sent \in Nat /\ sent <= Len(input.text) /\ Len(input.text) < SizeT
      /\ SizeT \in Nat /\ SizeT > 0 /\ Len(data) \in Nat /\ cur \in Nat /\ cur <= Len(data) /\ Len(input.text) \in Nat
      /\ contentLength \in Nat
  <2>1. contentLength \in 0 .. SizeT - 1
    BY SyncFacts
  <2> QED BY <2>1, SyncFacts
<1>3. start = cur /\ size = Len(data) /\ Len(data) <= sent /\ inBuffer = <<>>
  BY <1>1 DEF InSync, DataInSync
<1>4. PICK l \in Nat, d \in Nat, base \in Nat : l = d - cur /\ d = Len(data) /\ base = sent - d
  BY <1>2, <1>3
<1>5. Left = l
  <2>1. l < SizeT /\ l \in 0 .. SizeT - 1
    BY <1>2, <1>3, <1>4
  <2>2. \A m \in 0 .. SizeT - 1 : m % SizeT = m
    BY <1>2
  <2>3. l % SizeT = l
    BY <2>1, <2>2
  <2> QED BY <1>3, <1>4, <2>3 DEF Left
<1>6. Place = base + cur /\ Place \in 0 .. Len(input.text)
  BY <1>1, <1>4, PlaceFacts
<1>7. Place \in Nat /\ cur + l = d /\ (base + cur) + l = sent /\ base + d = sent
  BY <1>2, <1>4, <1>6
<1>8. \A from \in Nat, to \in Nat : from <= to /\ to <= d =>
         Token(from, to) = SubSeq(input.text, (base + from) + 1, base + to)
  BY <1>1, <1>4, PlaceFacts
<1>9. ASSUME NEW k \in Nat, k <= l
      PROVE  /\ Token(cur, cur + k) = SubSeq(input.text, (base + cur) + 1, (base + cur) + k)
             /\ Token(cur + k, d) = SubSeq(input.text, ((base + cur) + k) + 1, sent)
  <2>1. PICK m \in Nat : m = cur + k /\ m <= d /\ cur <= m /\ base + m = (base + cur) + k
    BY <1>2, <1>4, <1>9
  <2>2. Token(cur, m) = SubSeq(input.text, (base + cur) + 1, base + m)
    BY <1>2, <1>8, <2>1
  <2>3. Token(m, d) = SubSeq(input.text, (base + m) + 1, base + d)
    <3>1. d \in Nat /\ d <= d /\ m \in Nat /\ m <= d
      BY <1>4, <2>1
    <3> QED BY <1>8, <3>1
  <2> QED BY <1>7, <2>1, <2>2, <2>3
<1>10. start + Left = d /\ Place + Left = sent /\ d <= Len(data)
  <2>1. start + Left = d
    BY <1>3, <1>5, <1>7
  <2>2. Place + Left = sent
    BY <1>5, <1>6, <1>7
  <2>3. d <= Len(data)
    BY <1>2, <1>4
  <2> QED BY <2>1, <2>2, <2>3
<1>11. \A k \in Nat : k <= Left =>
          /\ Token(start, start + k) = SubSeq(input.text, Place + 1, Place + k)
          /\ Token(start + k, start + Left) = SubSeq(input.text, (Place + k) + 1, sent)
  BY <1>3, <1>5, <1>6, <1>7, <1>9
<1> QED BY <1>1, <1>2, <1>3, <1>4, <1>5, <1>6, <1>7, <1>10, <1>11

\* A piece of a body that goes on.
LEMMA SyncBodyGoesOn ==
  ASSUME InputsAsSaid, InputInv, InSync, BodyGoesOn
  PROVE  InSync'
<1>0. PICK a, b : a = Reading(input.text)[Place] /\ b = Reading(input.text)[sent]
  OBVIOUS
<1>1. /\ pc = "parse" /\ state = "BODY" /\ start = cur /\ size = Len(data) /\ Left \in Nat /\ start + Left = Len(data)
      /\ Place \in 0 .. Len(input.text) /\ Place + Left = sent /\ start + Left <= Len(data)
      /\ input.text \in Seq(Char) /\ cur \in Nat /\ Len(data) \in Nat /\ sent \in Nat
      /\ sent <= Len(input.text) /\ contentLength \in Nat
      /\ Token(start, start + Left) = SubSeq(input.text, Place + 1, Place + Left)
  <2>1. At({"BODY"})
    BY DEF BodyGoesOn
  <2>2. \A k \in Nat : k <= Left => Token(start, start + k) = SubSeq(input.text, Place + 1, Place + k)
    BY <2>1, BodyFacts
  <2>3. Left \in Nat /\ Left <= Left
    BY <2>1, BodyFacts
  <2> QED BY <2>1, <2>2, <2>3, BodyFacts
<1>2. /\ contentLength > Left /\ contentLength' = contentLength - Left /\ cur' = Len(data)
      /\ request' = [request EXCEPT !.body = @ \o Token(start, start + Left)]
      /\ state' = "BODY" /\ pc' = "parse"
      /\ UNCHANGED <<input, sent, inBuffer, snapshot, data, size, start, colon, outcome>>
  BY <1>1 DEF BodyGoesOn, stream
<1>3. contentLength > 0 /\ contentLength' > 0
  <2>1. Left \in Nat /\ contentLength \in Nat /\ contentLength > Left /\ contentLength' = contentLength - Left
    BY <1>1, <1>2
  <2> QED BY <2>1
<1>4. state \notin Invalid \cup {"COMPLETE"} /\ ~Whole /\ ~Whole' /\ state' \notin Invalid
  <2>1. state = "BODY" /\ contentLength # 0
    BY <1>1, <1>3
  <2>2. state' = "BODY" /\ contentLength' # 0
    BY <1>2, <1>3
  <2> QED BY <2>1, <2>2, StatesApart DEF Whole
<1>5. a.state = "BODY" /\ a.request = request /\ a.parsed = outcome /\ a.left = contentLength
  <2>1. PartInSync(a)
    BY <1>0, <1>4 DEF InSync, ReadingInSync
  <2> QED BY <1>1, <2>1 DEF PartInSync
<1>6. InBody(a, b, input.text, Place, Left)
  <2>1. PICK p \in 0 .. Len(input.text), k \in Nat : p = Place /\ k = Left /\ p + k = sent /\ k <= contentLength
    <3>1. Left <= contentLength
      <4>1. Left \in Nat /\ contentLength \in Nat /\ contentLength > Left
        BY <1>1, <1>2
      <4> QED BY <4>1
    <3> QED BY <1>1, <3>1
  <2>2. a = Reading(input.text)[p] /\ b = Reading(input.text)[p + k] /\ k <= a.left /\ p + k <= Len(input.text)
    BY <1>0, <1>1, <1>5, <2>1
  <2> QED BY <1>1, <1>5, <2>1, <2>2, ReadBodyRun
<1>7. /\ b.state = "BODY" /\ b.left = contentLength' /\ b.parsed = outcome /\ b.request = request'
  BY <1>1, <1>2, <1>5, <1>6 DEF InBody, BodyTo
<1>8. Place' = sent
  <2>1. Place' = sent - Len(data) + Len(data)
    BY <1>2, StatesApart DEF Place
  <2> QED BY <1>1, <2>1
<1>9. PartInSync(b)' /\ TokenInSync(b)' /\ Reading(input'.text)[Place'] = b
  <2>1. state' \notin WithMark /\ state' \in {"START", "BODY"}
    BY <1>2, StatesApart
  <2>2. PartInSync(b)'
    BY <1>2, <1>7 DEF PartInSync
  <2>3. TokenInSync(b)'
    BY <2>1 DEF TokenInSync
  <2> QED BY <1>0, <1>2, <1>8, <2>2, <2>3
<1>10. ReadingInSync' /\ ErrorInSync'
  BY <1>4, <1>9 DEF ReadingInSync, ErrorInSync
<1>11. DataInSync'
  <2>1. inBuffer = <<>> /\ Len(data) <= sent /\ data = LastSent(Len(data)) /\ (~HeadInPieces => size = Len(data))
    BY <1>1, <1>4 DEF InSync, DataInSync
  <2>2. LastSent(Len(data))' = LastSent(Len(data)) /\ (~HeadInPieces => size = Len(data))'
    BY <1>2, <2>1 DEF LastSent, HeadInPieces
  <2>3. Len(data') - size' <= cur' /\ ~(cur' < Len(data')) /\ contentLength' # 0
    <3>1. PICK d \in Nat : d = Len(data) /\ size = d /\ cur' = d /\ Len(data') = d /\ size' = d
      BY <1>1, <1>2
    <3>2. d - d <= d /\ ~(d < d)
      BY <3>1
    <3> QED BY <1>3, <3>1, <3>2
  <2> QED BY <1>2, <2>1, <2>2, <2>3 DEF DataInSync
<1>12. /\ pc' # "terminated" /\ outcome' \in Seq(Results) /\ BufferInSync' /\ SnapshotInSync' /\ PeerInSync'
  BY <1>1, <1>2, <1>4, SyncWithin
<1> QED BY <1>10, <1>11, <1>12 DEF InSync

\* Putting the rest back in front of the data leaves what is behind the rest.
LEMMA BehindTheRest ==
  ASSUME data \in Seq(Char), NEW extra \in Seq(Char), NEW from \in Nat, NEW to \in Nat, from <= to, to <= Len(data),
         Len(extra) <= from
  PROVE  SubSeq(extra \o Token(Len(extra), Len(data)), from + 1, to) = Token(from, to)
<1>1. PICK e \in Nat, d \in Nat : e = Len(extra) /\ d = Len(data) /\ e <= d /\ to <= d /\ e <= from
  <2>1. Len(extra) \in Nat /\ Len(data) \in Nat /\ Len(extra) <= Len(data)
    OBVIOUS
  <2> QED BY <2>1
<1> DEFINE tail == Token(e, d)
<1>2. tail \in Seq(Char) /\ Len(tail) = d - e /\ \A i \in 1 .. d - e : tail[i] = data[e + i]
  <2>1. e \in Nat /\ d \in Nat /\ e <= d /\ d <= Len(data)
    BY <1>1
  <2> QED BY <2>1, TokenFacts
<1> HIDE DEF tail
<1>3. PICK m : m = extra \o tail
  OBVIOUS
<1>4. m \in Seq(Char) /\ Len(m) = d /\ \A i \in 1 .. d : i > e => m[i] = data[i]
  <2>1. m \in Seq(Char) /\ Len(m) = e + (d - e)
    <3>1. extra \o tail \in Seq(Char) /\ Len(extra \o tail) = Len(extra) + Len(tail)
      BY <1>2, Joined
    <3> QED BY <1>1, <1>2, <1>3, <3>1
  <2>2. e + (d - e) = d
    BY <1>1
  <2>3. ASSUME NEW i \in 1 .. d, i > e PROVE m[i] = data[i]
    <3>1. m[i] = tail[i - e]
      <4>1. i \in 1 .. (Len(extra) + Len(tail)) /\ ~(i <= Len(extra))
        BY <1>1, <1>2, <2>2, <2>3
      <4> QED BY <1>1, <1>2, <1>3, <4>1
    <3>2. i - e \in 1 .. d - e /\ e + (i - e) = i
      BY <1>1, <2>3
    <3> QED BY <1>2, <3>1, <3>2
  <2> QED BY <2>1, <2>2, <2>3
<1>5. PICK x, y : x = SubSeq(m, from + 1, to) /\ y = Token(from, to)
  OBVIOUS
<1>6. x \in Seq(Char) /\ Len(x) = to - from /\ \A i \in 1 .. to - from : x[i] = m[from + i]
  BY <1>1, <1>4, <1>5, Middle
<1>7. y \in Seq(Char) /\ Len(y) = to - from /\ \A i \in 1 .. to - from : y[i] = data[from + i]
  BY <1>5, TokenFacts
<1>8. \A i \in 1 .. to - from : x[i] = y[i]
  <2>1. ASSUME NEW i \in 1 .. to - from PROVE m[from + i] = data[from + i]
    <3>1. from + i \in 1 .. d /\ from + i > e
      BY <1>1, <2>1
    <3> QED BY <1>4, <3>1
  <2> QED BY <1>6, <1>7, <2>1
<1>9. x = y
  BY <1>6, <1>7, <1>8, SameElements
<1> QED BY <1>1, <1>3, <1>5, <1>9 DEF tail

\* The request the last byte of its body makes whole is the one the reader has read
\* there; and it ends there.
LEMMA BodyRead ==
  ASSUME InputsAsSaid, InputInv, InSync, At({"BODY"}), contentLength <= Left
  PROVE  /\ Reading(input.text)[Place + contentLength] =
              NewRequest(Append(outcome, [status |-> "COMPLETE",
                                          request |-> BodyTo(request, input.text, Place, contentLength)]))
         /\ input.ends[Len(outcome) + 1] = Place + contentLength
<1> DEFINE text == input.text
<1>0. PICK a, b, p, k : a = Reading(text)[Place] /\ b = Reading(text)[Place + contentLength] /\ p = Place /\ k = contentLength
  OBVIOUS
<1>1. /\ pc = "parse" /\ state = "BODY" /\ p \in Nat /\ p \in 0 .. Len(text) /\ text \in Seq(Char)
      /\ k \in Nat /\ Len(text) \in Nat /\ p + k <= Len(text)
  <2>1. /\ pc = "parse" /\ state = "BODY" /\ Place \in Nat /\ Place \in 0 .. Len(text) /\ text \in Seq(Char)
        /\ contentLength \in Nat /\ Len(text) \in Nat /\ Place + Left = sent /\ Left \in Nat /\ sent <= Len(text)
    BY BodyFacts
  <2>2. p + k <= Len(text)
    <3>1. PICK l \in Nat : l = Left /\ p + l <= Len(text) /\ k <= l
      BY <1>0, <2>1
    <3> QED BY <1>0, <2>1, <3>1
  <2> QED BY <1>0, <2>1, <2>2
<1>2. request \in Requests /\ outcome \in Seq(Results) /\ Len(outcome) \in Nat /\ input \in Inputs /\ ReadsAsSaid(input)
  BY SyncFacts
<1>3. CASE k = 0
  <2>1. Whole /\ state \notin Invalid
    BY <1>0, <1>1, <1>3, StatesApart DEF Whole
  <2>2. WholeInSync(a)
    BY <1>0, <2>1 DEF InSync, ReadingInSync
  <2>3. p + k = p /\ a = b
    BY <1>0, <1>1, <1>3
  <2>4. BodyTo(request, text, p, k) = request
    BY <1>1, <1>2, <1>3, BodyToFacts
  <2> QED BY <1>0, <2>2, <2>3, <2>4 DEF WholeInSync
<1>4. CASE k # 0
  <2>1. ~Whole /\ state \notin Invalid
    BY <1>0, <1>1, <1>4, StatesApart DEF Whole
  <2>2. a.state = "BODY" /\ a.request = request /\ a.parsed = outcome /\ a.left = k
    <3>1. PartInSync(a)
      BY <1>0, <2>1 DEF InSync, ReadingInSync
    <3> QED BY <1>0, <1>1, <3>1 DEF PartInSync
  <2>3. b = Answered(a, BodyTo(request, text, p, k))
    <3>1. InBody(a, Reading(text)[p + k], text, p, k)
      <4>1. Reading(text)[p].state = "BODY" /\ k <= Reading(text)[p].left
        BY <1>0, <1>1, <2>2
      <4>2. InBody(Reading(text)[p], Reading(text)[p + k], text, p, k)
        BY <1>1, <4>1, ReadBodyRun
      <4> QED BY <1>0, <4>2
    <3> QED BY <1>0, <2>2, <3>1 DEF InBody
  <2>4. PICK q : q = BodyTo(request, text, p, k)
    OBVIOUS
  <2>5. b = NewRequest(Append(outcome, [status |-> "COMPLETE", request |-> q]))
    BY <2>2, <2>3, <2>4 DEF Answered
  <2>6. PICK j \in Nat : j + 1 = k /\ j < k
    <3>1. k - 1 \in Nat /\ (k - 1) + 1 = k /\ k - 1 < k
      BY <1>1, <1>4
    <3> QED BY <3>1
  <2>7. PICK n \in Nat : n = p + j /\ n + 1 = p + k /\ n < Len(text)
    <3>1. p + j \in Nat /\ (p + j) + 1 = p + k /\ p + j < Len(text)
      BY <1>1, <2>6
    <3> QED BY <3>1
  <2>8. Reading(text)[n].state = "BODY" /\ Reading(text)[n].parsed = outcome
    <3>1. Reading(text)[p].state = "BODY" /\ j <= Reading(text)[p].left /\ p + j <= Len(text)
      <4>1. j <= k /\ p + j <= Len(text)
        BY <1>1, <2>6, <2>7
      <4> QED BY <1>0, <1>1, <2>2, <4>1
    <3>2. InBody(Reading(text)[p], Reading(text)[p + j], text, p, j)
      BY <1>1, <3>1, ReadBodyRun
    <3>3. Reading(text)[p] = a /\ j < a.left
      BY <1>0, <2>2, <2>6
    <3> QED BY <2>2, <2>7, <3>2, <3>3 DEF InBody
  <2>9. b.state = "START" /\ Len(b.parsed) = Len(outcome) + 1
    <3>1. q \in Requests
      BY <1>1, <1>2, <2>4, BodyToFacts
    <3>2. PICK x \in Results : x = [status |-> "COMPLETE", request |-> q]
      BY <3>1 DEF Results
    <3>3. Append(outcome, x) \in Seq(Results) /\ Len(Append(outcome, x)) = Len(outcome) + 1
      BY <1>2
    <3> QED BY <2>5, <3>2, <3>3, NewRequestSound
  <2>10. input.ends[Len(outcome) + 1] = n + 1
    <3>1. Reading(text)[n + 1] = b
      BY <1>0, <2>7
    <3>2. /\ Reading(text)[n].state \notin Invalid /\ Reading(text)[n + 1].state \notin Invalid
          /\ Len(Reading(text)[n + 1].parsed) = Len(Reading(text)[n].parsed) + 1
      BY <2>8, <2>9, <3>1, StatesApart
    <3> QED BY <1>2, <2>7, <2>8, <3>2, RequestEndsHere
  <2> QED BY <1>0, <2>4, <2>5, <2>7, <2>10
<1> QED BY <1>3, <1>4

\* The piece that has the last of a body, and what is behind it.
LEMMA SyncBodyEnds ==
  ASSUME InputsAsSaid, InputInv, InSync, BodyEnds
  PROVE  InSync'
<1> DEFINE text == input.text
<1>0. PICK p, k, l, r : p = Place /\ k = contentLength /\ l = Left /\ r = Len(outcome) + 1
  OBVIOUS
<1>1. /\ At({"BODY"}) /\ pc = "parse" /\ state = "BODY" /\ start = cur /\ cur \in Nat
      /\ p \in Nat /\ k \in Nat /\ l \in Nat /\ k <= l /\ start + l <= Len(data) /\ start + l = Len(data)
      /\ p + l = sent /\ text \in Seq(Char) /\ sent \in Nat /\ sent <= Len(text) /\ Len(data) \in Nat
      /\ Token(start, start + k) = SubSeq(text, p + 1, p + k)
      /\ Token(start + k, start + l) = SubSeq(text, (p + k) + 1, sent)
  <2>1. At({"BODY"}) /\ k <= l
    BY <1>0 DEF BodyEnds
  <2>2. /\ pc = "parse" /\ state = "BODY" /\ start = cur /\ cur \in Nat
        /\ p \in Nat /\ k \in Nat /\ l \in Nat /\ start + l <= Len(data) /\ start + l = Len(data)
        /\ p + l = sent /\ text \in Seq(Char) /\ sent \in Nat /\ sent <= Len(text) /\ Len(data) \in Nat
    BY <1>0, <2>1, BodyFacts
  <2>3. /\ \A i \in Nat : i <= l => Token(start, start + i) = SubSeq(text, p + 1, p + i)
        /\ \A i \in Nat : i <= l => Token(start + i, start + l) = SubSeq(text, (p + i) + 1, sent)
    BY <1>0, <2>1, BodyFacts
  <2> QED BY <2>1, <2>2, <2>3
<1>2. PICK extra, memory : /\ extra = Token(start + k, start + l)
                           /\ memory = IF InPlace THEN extra \o Token(Len(extra), Len(data)) ELSE data
  OBVIOUS
<1>3. /\ state' = "COMPLETE" /\ inBuffer' = extra /\ pc' = "parse"
      /\ request' = [request EXCEPT !.body = @ \o SubSeq(memory, start + 1, start + k)]
      /\ UNCHANGED <<input, sent, contentLength, snapshot, data, size, outcome>>
  BY <1>0, <1>1, <1>2 DEF BodyEnds, stream
<1>4. state \notin Invalid \cup {"COMPLETE"} /\ state' \notin Invalid
  BY <1>1, <1>3, StatesApart
<1>5. Reading(text)[p + k] = NewRequest(Append(outcome, [status |-> "COMPLETE", request |-> BodyTo(request, text, p, k)]))
      /\ input.ends[r] = p + k
  BY <1>0, <1>1, BodyRead
<1>6. PICK at \in Nat : at = p + k /\ at <= sent /\ sent - at = l - k
  <2>1. p + k \in Nat /\ p + k <= sent /\ sent - (p + k) = l - k
    BY <1>1
  <2> QED BY <2>1
<1>7. extra \in Seq(Char) /\ Len(extra) = sent - at /\ extra = SubSeq(text, at + 1, sent)
  <2>1. extra = SubSeq(text, at + 1, sent)
    BY <1>1, <1>2, <1>6
  <2>2. text \in Seq(Char) /\ at \in Nat /\ sent \in Nat /\ at <= sent /\ sent <= Len(text)
    BY <1>1, <1>6
  <2>3. SubSeq(text, at + 1, sent) \in Seq(Char) /\ Len(SubSeq(text, at + 1, sent)) = sent - at
    <3> HIDE DEF text
    <3> QED BY <2>2, Middle
  <2> QED BY <2>1, <2>3
<1>8. SubSeq(memory, start + 1, start + k) = Token(start, start + k)
  <2>1. CASE ~InPlace
    BY <1>2, <2>1 DEF Token
  <2>2. CASE InPlace
    <3>1. Len(extra) <= start
      <4>1. cur < Len(data)
        BY <1>1 DEF At
      <4>2. start > 0 /\ input.heads[r] = p
        BY <1>0, <1>1, <1>4, <2>2, <4>1 DEF InSync, DataInSync
      <4>3. r \in DOMAIN input.ends /\ DOMAIN input.ends = 1 .. Len(input.parsed)
        <5>1. input \in Inputs /\ ReadsAsSaid(input) /\ outcome \in Seq(Results) /\ Len(outcome) \in Nat
          BY SyncFacts
        <5>2. DOMAIN input.ends = 1 .. Len(input.parsed) /\ Len(input.parsed) \in Nat
          BY <5>1, InputSays
        <5>3. Len(outcome) < Len(input.parsed)
          <6>1. at \in 0 .. Len(text) /\ Len(text) \in 0 .. Len(text) /\ at <= Len(text)
            <7>1. Len(text) \in Nat
              BY SyncFacts
            <7> QED BY <1>1, <1>6, <7>1
          <6>2. Len(Reading(text)[at].parsed) <= Len(Reading(text)[Len(text)].parsed)
            BY <1>1, <6>1, ReadStaysRead
          <6>3. Reading(text)[Len(text)].parsed = input.parsed
            BY <5>1 DEF ReadsAsSaid
          <6>4. Len(Reading(text)[at].parsed) = Len(outcome) + 1
            <7>1. request \in Requests /\ p + k <= Len(text)
              BY <1>6, <6>1, SyncFacts
            <7>2. BodyTo(request, text, p, k) \in Requests
              BY <1>1, <7>1, BodyToFacts
            <7>3. PICK x \in Results : x = [status |-> "COMPLETE", request |-> BodyTo(request, text, p, k)]
              BY <7>2 DEF Results
            <7>4. Append(outcome, x) \in Seq(Results) /\ Len(Append(outcome, x)) = Len(outcome) + 1
              BY <5>1
            <7> QED BY <1>5, <1>6, <7>3, <7>4, NewRequestSound
          <6> QED BY <5>1, <5>2, <6>2, <6>3, <6>4
        <5> QED BY <1>0, <5>1, <5>2, <5>3
      <4>4. p = sent - Len(data) + cur
        BY <1>0, <1>1, <1>4, PlaceFacts
      <4>5. sent - Len(data) < input.heads[r]
        <5>1. p = (sent - Len(data)) + cur /\ cur > 0
          BY <1>1, <4>2, <4>4
        <5> QED BY <1>1, <4>2, <5>1
      <4>6. sent - input.ends[r] <= input.heads[r] - (sent - Len(data))
        BY <1>0, <1>1, <1>4, <2>2, <4>3, <4>5 DEF InSync, PeerInSync
      <4>7. sent - at <= p - (sent - Len(data))
        BY <1>5, <1>6, <4>2, <4>6
      <4> QED BY <1>1, <1>6, <1>7, <4>4, <4>7
    <3>2. start \in Nat /\ start + k \in Nat /\ start <= start + k /\ start + k <= Len(data) /\ data \in Seq(Char)
      <4>1. data \in Seq(Char)
        BY SyncFacts
      <4> QED BY <1>1, <4>1
    <3> QED BY <1>2, <1>7, <2>2, <3>1, <3>2, BehindTheRest
  <2> QED BY <2>1, <2>2
<1>9. request' = BodyTo(request, text, p, k)
  BY <1>1, <1>3, <1>8 DEF BodyTo
<1>10. Place' = at
  <2>1. Place' = sent - Len(extra)
    BY <1>3 DEF Place
  <2> QED BY <1>1, <1>6, <1>7, <2>1
<1>11. Whole'
  BY <1>3 DEF Whole
<1>12. WholeInSync(Reading(text)[at])' /\ Reading(text')[Place'] = Reading(text)[at]
  <2>1. PICK b : b = Reading(text)[at]
    OBVIOUS
  <2>2. b = NewRequest(Append(outcome', [status |-> "COMPLETE", request |-> request'])) /\ input'.ends[Len(outcome') + 1] = Place'
    BY <1>0, <1>3, <1>5, <1>6, <1>9, <1>10, <2>1
  <2>3. Reading(text')[Place'] = b /\ text' = text
    BY <1>3, <1>10, <2>1
  <2> QED BY <2>1, <2>2, <2>3 DEF WholeInSync
<1>13. ReadingInSync' /\ ErrorInSync'
  BY <1>4, <1>10, <1>11, <1>12 DEF ReadingInSync, ErrorInSync
<1>14. BufferInSync'
  <2>1. Len(extra) <= sent /\ sent - Len(extra) = at
    BY <1>1, <1>6, <1>7
  <2>2. inBuffer' = LastSent(Len(inBuffer))'
    BY <1>3, <1>7, <2>1 DEF LastSent
  <2> QED BY <1>3, <2>1, <2>2 DEF BufferInSync
<1>15. DataInSync' /\ SnapshotInSync'
  BY <1>3 DEF DataInSync, SnapshotInSync
<1>16. PeerInSync'
  BY <1>1, <1>3, <1>4 DEF InSync, PeerInSync, HeadInPieces, InPlace
<1>17. pc' # "terminated" /\ outcome' \in Seq(Results)
  BY <1>3, SyncFacts
<1> QED BY <1>13, <1>14, <1>15, <1>16, <1>17 DEF InSync

\* The piece has been parsed and the request goes on.
LEMMA SyncUnfinished ==
  ASSUME InputsAsSaid, InputInv, InSync, Unfinished
  PROVE  InSync'
<1> DEFINE text == input.text
<1>0. PICK a : a = Reading(text)[Place]
  OBVIOUS
<1>1. /\ pc = "parse" /\ state \notin Invalid \cup {"COMPLETE"} /\ cur = Len(data) /\ snapshot' = Snapshot /\ pc' = "idle"
      /\ UNCHANGED <<input, sent, inBuffer, state, contentLength, request, data, size, start, cur, colon, outcome>>
  BY DEF Unfinished, Stopped, stream, pointers
<1>2. /\ text \in Seq(Char) /\ sent \in Nat /\ sent <= Len(text) /\ data \in Seq(Char) /\ Len(data) \in Nat
      /\ start \in Nat /\ cur \in Nat /\ start <= cur /\ colon \in Int /\ outcome \in Seq(Results)
  BY SyncFacts
<1>3. inBuffer = <<>> /\ Len(data) <= sent /\ ~Whole
  BY <1>1 DEF InSync, DataInSync, Whole
<1>4. PartInSync(a) /\ TokenInSync(a)
  BY <1>0, <1>1, <1>3 DEF InSync, ReadingInSync
<1>5. Place = sent /\ Place' = sent
  <2>1. Place = sent - Len(data) + cur
    BY <1>1 DEF Place
  <2>2. Place' = sent - Len(<<>>) /\ Len(<<>>) = 0
    BY <1>1, <1>3 DEF Place
  <2> QED BY <1>1, <1>2, <2>1, <2>2
<1>6. state \notin {"BODY"} => snapshot'.lastRequest = Token(start, cur) /\ snapshot'.colon = IF colon # 0 THEN colon - start ELSE 0
  BY <1>1 DEF Snapshot
<1>7. TokenInSync(a)'
  <2>1. state \notin {"START", "BODY"} => a.token = snapshot'.lastRequest
    BY <1>1, <1>4, <1>6 DEF TokenInSync
  <2>2. ASSUME state \in WithMark PROVE a.mark = snapshot'.colon
    <3>1. a.mark = colon - start /\ state # "BODY"
      BY <1>1, <1>4, <2>2, StatesApart DEF TokenInSync
    <3>2. start <= colon
      BY <1>1, <2>2 DEF InputInv, TokensInOrder, Marked, WithMark
    <3> QED BY <1>2, <1>6, <3>1, <3>2
  <2> QED BY <1>1, <2>1, <2>2 DEF TokenInSync
<1>8. ReadingInSync' /\ ErrorInSync'
  <2>1. PartInSync(a)' /\ ~Whole' /\ Reading(text')[Place'] = a
    BY <1>0, <1>1, <1>4, <1>5 DEF PartInSync, Whole
  <2> QED BY <1>1, <1>7, <2>1 DEF ReadingInSync, ErrorInSync
<1>9. LastSent(0) = <<>> /\ Len(<<>>) = 0
  BY <1>2 DEF LastSent
<1>10. SnapshotInSync'
  <2>1. CASE state = "BODY"
    <3>1. snapshot'.lastRequest = <<>>
      BY <1>1, <2>1 DEF Snapshot
    <3>2. LastSent(0)' = <<>>
      BY <1>1, <1>9 DEF LastSent
    <3> QED BY <1>1, <1>2, <1>9, <3>1, <3>2 DEF SnapshotInSync
  <2>2. CASE state # "BODY"
    <3>1. PICK token : token = Token(start, cur)
      OBVIOUS
    <3>2. snapshot'.lastRequest = token
      BY <1>6, <2>2, <3>1
    <3>3. Len(token) = cur - start
      BY <1>1, <1>2, <3>1, TokenFacts
    <3>4. token = SubSeq(text, (sent - Len(data) + start) + 1, sent - Len(data) + cur)
      <4>1. \A from \in Nat, to \in Nat : from <= to /\ to <= Len(data) =>
               Token(from, to) = SubSeq(text, (sent - Len(data) + from) + 1, sent - Len(data) + to)
        BY <1>1, PlaceFacts
      <4>2. start \in Nat /\ cur \in Nat /\ start <= cur /\ cur <= Len(data)
        BY SyncFacts
      <4> QED BY <3>1, <4>1, <4>2
    <3>5. PICK l \in Nat : l = Len(token) /\ l <= sent /\ sent - Len(data) + start = sent - l /\ sent - Len(data) + cur = sent
      <4>1. PICK d \in Nat : d = Len(data) /\ cur = d /\ d <= sent
        BY <1>1, <1>2, <1>3
      <4>2. d - start \in Nat /\ d - start <= sent /\ sent - d + start = sent - (d - start) /\ sent - d + cur = sent
        BY <1>2, <4>1
      <4> QED BY <3>3, <4>1, <4>2
    <3>6. token = SubSeq(text, sent - l + 1, sent)
      BY <3>4, <3>5
    <3>7. snapshot'.lastRequest = LastSent(Len(snapshot.lastRequest))'
      BY <1>1, <3>2, <3>5, <3>6 DEF LastSent
    <3> QED BY <1>1, <2>2, <3>2, <3>5, <3>7 DEF SnapshotInSync
  <2> QED BY <2>1, <2>2
<1>11. BufferInSync'
  <2>1. inBuffer' = <<>> /\ LastSent(0)' = <<>>
    BY <1>1, <1>3, <1>9 DEF LastSent
  <2> QED BY <1>1, <1>2, <1>9, <2>1 DEF BufferInSync
<1>12. DataInSync' /\ PeerInSync' /\ pc' # "terminated" /\ outcome' \in Seq(Results)
  BY <1>1, <1>2 DEF DataInSync, PeerInSync, InSync
<1> QED BY <1>8, <1>10, <1>11, <1>12 DEF InSync

\* A request is answered.
LEMMA SyncComplete ==
  ASSUME InputsAsSaid, InputInv, InSync, Complete
  PROVE  InSync'
<1> DEFINE text == input.text
<1>0. PICK a, x : a = Reading(text)[Place] /\ x = [status |-> "COMPLETE", request |-> request]
  OBVIOUS
<1>1. /\ pc = "parse" /\ state = "COMPLETE" /\ outcome' = Append(outcome, x) /\ contentLength' = Minus1 /\ state' = "START"
      /\ request' = NoRequest /\ pc' = "idle" /\ UNCHANGED <<input, sent, inBuffer, data, size, start, cur, colon>>
  BY <1>0 DEF Complete, Stopped, stream, pointers
<1>2. outcome \in Seq(Results) /\ Len(outcome) \in Nat /\ x \in Results /\ inBuffer \in Seq(Char)
  BY <1>0, SyncFacts DEF Results
<1>3. outcome' \in Seq(Results) /\ Len(outcome') = Len(outcome) + 1 /\ outcome' # <<>>
  BY <1>1, <1>2
<1>4. a = NewRequest(outcome') /\ input.ends[Len(outcome')] = Place
  <2>1. Whole /\ state \notin Invalid
    BY <1>1, StatesApart DEF Whole
  <2>2. WholeInSync(a)
    BY <1>0, <2>1 DEF InSync, ReadingInSync
  <2> QED BY <1>0, <1>1, <1>3, <2>2 DEF WholeInSync
<1>5. Place' = Place
  BY <1>1, StatesApart DEF Place
<1>6. ReadingInSync' /\ ErrorInSync'
  <2>1. PartInSync(a)'
    BY <1>1, <1>4, StatesApart DEF PartInSync, NewRequest
  <2>2. TokenInSync(a)'
    BY <1>1, StatesApart DEF TokenInSync
  <2>3. ~Whole' /\ Reading(text')[Place'] = a /\ state' \notin Invalid
    BY <1>0, <1>1, <1>5, StatesApart DEF Whole
  <2> QED BY <2>1, <2>2, <2>3 DEF ReadingInSync, ErrorInSync
<1>7. BufferInSync'
  <2>1. Len(inBuffer) <= sent /\ inBuffer = LastSent(Len(inBuffer))
    BY <1>1 DEF InSync, BufferInSync
  <2>2. LastSent(Len(inBuffer))' = LastSent(Len(inBuffer))
    BY <1>1 DEF LastSent
  <2> QED BY <1>1, <1>3, <1>4, <1>5, <2>1, <2>2 DEF BufferInSync
<1>8. DataInSync' /\ SnapshotInSync' /\ pc' # "terminated"
  BY <1>1 DEF DataInSync, SnapshotInSync
<1>9. PeerInSync'
  <2>1. ASSUME NEW r \in DOMAIN input.ends, r > Len(outcome'), input.waits[r] PROVE sent <= input.ends[r]
    <3>1. r \in Nat
      <4>1. input \in Inputs /\ ReadsAsSaid(input)
        BY SyncFacts
      <4>2. DOMAIN input.ends = 1 .. Len(input.parsed) /\ Len(input.parsed) \in Nat
        BY <4>1, InputSays
      <4> QED BY <2>1, <4>2
    <3>2. r > Len(outcome)
      BY <1>2, <1>3, <2>1, <3>1
    <3> QED BY <2>1, <3>2 DEF InSync, PeerInSync
  <2> QED BY <1>1, <2>1 DEF PeerInSync
<1> QED BY <1>3, <1>6, <1>7, <1>8, <1>9 DEF InSync

\* What is no request is answered with its error.
LEMMA SyncError ==
  ASSUME InputsAsSaid, InputInv, InSync, Error
  PROVE  InSync'
<1>0. PICK a, n, x : a = Reading(input.text)[sent] /\ n = Len(a.parsed) /\ x = [status |-> state, request |-> NoRequest]
  OBVIOUS
<1>1. /\ pc = "parse" /\ state \in Invalid /\ outcome' = Append(outcome, x) /\ pc' = "idle"
      /\ UNCHANGED <<input, sent, inBuffer, state, contentLength, request, snapshot, data, size, start, cur, colon>>
  BY <1>0 DEF Error, Stopped, stream, pointers
<1>2. outcome \in Seq(Results) /\ Len(outcome) \in Nat
  BY SyncFacts
<1>3. x \in Results
  BY <1>0, <1>1 DEF Results, NoRequest, Requests
<1>4. /\ outcome' \in Seq(Results) /\ Len(outcome') = Len(outcome) + 1 /\ outcome'[Len(outcome) + 1] = x
      /\ \A r \in 1 .. Len(outcome) : outcome'[r] = outcome[r]
  BY <1>1, <1>2, <1>3
<1>5. /\ a.state = state /\ n \in 1 .. Len(outcome) + 1 /\ a.parsed[n] = x
      /\ \A r \in 1 .. Len(outcome) : outcome[r] = a.parsed[IF r < n THEN r ELSE n]
  BY <1>0, <1>1 DEF InSync, ErrorInSync
<1>6. ASSUME NEW r \in 1 .. Len(outcome) + 1 PROVE outcome'[r] = a.parsed[IF r < n THEN r ELSE n]
  <2>1. CASE r = Len(outcome) + 1
    <3>1. ~(r < n)
      BY <1>2, <1>5, <2>1
    <3> QED BY <1>4, <1>5, <2>1, <3>1
  <2>2. CASE r # Len(outcome) + 1
    <3>1. r \in 1 .. Len(outcome)
      BY <1>2, <1>6, <2>2
    <3> QED BY <1>4, <1>5, <3>1
  <2> QED BY <2>1, <2>2
<1>7. ErrorInSync'
  <2>1. n \in 1 .. Len(outcome') + 1
    BY <1>2, <1>4, <1>5
  <2>2. \A r \in 1 .. Len(outcome') : outcome'[r] = a.parsed[IF r < n THEN r ELSE n]
    BY <1>4, <1>6
  <2>3. Reading(input'.text)[sent'] = a /\ state' = state /\ x = [status |-> state', request |-> NoRequest]
    BY <1>0, <1>1
  <2> QED BY <1>0, <1>5, <2>1, <2>2, <2>3 DEF ErrorInSync
<1>8. ReadingInSync' /\ DataInSync' /\ SnapshotInSync' /\ pc' # "terminated"
  BY <1>1 DEF ReadingInSync, DataInSync, SnapshotInSync
<1>9. BufferInSync'
  BY <1>1 DEF InSync, BufferInSync
<1>10. PeerInSync'
  <2>1. ASSUME NEW r \in DOMAIN input.ends, r > Len(outcome'), input.waits[r] PROVE sent <= input.ends[r]
    <3>1. r \in Nat
      <4>1. input \in Inputs /\ ReadsAsSaid(input)
        BY SyncFacts
      <4>2. DOMAIN input.ends = 1 .. Len(input.parsed) /\ Len(input.parsed) \in Nat
        BY <4>1, InputSays
      <4> QED BY <2>1, <4>2
    <3>2. r > Len(outcome)
      BY <1>2, <1>4, <2>1, <3>1
    <3> QED BY <2>1, <3>2 DEF InSync, PeerInSync
  <2> QED BY <1>1, <2>1 DEF PeerInSync
<1> QED BY <1>4, <1>7, <1>8, <1>9, <1>10 DEF InSync

LEMMA SyncStutter == ASSUME InSync, UNCHANGED vars PROVE InSync'
BY DEF InSync, ReadingInSync, Whole, WholeInSync, PartInSync, TokenInSync, ErrorInSync, DataInSync, BufferInSync,
       SnapshotInSync, PeerInSync, Place, LastSent, Token, HeadInPieces, InPlace, vars, stream, pointers

LEMMA SyncNext ==
  ASSUME BodyApart, ShortNext, InputsAsSaid, InputInv, InSync, [Next]_vars
  PROVE  InSync'
<1>1. ASSUME NEW n \in 1 .. Len(input.text), Arrive(n) PROVE InSync'
  BY <1>1, SyncArrive
<1>2. ASSUME ParseHead PROVE InSync'
  BY <1>2, SyncParseHead
<1>3. ASSUME EndOfHead PROVE InSync'
  BY <1>3, SyncEndOfHead
<1>4. ASSUME BodyGoesOn PROVE InSync'
  BY <1>4, SyncBodyGoesOn
<1>5. ASSUME BodyEnds PROVE InSync'
  BY <1>5, SyncBodyEnds
<1>6. ASSUME Unfinished PROVE InSync'
  BY <1>6, SyncUnfinished
<1>7. ASSUME Complete PROVE InSync'
  BY <1>7, SyncComplete
<1>8. ASSUME Error PROVE InSync'
  BY <1>8, SyncError
<1>9. ASSUME UNCHANGED vars PROVE InSync'
  BY <1>9, SyncStutter
<1> QED BY <1>1, <1>2, <1>3, <1>4, <1>5, <1>6, <1>7, <1>8, <1>9 DEF Next

LEMMA SyncHolds ==
  ASSUME BodyApart, ShortNext, InputsAsSaid
  PROVE  Spec => [](InputInv /\ InSync)
<1>1. Init => InputInv /\ InSync
  BY InputInit, SyncInit
<1>2. InputInv /\ InSync /\ [Next]_vars => (InputInv /\ InSync)'
  BY InputNext, SyncNext
<1> QED BY <1>1, <1>2, PTL DEF Spec

\* Wherever the parser is, what was answered is what the reader has read.
LEMMA AnsweredAsRead ==
  ASSUME InputsAsSaid, InputInv, InSync, state \notin Invalid
  PROVE  /\ Len(outcome) <= Len(input.parsed)
         /\ \A r \in 1 .. Len(outcome) : outcome[r] = input.parsed[r]
<1> DEFINE text == input.text
<1>0. PICK a : a = Reading(text)[Place]
  OBVIOUS
<1>1. /\ text \in Seq(Char) /\ Len(text) \in Nat /\ sent \in Nat /\ sent <= Len(text) /\ inBuffer \in Seq(Char)
      /\ Len(inBuffer) \in Nat /\ Len(inBuffer) <= sent /\ outcome \in Seq(Results) /\ Len(outcome) \in Nat
      /\ request \in Requests /\ input \in Inputs /\ ReadsAsSaid(input)
  BY SyncFacts
<1>2. Place \in 0 .. Len(text)
  <2>1. CASE pc = "parse" /\ state # "COMPLETE"
    BY <2>1, PlaceFacts
  <2>2. CASE ~(pc = "parse" /\ state # "COMPLETE")
    BY <1>1, <2>2 DEF Place
  <2> QED BY <2>1, <2>2
<1>3. Len(outcome) <= Len(a.parsed) /\ \A r \in 1 .. Len(outcome) : a.parsed[r] = outcome[r]
  <2>1. CASE Whole
    <3>1. WholeInSync(a)
      BY <1>0, <2>1 DEF InSync, ReadingInSync
    <3>2. PICK x \in Results : x = [status |-> "COMPLETE", request |-> request]
      BY <1>1 DEF Results
    <3>3. a.parsed = Append(outcome, x)
      BY <3>1, <3>2 DEF WholeInSync, NewRequest
    <3> QED BY <1>1, <3>3
  <2>2. CASE ~Whole
    BY <1>0, <1>1, <2>2 DEF InSync, ReadingInSync, PartInSync
  <2> QED BY <2>1, <2>2
<1>4. PICK b : b = Reading(text)[Len(text)] /\ b.parsed = input.parsed
  BY <1>1 DEF ReadsAsSaid
<1>5. Len(a.parsed) <= Len(b.parsed) /\ \A r \in 1 .. Len(a.parsed) : b.parsed[r] = a.parsed[r]
  <2>1. Len(text) \in 0 .. Len(text) /\ Place <= Len(text)
    BY <1>1, <1>2
  <2> QED BY <1>0, <1>1, <1>2, <1>4, <2>1, ReadStaysRead
<1>6. Len(a.parsed) \in Nat /\ Len(input.parsed) \in Nat
  <2>1. Sound(a)
    BY <1>0, <1>1, <1>2, ReadingRecursion
  <2> QED BY <1>1, <2>1, ReadingFields, InputSays DEF Sound
<1>7. Len(outcome) <= Len(input.parsed)
  BY <1>1, <1>3, <1>4, <1>5, <1>6
<1>8. ASSUME NEW r \in 1 .. Len(outcome) PROVE outcome[r] = input.parsed[r]
  <2>1. r \in 1 .. Len(a.parsed)
    BY <1>1, <1>3, <1>6
  <2> QED BY <1>3, <1>4, <1>5, <2>1
<1> QED BY <1>7, <1>8

\* HTTP-Context.cc 82-402, HTTP-Server.cc 107-121: wherever a request is cut, the
\* server answers the requests the peer sent, in their order and as they were
\* sent, until one is not a request; from there on with its error.
THEOREM RequestsAlwaysAsSent ==
  ASSUME BodyApart, ShortNext, InputsAsSaid
  PROVE  Spec => []RequestsAsSent
<1>1. ASSUME InputInv, InSync PROVE RequestsAsSent
  <2>0. outcome \in Seq(Results) /\ Len(outcome) \in Nat
    BY <1>1, SyncFacts
  <2>1. CASE state \notin Invalid
    <3>1. /\ Len(outcome) <= Len(input.parsed)
          /\ \A r \in 1 .. Len(outcome) : outcome[r] = input.parsed[r]
      BY <1>1, <2>1, AnsweredAsRead
    <3>2. Len(outcome) \in 0 .. Len(outcome) /\ ~(Len(outcome) < Len(outcome))
      BY <2>0
    <3> QED BY <3>1, <3>2 DEF RequestsAsSent
  <2>2. CASE state \in Invalid
    <3>1. PICK a, n : a = Reading(input.text)[sent] /\ n = Len(a.parsed)
      OBVIOUS
    <3>2. /\ a.state \in Invalid /\ n \in 1 .. Len(outcome) + 1
          /\ a.parsed[n] = [status |-> state, request |-> NoRequest]
          /\ \A r \in 1 .. Len(outcome) : outcome[r] = a.parsed[IF r < n THEN r ELSE n]
      BY <1>1, <2>2, <3>1 DEF InSync, ErrorInSync
    <3>3. input.parsed = a.parsed
      <4>1. /\ input.text \in Seq(Char) /\ sent \in 0 .. Len(input.text) /\ Len(input.text) \in 0 .. Len(input.text)
            /\ sent <= Len(input.text) /\ ReadsAsSaid(input)
        BY <1>1, SyncFacts
      <4>2. Reading(input.text)[Len(input.text)] = a
        BY <3>1, <3>2, <4>1, ReadStaysRead
      <4> QED BY <4>1, <4>2 DEF ReadsAsSaid
    <3>4. PICK m \in Nat : m + 1 = n /\ m <= Len(outcome) /\ m < n
      <4>1. n - 1 \in Nat /\ (n - 1) + 1 = n /\ n - 1 <= Len(outcome) /\ n - 1 < n
        BY <2>0, <3>2
      <4> QED BY <4>1
    <3>5. m <= Len(input.parsed) /\ m < Len(input.parsed) /\ m \in 0 .. Len(outcome)
      BY <2>0, <3>1, <3>3, <3>4
    <3>6. ASSUME NEW r \in 1 .. m PROVE outcome[r] = input.parsed[r]
      <4>1. r \in 1 .. Len(outcome) /\ r < n
        BY <2>0, <3>4
      <4> QED BY <3>2, <3>3, <4>1
    <3>7. input.parsed[m + 1].status # "COMPLETE"
      BY <2>2, <3>2, <3>3, <3>4, StatesApart
    <3>8. ASSUME NEW i \in m + 1 .. Len(outcome) PROVE outcome[i] = input.parsed[m + 1]
      <4>1. i \in 1 .. Len(outcome) /\ ~(i < n)
        BY <2>0, <3>4
      <4> QED BY <3>2, <3>3, <3>4, <4>1
    <3> QED BY <3>5, <3>6, <3>7, <3>8 DEF RequestsAsSent
  <2> QED BY <2>1, <2>2
<1>2. InputInv /\ InSync => RequestsAsSent
  BY <1>1
<1> QED BY <1>2, SyncHolds, PTL

\* HTTP-Context.cc 88-90, 359-363: between two pieces no request whose last byte
\* has arrived is left in the parser: it is answered, or it waits in inBuffer_
\* with all that follows it behind the last one that was answered.
THEOREM WholeRequestsAlwaysAnswered ==
  ASSUME BodyApart, ShortNext, InputsAsSaid
  PROVE  Spec => []WholeRequestsAnswered
<1> DEFINE done == IF outcome = <<>> THEN 0 ELSE input.ends[Len(outcome)]
<1>1. ASSUME InputInv, InSync, pc = "idle", state \notin Invalid,
             NEW r \in DOMAIN input.ends, sent >= input.ends[r], r > Len(outcome)
      PROVE  inBuffer = SubSeq(input.text, done + 1, sent)
  <2>1. PICK a : a = Reading(input.text)[Place]
    OBVIOUS
  <2>2. /\ Place = sent - Len(inBuffer) /\ a.parsed = outcome /\ a.state = state
    BY <1>1, <2>1, IdleInSync DEF PartInSync
  <2>3. /\ input \in Inputs /\ ReadsAsSaid(input) /\ sent \in Nat /\ sent <= Len(input.text) /\ Len(input.text) \in Nat
        /\ inBuffer \in Seq(Char) /\ Len(inBuffer) \in Nat /\ outcome \in Seq(Results) /\ Len(outcome) \in Nat
    BY <1>1, SyncFacts
  <2>4. /\ DOMAIN input.ends = 1 .. Len(input.parsed) /\ DOMAIN input.parsed = 1 .. Len(input.parsed)
        /\ input.ends[r] \in Nat /\ r \in Nat
    BY <1>1, <2>3, InputSays
  <2>5. inBuffer # <<>>
    <3>1. ASSUME inBuffer = <<>> PROVE FALSE
      <4>1. Place = sent
        BY <2>2, <2>3, <3>1
      <4>2. EndsAsSaid(input, sent)
        <5>1. sent \in 0 .. Len(input.text)
          BY <2>3
        <5> QED BY <2>3, <5>1 DEF ReadsAsSaid
      <4>3. input.ends[r] <= sent <=> r <= Len(outcome)
        BY <1>1, <2>1, <2>2, <2>4, <4>1, <4>2 DEF EndsAsSaid
      <4> QED BY <1>1, <2>3, <2>4, <4>3
    <3> QED BY <3>1
  <2>6. outcome # <<>> /\ input.ends[Len(outcome)] = Place /\ inBuffer = LastSent(Len(inBuffer))
    BY <1>1, <2>5 DEF InSync, BufferInSync
  <2>7. done = sent - Len(inBuffer)
    BY <2>2, <2>6
  <2> QED BY <2>6, <2>7 DEF LastSent
<1>2. InputInv /\ InSync => WholeRequestsAnswered
  <2>1. InSync => pc # "terminated"
    BY DEF InSync
  <2> QED BY <1>1, <2>1 DEF WholeRequestsAnswered
<1> QED BY <1>2, SyncHolds, PTL

=============================================================================
