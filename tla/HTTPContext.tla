------------------------------ MODULE HTTPContext ------------------------------
(***************************************************************************)
(* HTTPContext: the parser of one connection, and the message callback of  *)
(* HTTPServer that calls it once for each read event.  A request arrives   *)
(* in pieces of any size.  parseRequest empties inBuffer_, looks at each   *)
(* character once, and if the request is not complete keeps in its         *)
(* snapshot the token it was in the middle of, to put it in front of the   *)
(* next piece.  Bytes beyond the body go back into inBuffer_.              *)
(*                                                                         *)
(* Characters are told apart as far as the parser does.  A name is as long *)
(* as it need be to be cut: "G" and "P" are methods the server knows, "L"  *)
(* is Content-Length.  Pointers are offsets from `begin`.                  *)
(***************************************************************************)
EXTENDS Integers, Sequences, FiniteSets

CONSTANTS Inputs,     \* what a peer may send: see InputType
          SizeT,      \* bound: size_t wraps at this number
          BodyApart,  \* a head that came in pieces ends with its last piece
          ShortNext   \* what follows a request in its piece is no longer than its head

CR == "cr"
LF == "lf"
Blank == {" "}
Upper == {"G", "P", "H"}
Digit == {"0", "1", "2"}
Mark == {"/", "?", "=", "&", ":", ".", "-", ","}
Char == Upper \cup Digit \cup Mark \cup Blank \cup {"L", "a", "k", "v", CR, LF}

InvalidURLChar == Blank \cup {"?", "=", "&", ":", ",", CR, LF}
InvalidHeaderKeyChar == Blank \cup {"=", ",", CR, LF}

ContentLength == <<"L">>
Method == {<<"G">>, <<"P">>}

Invalid == {"INVALID_METHOD", "INVALID_URL", "INVALID_PROTOCOL", "INVALID_HEADER", "INVALID_CRLF"}

HeadState == {"START", "METHOD", "BEFORE_URL", "URL", "BEFORE_URL_PARAM_KEY", "URL_PARAM_KEY",
              "BEFORE_URL_PARAM_VALUE", "URL_PARAM_VALUE", "BEFORE_PROTOCOL", "PROTOCOL",
              "BEFORE_VERSION", "VERSION", "HEADER_KEY", "BEFORE_HEADER_VALUE", "HEADER_VALUE",
              "ENCOUNTER_CR", "CR_LF", "CR_LF_CR"}

ParseState == Invalid \cup HeadState \cup {"COMPLETE", "BODY"}

\* The requests of an input in the order they are sent: where each one's head
\* and the whole of it end, whether the peer waits for its answer before it
\* goes on, and what the parser should make of it.
InputType(input) == /\ input.text \in Seq(Char)
                    /\ input.heads \in Seq(Nat) /\ input.ends \in Seq(Nat)
                    /\ input.waits \in Seq(BOOLEAN)
                    /\ Len(input.ends) = Len(input.heads)
                    /\ Len(input.waits) = Len(input.ends)
                    /\ Len(input.parsed) = Len(input.ends)

ASSUME HTTPContextAssumption == /\ SizeT \in Nat \ {0}
                                /\ BodyApart \in BOOLEAN /\ ShortNext \in BOOLEAN
                                /\ \A input \in Inputs : InputType(input)

VARIABLES input,          \* what this peer sends
          sent,           \* how much of it has been read into inBuffer_
          inBuffer,       \* inBuffer_
          state,          \* state_
          contentLength,  \* contentLength_, a size_t: -1 is its largest value
          request,        \* request_
          snapshot,       \* snapshot_
          pc,             \* "parse" inside parseRequest
          data,           \* [begin, end): the snapshot's rest and the new piece
          size,           \* length of the new piece alone
          start, cur, colon,
          outcome         \* history: requests answered and errors sent

stream == <<input, sent>>
pointers == <<data, size, start, cur, colon>>
vars == <<stream, inBuffer, state, contentLength, request, snapshot, pc, pointers, outcome>>

NoRequest == [method |-> <<>>, url |-> <<>>, params |-> {}, protocol |-> <<>>, version |-> <<>>,
              headers |-> {}, body |-> <<>>]

Requests == [method : Seq(Char), url : Seq(Char), params : SUBSET (Seq(Char) \X Seq(Char)),
             protocol : Seq(Char), version : Seq(Char),
             headers : SUBSET (Seq(Char) \X Seq(Char)), body : Seq(Char)]

Fresh == [lastRequest |-> <<>>, parseState |-> "START", colon |-> 0]
Snapshots == [lastRequest : Seq(Char), parseState : HeadState \cup {"BODY"}, colon : Int]

Minus1 == SizeT - 1

TypeOK == /\ input \in Inputs
          /\ sent \in 0 .. Len(input.text)
          /\ inBuffer \in Seq(Char)
          /\ state \in ParseState
          /\ contentLength \in 0 .. SizeT - 1
          /\ request \in Requests
          /\ snapshot \in Snapshots
          /\ pc \in {"idle", "parse", "terminated"}
          /\ data \in Seq(Char)
          /\ size \in 0 .. Len(data)
          /\ start \in 0 .. Len(data)
          /\ cur \in 0 .. Len(data)
          /\ colon \in Int

Init == /\ input \in Inputs
        /\ sent = 0
        /\ inBuffer = <<>>
        /\ state = "START"
        /\ contentLength = Minus1
        /\ request = NoRequest
        /\ snapshot = Fresh
        /\ pc = "idle"
        /\ data = <<>>
        /\ size = 0
        /\ start = 0 /\ cur = 0 /\ colon = 0
        /\ outcome = <<>>

-----------------------------------------------------------------------------
(* The characters of the request line and the headers.                     *)

\* In a state, on one of these characters, to a state.
Rules == {
    <<"START", Blank \cup {CR, LF}, "START">>,
    <<"START", Upper, "METHOD">>,
    <<"METHOD", Upper, "METHOD">>,
    <<"METHOD", Blank, "BEFORE_URL">>,
    <<"BEFORE_URL", {"/"}, "URL">>,
    <<"URL", Char \ InvalidURLChar, "URL">>,
    <<"URL", {"?"}, "BEFORE_URL_PARAM_KEY">>,
    <<"URL", Blank, "BEFORE_PROTOCOL">>,
    <<"BEFORE_URL_PARAM_KEY", Char \ InvalidURLChar, "URL_PARAM_KEY">>,
    <<"URL_PARAM_KEY", Char \ InvalidURLChar, "URL_PARAM_KEY">>,
    <<"URL_PARAM_KEY", {"="}, "BEFORE_URL_PARAM_VALUE">>,
    <<"BEFORE_URL_PARAM_VALUE", Char \ InvalidURLChar, "URL_PARAM_VALUE">>,
    <<"URL_PARAM_VALUE", Char \ InvalidURLChar, "URL_PARAM_VALUE">>,
    <<"URL_PARAM_VALUE", {"&"}, "BEFORE_URL_PARAM_KEY">>,
    <<"URL_PARAM_VALUE", Blank, "BEFORE_PROTOCOL">>,
    <<"BEFORE_PROTOCOL", Upper, "PROTOCOL">>,
    <<"PROTOCOL", Upper, "PROTOCOL">>,
    <<"PROTOCOL", {"/"}, "BEFORE_VERSION">>,
    <<"BEFORE_VERSION", Digit, "VERSION">>,
    <<"VERSION", Digit \cup {"."}, "VERSION">>,
    <<"VERSION", {CR}, "ENCOUNTER_CR">>,
    <<"ENCOUNTER_CR", {LF}, "CR_LF">>,
    <<"CR_LF", {CR}, "CR_LF_CR">>,
    <<"CR_LF", Char \ InvalidHeaderKeyChar, "HEADER_KEY">>,
    <<"HEADER_KEY", {":"}, "BEFORE_HEADER_VALUE">>,
    <<"HEADER_KEY", Char \ (InvalidHeaderKeyChar \cup {":"}), "HEADER_KEY">>,
    <<"BEFORE_HEADER_VALUE", Blank, "HEADER_VALUE">>,
    <<"HEADER_VALUE", {CR}, "ENCOUNTER_CR">>,
    <<"HEADER_VALUE", Char \ {CR}, "HEADER_VALUE">> }

\* And what any other character makes of the request.
Otherwise(s) ==
    CASE s \in {"START", "METHOD"} -> "INVALID_METHOD"
      [] s \in {"BEFORE_PROTOCOL", "PROTOCOL", "BEFORE_VERSION", "VERSION"} -> "INVALID_PROTOCOL"
      [] s \in {"CR_LF", "HEADER_KEY", "BEFORE_HEADER_VALUE"} -> "INVALID_HEADER"
      [] s = "ENCOUNTER_CR" -> "INVALID_CRLF"
      [] OTHER -> "INVALID_URL"

After(s, c) == LET rules == {r \in Rules : r[1] = s /\ c \in r[2]}
               IN IF rules = {} THEN Otherwise(s) ELSE (CHOOSE r \in rules : TRUE)[3]

\* [from, to) of the data.
Token(from, to) == SubSeq(data, from + 1, to)

\* operator[] of the maps of parameters and headers.
With(map, key, value) == {kv \in map : kv[1] # key} \cup {<<key, value>>}

\* What a token is for, once the state it was read in ends at `cur`.
Filled(from, to) ==
    CASE from = "METHOD" /\ to = "BEFORE_URL" ->
           [request EXCEPT !.method = IF Token(start, cur) \in Method THEN Token(start, cur) ELSE <<>>]
      [] from = "URL" /\ to \in {"BEFORE_URL_PARAM_KEY", "BEFORE_PROTOCOL"} ->
           [request EXCEPT !.url = Token(start, cur)]
      [] from = "URL_PARAM_VALUE" /\ to \in {"BEFORE_URL_PARAM_KEY", "BEFORE_PROTOCOL"} ->
           [request EXCEPT !.params = With(@, Token(start, colon), Token(colon + 1, cur))]
      [] from = "PROTOCOL" /\ to = "BEFORE_VERSION" -> [request EXCEPT !.protocol = Token(start, cur)]
      [] from = "VERSION" /\ to = "ENCOUNTER_CR" -> [request EXCEPT !.version = Token(start, cur)]
      [] from = "HEADER_VALUE" /\ to = "ENCOUNTER_CR" ->
           [request EXCEPT !.headers = With(@, Token(start, colon), Token(colon + 2, cur))]
      [] OTHER -> request

\* A token begins with this character, or with the next one.
BeginsHere == {<<"START", "METHOD">>, <<"BEFORE_PROTOCOL", "PROTOCOL">>}
BeginsNext == {<<"METHOD", "BEFORE_URL">>, <<"URL", "BEFORE_URL_PARAM_KEY">>,
               <<"URL", "BEFORE_PROTOCOL">>, <<"URL_PARAM_VALUE", "BEFORE_URL_PARAM_KEY">>,
               <<"URL_PARAM_VALUE", "BEFORE_PROTOCOL">>, <<"PROTOCOL", "BEFORE_VERSION">>,
               <<"VERSION", "ENCOUNTER_CR">>, <<"ENCOUNTER_CR", "CR_LF">>,
               <<"HEADER_VALUE", "ENCOUNTER_CR">>}
Colons == {<<"URL_PARAM_KEY", "BEFORE_URL_PARAM_VALUE">>, <<"HEADER_KEY", "BEFORE_HEADER_VALUE">>}

-----------------------------------------------------------------------------
(* Plausible bugs, each of which breaks a property at the end.  Next uses    *)
(* none of them.                                                             *)

\* cur = end to leave the loop, which then moves it once more.
BodyGoesOnPastEnd ==
    LET left == (size - cur) % SizeT IN
    /\ pc = "parse" /\ state = "BODY" /\ cur < Len(data)
    /\ contentLength > left
    /\ contentLength' = contentLength - left
    /\ cur' = Len(data) + 1
    /\ request' = [request EXCEPT !.body = @ \o Token(start, start + left)]
    /\ UNCHANGED <<stream, inBuffer, state, snapshot, pc, data, size, start, colon, outcome>>

\* The colon is not kept.
SnapshotLosesColon ==
    IF state = "BODY"
      THEN [parseState |-> "BODY", lastRequest |-> <<>>, colon |-> 0]
      ELSE [parseState |-> state, lastRequest |-> Token(start, cur), colon |-> 0]

\* The colon is kept as an offset from `begin`, where the rest begins at `start`.
SnapshotKeepsOffset ==
    IF state = "BODY"
      THEN [parseState |-> "BODY", lastRequest |-> <<>>, colon |-> 0]
      ELSE [parseState |-> state, lastRequest |-> Token(start, cur), colon |-> colon]

\* contentLength_ is not counted down.
BodyCountsNothing ==
    LET left == (size - cur) % SizeT IN
    /\ pc = "parse" /\ state = "BODY" /\ cur < Len(data)
    /\ contentLength > left
    /\ cur' = Len(data)
    /\ request' = [request EXCEPT !.body = @ \o Token(start, start + left)]
    /\ UNCHANGED <<stream, inBuffer, state, contentLength, snapshot, pc, data, size, start, colon,
                   outcome>>

-----------------------------------------------------------------------------
(* The peer.                                                               *)

HeadInPieces == snapshot.parseState \notin {"START", "BODY"}

\* A peer that waits sends no more than the first request it has no answer to.
MayArrive(n) ==
    /\ sent + n <= Len(input.text)
    /\ \A r \in DOMAIN input.ends : r > Len(outcome) /\ input.waits[r] => sent + n <= input.ends[r]
    /\ BodyApart /\ HeadInPieces =>
          ~\E r \in DOMAIN input.heads : sent < input.heads[r] /\ input.heads[r] < sent + n
    /\ ShortNext =>
          \A r \in DOMAIN input.ends :
             r = Len(outcome) + 1 /\ sent - Len(inBuffer) < input.heads[r] =>
                (sent + n) - input.ends[r] <= input.heads[r] - (sent - Len(inBuffer))

\* readNonBlocking appends a piece; the message callback calls parseRequest,
\* which empties inBuffer_ and puts the snapshot's rest in front.
Arrive(n) ==
    LET new  == inBuffer \o SubSeq(input.text, sent + 1, sent + n)
        rest == IF snapshot.parseState = "START" THEN <<>> ELSE snapshot.lastRequest
    IN /\ pc = "idle" /\ MayArrive(n)
       /\ sent' = sent + n
       /\ inBuffer' = <<>>
       /\ data' = rest \o new
       /\ size' = Len(new)
       /\ start' = 0
       /\ cur' = Len(rest)
       /\ colon' = IF snapshot.parseState = "START" THEN 0 ELSE snapshot.colon
       /\ pc' = "parse"
       /\ UNCHANGED <<input, state, contentLength, request, snapshot, outcome>>

-----------------------------------------------------------------------------
(* parseRequest, one character or, in the body, one piece at a time.       *)

At(states) == pc = "parse" /\ state \in states /\ cur < Len(data)

ParseHead == LET to == After(state, data[cur + 1]) IN
             /\ At(HeadState \ {"CR_LF_CR"})
             /\ state' = to
             /\ request' = Filled(state, to)
             /\ start' = IF <<state, to>> \in BeginsHere THEN cur
                         ELSE IF <<state, to>> \in BeginsNext THEN cur + 1 ELSE start
             /\ colon' = IF <<state, to>> \in Colons THEN cur ELSE colon
             /\ cur' = cur + 1
             /\ UNCHANGED <<stream, inBuffer, contentLength, snapshot, pc, data, size, outcome>>

\* atoi, of a digit or of one with a sign; 0 for anything else.
Atoi(s) == LET value == [d \in Digit |-> CASE d = "0" -> 0 [] d = "1" -> 1 [] d = "2" -> 2]
           IN CASE Len(s) > 0 /\ s[1] \in Digit -> value[s[1]]
                [] Len(s) > 1 /\ s[1] = "-" /\ s[2] \in Digit -> -value[s[2]]
                [] OTHER -> 0

\* "Content-Length < 0" compares a size_t and is never so.
LengthOf(headers) == IF \E h \in headers : h[1] = ContentLength
                       THEN Atoi((CHOOSE h \in headers : h[1] = ContentLength)[2]) % SizeT
                       ELSE contentLength

\* The end of the head: is there a body?  "More data" compares the offset of
\* the character with the length of the new piece.
EndOfHead == LET more == cur + 1 < size
                 length == LengthOf(request.headers)
                 hasLength == \E h \in request.headers : h[1] = ContentLength
             IN /\ At({"CR_LF_CR"})
                /\ IF data[cur + 1] = LF
                     THEN /\ contentLength' = length
                          /\ state' = IF more \/ (hasLength /\ length # 0) THEN "BODY" ELSE "COMPLETE"
                          /\ start' = cur + 1
                     ELSE state' = "INVALID_CRLF" /\ UNCHANGED <<contentLength, start>>
                /\ cur' = cur + 1
                /\ UNCHANGED <<stream, inBuffer, request, snapshot, pc, data, size, colon, outcome>>

\* How much of the piece the parser thinks is left.
Left == (size - cur) % SizeT

\* If it has wrapped around, what is taken or put back is longer than any string
\* or buffer: that throws, and nothing catches it.  Within CheapPrepend bytes of
\* the wrap Buffer's own sum of lengths wraps too (Buffer.h:114); the append then
\* does not throw, and what it does to inBuffer_ is undefined.  In either case the
\* request is lost and nothing that follows is modelled.
Terminates == pc' = "terminated" /\ UNCHANGED <<inBuffer, state, contentLength, request, cur>>

\* More of the body is to come.
BodyGoesOn ==
    /\ At({"BODY"})
    /\ contentLength > Left
    /\ IF start + Left <= Len(data)
         THEN /\ contentLength' = contentLength - Left
              /\ request' = [request EXCEPT !.body = @ \o Token(start, start + Left)]
              /\ cur' = Len(data)
              /\ UNCHANGED <<inBuffer, state, pc>>
         ELSE Terminates
    /\ UNCHANGED <<stream, snapshot, data, size, start, colon, outcome>>

\* The data is in inBuffer_'s own memory unless it was joined to a snapshot's rest.
InPlace == snapshot.parseState = "START"

\* What is left goes back into inBuffer_, whose memory begins where the data does.
\* The body is copied out only then.
BodyEnds ==
    /\ At({"BODY"})
    /\ contentLength <= Left
    /\ IF start + Left <= Len(data)
         THEN LET extra  == Token(start + contentLength, start + Left)
                  memory == IF InPlace THEN extra \o Token(Len(extra), Len(data)) ELSE data
              IN
              /\ state' = "COMPLETE"
              /\ inBuffer' = extra
              /\ request' = [request EXCEPT !.body = @ \o SubSeq(memory, start + 1, start + contentLength)]
              /\ cur' = cur + 1
              /\ UNCHANGED <<contentLength, pc>>
         ELSE Terminates
    /\ UNCHANGED <<stream, snapshot, data, size, start, colon, outcome>>

\* What is kept of a request that is not complete: the token it stopped in.
Snapshot ==
    IF state = "BODY"
      THEN [parseState |-> "BODY", lastRequest |-> <<>>, colon |-> 0]
      ELSE [parseState |-> state, lastRequest |-> Token(start, cur),
            colon |-> IF colon # 0 THEN colon - start ELSE 0]

Stopped == pc = "parse" /\ (state \in Invalid \cup {"COMPLETE"} \/ cur = Len(data))

Unfinished == /\ Stopped
              /\ state \notin Invalid \cup {"COMPLETE"}
              /\ snapshot' = Snapshot
              /\ pc' = "idle"
              /\ UNCHANGED <<stream, inBuffer, state, contentLength, request, pointers, outcome>>

\* The request is answered, and reset() makes the context new.
Complete == /\ Stopped
            /\ state = "COMPLETE"
            /\ outcome' = Append(outcome, [status |-> "COMPLETE", request |-> request])
            /\ contentLength' = Minus1
            /\ state' = "START"
            /\ request' = NoRequest
            /\ snapshot' = [snapshot EXCEPT !.parseState = "START"]
            /\ pc' = "idle"
            /\ UNCHANGED <<stream, inBuffer, pointers>>

\* An error is sent, and the context stays as it is: so will every later piece.
Error == /\ Stopped
         /\ state \in Invalid
         /\ outcome' = Append(outcome, [status |-> state, request |-> NoRequest])
         /\ pc' = "idle"
         /\ UNCHANGED <<stream, inBuffer, state, contentLength, request, snapshot, pointers>>

-----------------------------------------------------------------------------
Next == \/ \E n \in 1 .. Len(input.text) : Arrive(n)
        \/ ParseHead \/ EndOfHead
        \/ BodyGoesOn \/ BodyEnds
        \/ Unfinished \/ Complete \/ Error

Spec == Init /\ [][Next]_vars

-----------------------------------------------------------------------------
\* HTTP-Context.cc 82-402, HTTP-Server.cc 107-121: wherever a request is cut,
\* the server answers the requests the peer sent, in their order, each with the
\* method, URL, parameters, headers and body it was sent with, until one is not
\* a request; from there on there are only errors, of that one's kind.
RequestsAsSent ==
    LET good(n) == \A r \in 1 .. n : outcome[r] = input.parsed[r]
    IN \E n \in 0 .. Len(outcome) :
          /\ n <= Len(input.parsed) /\ good(n)
          /\ n < Len(outcome) =>
                /\ n < Len(input.parsed) /\ input.parsed[n + 1].status # "COMPLETE"
                /\ \A i \in n + 1 .. Len(outcome) : outcome[i] = input.parsed[n + 1]

\* What is between `from` and `to` of a text in this state: a name, its mark, which
\* is at `mark`, and what there is of a value; a header's value is behind a blank.
Marked(s, text, from, mark, to) ==
    /\ s \in {"BEFORE_URL_PARAM_VALUE", "URL_PARAM_VALUE"} =>
         from <= mark /\ mark < to /\ text[mark + 1] = "="
    /\ s \in {"BEFORE_HEADER_VALUE", "HEADER_VALUE"} =>
         from <= mark /\ mark < to /\ text[mark + 1] = ":"
    /\ s = "BEFORE_HEADER_VALUE" => mark + 1 = to
    /\ s = "HEADER_VALUE" => mark + 1 < to /\ text[mark + 2] \in Blank

\* HTTP-Context.cc 97-115, 379-388: however a request is cut, the pointers of the
\* token being read stay in order, and the one in its middle stays on the mark it
\* was set to: what is cut out on either side of it is what stood there.
TokensInOrder == /\ start <= cur
                 /\ pc = "parse" => Marked(state, data, start, colon, cur)

\* HTTP-Context.cc 88-90, 359-363: once the last byte of a request has arrived
\* it is answered, or it waits in inBuffer_ with all that follows it behind a
\* request that was in the same piece.
WholeRequestsAnswered ==
    LET done == IF outcome = <<>> THEN 0 ELSE input.ends[Len(outcome)]
    IN /\ pc # "terminated"
       /\ pc = "idle" /\ state \notin Invalid =>
            \A r \in DOMAIN input.ends :
               sent >= input.ends[r] /\ r > Len(outcome) => inBuffer = SubSeq(input.text, done + 1, sent)

=============================================================================
