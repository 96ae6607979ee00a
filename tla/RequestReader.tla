---------------------------- MODULE RequestReader ----------------------------
(***************************************************************************)
(* What a text means, whatever its cuts: the same characters, tables and   *)
(* lengths as HTTPContext, read one after the other, with no pieces, no    *)
(* pointers, no snapshot and no buffer.  It is what the pieces of a text   *)
(* are compared with.                                                      *)
(***************************************************************************)
EXTENDS HTTPContext

Results == [status : Invalid \cup {"COMPLETE"}, request : Requests]

\* How far a text has been read: the state, the request so far, the characters of
\* the token that is being read, where in them its mark is, how much of the body
\* is to come, and what the requests before it were.
Readings == [state : HeadState \cup {"BODY"} \cup Invalid, request : Requests, token : Seq(Char),
             mark : Nat, left : 0 .. SizeT - 1, parsed : Seq(Results)]

NewRequest(parsed) == [state |-> "START", request |-> NoRequest, token |-> <<>>, mark |-> 0,
                       left |-> 0, parsed |-> parsed]

Answered(a, q) == NewRequest(Append(a.parsed, [status |-> "COMPLETE", request |-> q]))

Refused(a, error) == [a EXCEPT !.state = error,
                               !.parsed = Append(@, [status |-> error, request |-> NoRequest])]

\* A name and a value are on either side of their mark, a header's behind a blank.
Named(map, a, skipped) == With(map, SubSeq(a.token, 1, a.mark),
                               SubSeq(a.token, a.mark + skipped + 1, Len(a.token)))

\* The request with the token that ends where `to` begins.
WithToken(a, to) ==
    CASE a.state = "METHOD" /\ to = "BEFORE_URL" ->
           [a.request EXCEPT !.method = IF a.token \in Method THEN a.token ELSE <<>>]
      [] a.state = "URL" /\ to \in {"BEFORE_URL_PARAM_KEY", "BEFORE_PROTOCOL"} ->
           [a.request EXCEPT !.url = a.token]
      [] a.state = "URL_PARAM_VALUE" /\ to \in {"BEFORE_URL_PARAM_KEY", "BEFORE_PROTOCOL"} ->
           [a.request EXCEPT !.params = Named(@, a, 1)]
      [] a.state = "PROTOCOL" /\ to = "BEFORE_VERSION" -> [a.request EXCEPT !.protocol = a.token]
      [] a.state = "VERSION" /\ to = "ENCOUNTER_CR" -> [a.request EXCEPT !.version = a.token]
      [] a.state = "HEADER_VALUE" /\ to = "ENCOUNTER_CR" ->
           [a.request EXCEPT !.headers = Named(@, a, 2)]
      [] OTHER -> a.request

TokenWith(a, c, to) == IF <<a.state, to>> \in BeginsHere THEN <<c>>
                       ELSE IF <<a.state, to>> \in BeginsNext \cup {<<"START", "START">>} THEN <<>>
                       ELSE Append(a.token, c)

ReadHead(a, c) ==
    LET to == After(a.state, c) IN
    IF to \in Invalid THEN Refused(a, to)
    ELSE [a EXCEPT !.state = to,
                   !.request = WithToken(a, to),
                   !.token = TokenWith(a, c, to),
                   !.mark = IF <<a.state, to>> \in Colons THEN Len(a.token) ELSE @]

HasLength(q) == \E h \in q.headers : h[1] = ContentLength

\* What a request without Content-Length has for a body is the reader's to say: none.
BodyLength(q) == IF HasLength(q)
                   THEN Atoi((CHOOSE h \in q.headers : h[1] = ContentLength)[2]) % SizeT
                   ELSE 0

ReadEndOfHead(a, c) ==
    IF c # LF THEN Refused(a, "INVALID_CRLF")
    ELSE IF BodyLength(a.request) = 0 THEN Answered(a, a.request)
    ELSE [a EXCEPT !.state = "BODY", !.left = BodyLength(a.request)]

ReadBody(a, c) ==
    LET q == [a.request EXCEPT !.body = Append(@, c)] IN
    IF a.left = 1 THEN Answered(a, q) ELSE [a EXCEPT !.request = q, !.left = @ - 1]

\* Behind what is no request nothing is read any more.
Read(a, c) == CASE a.state = "BODY" -> ReadBody(a, c)
                [] a.state = "CR_LF_CR" -> ReadEndOfHead(a, c)
                [] a.state \in HeadState \ {"CR_LF_CR"} -> ReadHead(a, c)
                [] OTHER -> a

\* What the first n characters of a text are.
Reading(text) == LET first[n \in 0 .. Len(text)] ==
                         IF n = 0 THEN NewRequest(<<>>) ELSE Read(first[n - 1], text[n])
                 IN  first

-----------------------------------------------------------------------------
(* What an input says of its text is so: what its requests are, and where    *)
(* the head of each and the whole of it end.  A peer whose request has no    *)
(* Content-Length waits for the answer, and what it sends fits in a size_t.  *)

EndsAsSaid(i, n) ==
    LET a == Reading(i.text)[n] read == Len(a.parsed)
    IN  a.state \notin Invalid =>
          /\ \A r \in DOMAIN i.parsed :
               /\ i.ends[r] <= n <=> r <= read
               /\ i.heads[r] <= n <=> r <= read \/ (r = read + 1 /\ a.state = "BODY")
          /\ a.state = "BODY" => read < Len(i.parsed)

ReadsAsSaid(i) ==
    /\ Len(i.text) < SizeT
    /\ Reading(i.text)[Len(i.text)].parsed = i.parsed
    /\ \A n \in 0 .. Len(i.text) : EndsAsSaid(i, n)
    /\ \A r \in DOMAIN i.parsed :
         i.parsed[r].status = "COMPLETE" /\ ~HasLength(i.parsed[r].request) => i.waits[r]

InputsAsSaid == \A i \in Inputs : ReadsAsSaid(i)

=============================================================================
