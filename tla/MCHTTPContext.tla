---------------------------- MODULE MCHTTPContext ----------------------------
(* Requests with and without parameters, headers and a body, bodies that     *)
(* look like requests, requests sent before the answer to the last, and one  *)
(* that is wrong in each of the ways the parser tells apart.                 *)
EXTENDS RequestReader

Version == <<"H", "/", "1", ".", "1", CR, LF>>
V11 == <<"1", ".", "1">>
Crlf == <<CR, LF>>

Req(method, url, params, headers, body) ==
    [status  |-> "COMPLETE",
     request |-> [method |-> method, url |-> url, params |-> params, protocol |-> <<"H">>,
                  version |-> V11, headers |-> headers, body |-> body]]

\* G / H/1.1
Get == <<"G", " ", "/", " ">> \o Version \o Crlf
GetParsed == Req(<<"G">>, <<"/">>, {}, {}, <<>>)

\* G /a?k=v&a=1 H/1.1, then two headers
GetLong == <<CR, LF, "G", " ", "/", "a", "?", "k", "=", "v", "&", "a", "=", "1", " ">> \o Version
             \o <<"k", "k", ":", " ", "v", " ", CR, LF>> \o <<"a", ":", " ", CR, LF>> \o Crlf
GetLongParsed ==
    Req(<<"G">>, <<"/", "a">>, {<<<<"k">>, <<"v">>>>, <<<<"a">>, <<"1">>>>},
        {<<<<"k", "k">>, <<"v", " ">>>>, <<<<"a">>, <<>>>>}, <<>>)

\* P / H/1.1, L: 2, and a body of two characters
PostHead == <<"P", " ", "/", " ">> \o Version \o <<"L", ":", " ", "2", CR, LF>> \o Crlf
Post == PostHead \o <<"G", " ">>
PostParsed == Req(<<"P">>, <<"/">>, {}, {<<<<"L">>, <<"2">>>>}, <<"G", " ">>)

\* P / H/1.1, L: 0
PostEmpty == <<"P", " ", "/", " ">> \o Version \o <<"L", ":", " ", "0", CR, LF>> \o Crlf
PostEmptyParsed == Req(<<"P">>, <<"/">>, {}, {<<<<"L">>, <<"0">>>>}, <<>>)

One(text, head, parsed) == [text |-> text, heads |-> <<head>>, ends |-> <<Len(text)>>,
                            waits |-> <<TRUE>>, parsed |-> <<parsed>>]

Plain == LET n == Len(GetLong) IN
    [text |-> GetLong \o Get, heads |-> <<n, n + Len(Get)>>, ends |-> <<n, n + Len(Get)>>,
     waits |-> <<TRUE, TRUE>>, parsed |-> <<GetLongParsed, GetParsed>>]

WithBody == LET n == Len(Post) IN
    [text |-> Post \o Get, heads |-> <<Len(PostHead), n + Len(Get)>>, ends |-> <<n, n + Len(Get)>>,
     waits |-> <<TRUE, TRUE>>, parsed |-> <<PostParsed, GetParsed>>]

Pipelined == LET n == Len(Post) m == Len(PostEmpty) IN
    [text |-> Post \o PostEmpty \o Post,
     heads |-> <<Len(PostHead), n + m, n + m + Len(PostHead)>>,
     ends |-> <<n, n + m, n + m + n>>, waits |-> <<FALSE, FALSE, TRUE>>,
     parsed |-> <<PostParsed, PostEmptyParsed, PostParsed>>]

Bad(text, error) == One(text, Len(text), [status |-> error, request |-> NoRequest])

MCInputs == {
    Plain, WithBody, Pipelined,
    Bad(<<"G", "a">>, "INVALID_METHOD"),
    Bad(<<"G", " ", "a">>, "INVALID_URL"),
    Bad(<<"G", " ", "/", "?", "k", "&", " ", "H">>, "INVALID_URL"),
    Bad(<<"G", " ", "/", " ", "H", "/", "v">>, "INVALID_PROTOCOL"),
    Bad(<<"G", " ", "/", " ">> \o Version \o <<"k", " ", ":">>, "INVALID_HEADER"),
    Bad(<<"G", " ", "/", " ">> \o Version \o <<"k", ":", "v">>, "INVALID_HEADER"),
    Bad(<<"G", " ", "/", " ", "H", "/", "1", CR, "a">>, "INVALID_CRLF"),
    Bad(<<"G", " ", "/", " ">> \o Version \o <<CR, "a", "a">>, "INVALID_CRLF") }

\* One request with a body.
MCPost == {One(Post, Len(PostHead), PostParsed)}

ASSUME MCInputsAssumption == InputsAsSaid

=============================================================================
