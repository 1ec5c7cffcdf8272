--------------------------- MODULE MCMailClients ----------------------------
(* One message, a worker of the API server and one thread of the app.  Two   *)
(* folder names differ in the case of an ASCII letter and two in that of an  *)
(* umlaut ("buero" stands for the German word).                              *)
EXTENDS MailClients

CONSTANTS w1, b1, m1

AsciiOnly == [n \in Names |-> IF n = "Matchy" THEN "matchy" ELSE n]
AnyLetter == [n \in Names |-> CASE n = "Matchy" -> "matchy"
                                 [] n = "BUERO"  -> "buero"
                                 [] OTHER        -> n]
OneFolder == <<"Matchy">>

Id(k) == [message |-> m1, moves |-> k]
Good == <<"good">>

\* A blank variable is passed over.
TokenSet == << <<>>, <<"bearer", "good">> >>
NoTokenSet == << <<>>, <<>> >>
BothEnvironments == {TokenSet, NoTokenSet}

\* The app's tokens go wrong where the server turns everything down; they stay
\* good where both file messages.
TroubleWithoutServer == [e \in BothEnvironments |-> IF e = TokenSet THEN 0 ELSE 3]

Plain == [method |-> "GET", path |-> <<"health">>, id |-> Id(0), provided |-> Good,
          authorization |-> <<>>, body |-> "none", query |-> "short", limit |-> "none"]
Search == [Plain EXCEPT !.path = <<"v1", "messages", "search">>]
Read(k) == [Plain EXCEPT !.path = <<"v1", "messages", "id">>, !.id = Id(k)]
Move(k, body) == [Plain EXCEPT !.method = "POST", !.path = <<"v1", "messages", "id", "move">>,
                               !.id = Id(k), !.body = body]

\* A move to the folder the app asks for in another spelling, one to the default
\* folder, and one request for every other way through HandleApiRequest.
MCRequests ==
    {Move(0, "buero")}
    \cup {Plain, Search, Read(0),
          [Plain EXCEPT !.method = "POST"],
          [Plain EXCEPT !.path = <<"v1", "messages", "id", "x", "move">>],
          [Search EXCEPT !.limit = "more"],
          [Read(0) EXCEPT !.path[3] = "malformed"],
          [Read(0) EXCEPT !.path[3] = "short"],
          [Move(0, "none") EXCEPT !.path[3] = "malformed"],
          [Move(0, "none") EXCEPT !.provided = <<>>, !.authorization = <<"bearer", "good">>],
          [Move(0, "none") EXCEPT !.provided = <<"bad">>, !.authorization = Good],
          Move(0, "bad")}
=============================================================================
