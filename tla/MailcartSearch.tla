--------------------------- MODULE MailcartSearch ---------------------------
(***************************************************************************)
(* GET /v1/messages/search of mailcart_api: MailcartApi::SearchMessages    *)
(* (cpp_core/src/api.cpp) with GraphClient::GetNextLink (graph.cpp) and    *)
(* the matching of search.cpp.  One request is followed from its query to  *)
(* its answer; mail may arrive while pages are fetched.                    *)
(***************************************************************************)
EXTENDS SearchText, AhoCorasick

CONSTANTS
    Calendar,      \* the days that occur, in their order
    Searches,      \* what may be searched: [query, limit, mail]
    Arrivals,      \* messages that may arrive meanwhile
    MaxArrivals,   \* bound on them
    RecentTop,     \* rows asked for without a query: 50
    TopFactor, TopFloor,    \* with a query: limit * 8, at least 200
    ScanFactor, ScanFloor   \* scanned at most, with dates: limit * 100, or 2000

Messages == (UNION {ToSet(s.mail) : s \in Searches}) \cup Arrivals

\* ValidateSearchParams lets limits of 1..100 through; the calendar has the
\* days of all messages.
ASSUME SearchAssumption ==
    /\ {MaxArrivals, RecentTop, TopFactor, TopFloor, ScanFactor, ScanFloor} \subseteq Nat
    /\ \A s \in Searches :
          /\ s.limit \in Nat \ {0}
          /\ s.mail \in Seq(ToSet(s.mail))
          /\ s.query.tokens \in Seq(ToSet(s.query.tokens))
          /\ \A t \in ToSet(s.query.tokens) : t.text \in Seq(DOMAIN Lower)
    /\ Calendar \in Seq(ToSet(Calendar))
    /\ \A m \in Messages : ParseIsoDate(m.date) \in {NoDate} \cup ToSet(Calendar)

VARIABLES
    search,    \* the element of Searches
    honoured,  \* whether Graph applies $filter, if there is one
    mail,      \* the messages, newest first
    cursor,    \* how many of those Graph lists it has delivered
    pc,
    page,      \* rows of the page not looked at yet
    link,      \* the page's @odata.nextLink: "none", "graph" or "elsewhere"
    scanned,   \* rows looked at
    oldest,    \* the oldest date on the page so far
    results    \* ids of the messages found

searchVars == <<search, honoured, mail, cursor, pc, page, link, scanned, oldest, results>>
vars == <<searchVars, matcher>>

query == search.query
limit == search.limit
criteria == SearchCriteria(query)
AtLeast(a, b) == IF a >= b THEN a ELSE b

Top == IF IsEmptyQuery(query) THEN AtLeast(limit, RecentTop)
       ELSE AtLeast(limit * TopFactor, TopFloor)
ShouldPaginate == criteria.from # NoDate \/ criteria.to # NoDate
MaxScannedRows == AtLeast(limit * ScanFactor, ScanFloor)

Init ==
    /\ search \in Searches
    /\ honoured \in IF ShouldPaginate THEN BOOLEAN ELSE {TRUE}
    /\ mail = search.mail
    /\ cursor = 0
    /\ pc = "parse"
    /\ page = <<>> /\ link = "none"
    /\ scanned = 0 /\ oldest = NoDate /\ results = <<>>
    /\ NoMatcher

-----------------------------------------------------------------------------
(* Matching                                                                *)

BuildCriteriaMatcher ==
    StartMatcher((criteria.subject \cup criteria.sender \cup criteria.body) \ {<<>>})

InDates(date, c) ==
    /\ c.from # NoDate => date # NoDate /\ ~Before(date, c.from)
    /\ c.to # NoDate => date # NoDate /\ ~Before(c.to, date)

MessageMatchesCriteria(m) ==
    /\ criteria.subject \subseteq Found(NormalizeSearchText(m.subject))
    /\ criteria.sender \subseteq Found(NormalizeSearchText(m.sender))
    /\ criteria.body \subseteq Found(NormalizeSearchText(ExtractBodyText(m)))
    /\ InDates(ParseIsoDate(m.date), criteria)

-----------------------------------------------------------------------------
(* Graph                                                                   *)

\* The messages Graph lists for the request; rows that are no objects pass.
Lists(m) == honoured /\ m.object => InDates(m.date, criteria)
ListingOldestFirst ==   \* mutant: the request has no $orderby
    LET list[i \in 1..Len(mail) + 1] ==
            IF i > Len(mail) THEN <<>>
            ELSE list[i + 1] \o (IF Lists(mail[i]) THEN <<mail[i]>> ELSE <<>>)
    IN  list[1]
Listing ==
    LET list[i \in 1..Len(mail) + 1] ==
            IF i > Len(mail) THEN <<>>
            ELSE (IF Lists(mail[i]) THEN <<mail[i]>> ELSE <<>>) \o list[i + 1]
    IN  list[1]

\* A page has at most $top rows and, as long as there are more, at least one.
DeliverPage ==
    LET left == Len(Listing) - cursor
    IN  \E n \in 0..Top :
            /\ n <= left /\ (n = 0 => left <= 0)
            /\ page' = SubSeq(Listing, cursor + 1, cursor + n)
            /\ cursor' = cursor + n
            /\ \/ n >= left /\ link' = "none"
               \/ n < left /\ link' \in {"graph", "elsewhere"}
            /\ oldest' = NoDate
            /\ pc' = "scan"

\* The next page counts from the top ($skip), where the new message pushes
\* the rows down, or goes on behind the last row.
MailArrives ==
    /\ pc = "next"
    /\ Len(mail) < Len(search.mail) + MaxArrivals
    /\ \E m \in Arrivals \ ToSet(mail) :
          /\ mail' = <<m>> \o mail
          /\ cursor' \in {cursor} \cup (IF Lists(m) THEN {cursor + 1} ELSE {})
    /\ UNCHANGED <<search, honoured, pc, page, link, scanned, oldest, results, matcher>>

-----------------------------------------------------------------------------
(* SearchMessages                                                          *)

\* A query that cannot be parsed finds nothing.
ParseScopedQuery ==
    /\ pc = "parse"
    /\ pc' = IF IsScopedQuery(query) THEN "first" ELSE "done"
    /\ UNCHANGED <<search, honoured, mail, cursor, page, link, scanned, oldest, results, matcher>>

GetFirstPage ==
    /\ pc = "first"
    /\ DeliverPage
    /\ BuildCriteriaMatcher
    /\ UNCHANGED <<search, honoured, mail, scanned, results>>

BuildMatcher ==
    /\ pc = "scan"
    /\ BuildFailureLinks
    /\ UNCHANGED searchVars

OlderOf(a, b) == IF b = NoDate \/ (a # NoDate /\ Before(a, b)) THEN a ELSE b

ScanRowPastLimit ==   \* mutant: the limit is looked at only between pages
    /\ pc = "scan" /\ queue = <<>> /\ page # <<>>
    /\ LET m == Head(page) IN
        IF ~m.object THEN UNCHANGED <<scanned, oldest, results>>
        ELSE /\ scanned' = scanned + 1
             /\ oldest' = OlderOf(ParseIsoDate(m.date), oldest)
             /\ results' = IF IsEmptyQuery(query) \/ MessageMatchesCriteria(m)
                           THEN Append(results, m.id) ELSE results
    /\ page' = Tail(page)
    /\ UNCHANGED <<search, honoured, mail, cursor, pc, link, matcher>>
ScanRow ==
    /\ pc = "scan" /\ queue = <<>> /\ page # <<>>
    /\ LET m == Head(page) IN
        IF ~m.object THEN UNCHANGED <<scanned, oldest, results>>
        ELSE /\ scanned' = scanned + 1
             /\ oldest' = OlderOf(ParseIsoDate(m.date), oldest)
             /\ results' = IF IsEmptyQuery(query) \/ MessageMatchesCriteria(m)
                           THEN Append(results, m.id) ELSE results
    /\ page' = IF Len(results') >= limit THEN <<>> ELSE Tail(page)
    /\ UNCHANGED <<search, honoured, mail, cursor, pc, link, matcher>>

PastFromDateOrOn ==   \* mutant: stops at the first page that reaches the date
    criteria.from # NoDate /\ oldest # NoDate /\ ~Before(criteria.from, oldest)
PastFromDate ==
    criteria.from # NoDate /\ oldest # NoDate /\ Before(oldest, criteria.from)

NoFurtherPageUnlessFull ==   \* mutant: goes on without a link
    \/ Len(results) >= limit \/ IsEmptyQuery(query)
    \/ ~ShouldPaginate
    \/ scanned >= MaxScannedRows
    \/ PastFromDate
NoFurtherPage ==
    \/ Len(results) >= limit \/ IsEmptyQuery(query)
    \/ ~ShouldPaginate
    \/ scanned >= MaxScannedRows
    \/ PastFromDate
    \/ link = "none"

EndPage ==
    /\ pc = "scan" /\ queue = <<>> /\ page = <<>>
    /\ pc' = IF NoFurtherPage THEN "done" ELSE "next"
    /\ UNCHANGED <<search, honoured, mail, cursor, page, link, scanned, oldest, results, matcher>>

\* GetNextLink follows links to https://graph.microsoft.com only.
GetNextPage ==
    /\ pc = "next" /\ link # "elsewhere"
    /\ DeliverPage
    /\ UNCHANGED <<search, honoured, mail, scanned, results, matcher>>

\* The request is answered with an error, whatever has been found.
SearchFails ==
    /\ pc \in {"first", "next"}
    /\ pc' = "failed"
    /\ UNCHANGED <<search, honoured, mail, cursor, page, link, scanned, oldest, results, matcher>>

SearchStep ==
    \/ ParseScopedQuery \/ GetFirstPage \/ BuildMatcher \/ ScanRow
    \/ EndPage \/ GetNextPage \/ SearchFails

Next == SearchStep \/ MailArrives

Spec == Init /\ [][Next]_vars

\* Calls of Graph end, with an answer, an error or a timeout of 25 s.  Some
\* step is possible until the search has ended, so that this is weak fairness
\* of SearchStep without its ENABLED.
Ended == pc \in {"done", "failed"}
FairSpec == Spec /\ ([]<>Ended \/ []<><<SearchStep>>_vars)

-----------------------------------------------------------------------------
(* What a search is to find, said without the tables and loops of the code *)

\* The i-th lexeme is white space at an end, or not the last of several.
Superfluous(s, i) ==
    /\ s[i] = " "
    /\ \/ \A j \in 1..i : s[j] = " "
       \/ \A j \in i..Len(s) : s[j] = " "
       \/ s[i + 1] = " "

Words(s) ==
    LET kept == {i \in DOMAIN s : ~Superfluous(s, i)}
        nth(k) == CHOOSE i \in kept : Cardinality(kept \cap (1..i)) = k
    IN  [k \in 1..Cardinality(kept) |-> Lower[s[nth(k)]]]

\* The first closing tag of a block that opens at a.
Closes(s, a) ==
    LET ends == {j \in a + 1..Len(s) : s[j] = Closing[s[a]]}
    IN  IF ends = {} THEN 0 ELSE CHOOSE j \in ends : \A k \in ends : j <= k

\* The i-th lexeme of an HTML body is part of a closed script or style block.
InBlock(s, i) ==
    LET opens[a \in 1..Len(s)] ==
            /\ s[a] \in DOMAIN Closing
            /\ Closes(s, a) # 0
            /\ \A b \in 1..a - 1 : opens[b] => Closes(s, b) < a
    IN  \E a \in 1..i : opens[a] /\ i <= Closes(s, a)

\* It is a tag, or stands between a "<" and the next ">".
InTag(s, i) ==
    LET angles == {j \in DOMAIN s : ~InBlock(s, j) /\ s[j] \in Tags \cup {">"}}
    IN  \/ s[i] \in Tags
        \/ \E a \in 1..i :
              /\ s[a] = "<" /\ ~InBlock(s, a)
              /\ \E e \in angles : /\ e >= i /\ angles \cap (a..e - 1) = {}
                                  /\ ~(s[e] = ">" /\ e = a + 1)

Shown(s) ==
    [i \in DOMAIN s |->
        IF InBlock(s, i) \/ InTag(s, i) THEN " "
        ELSE IF s[i] \in DOMAIN Entities THEN Entities[s[i]] ELSE s[i]]

\* The place of a day in the calendar, 0 if there is no such day.
Day(date) ==
    LET days == {k \in DOMAIN Calendar : Calendar[k] = date}
    IN  IF date = NoDate \/ days = {} THEN 0 ELSE CHOOSE k \in days : TRUE

Satisfies(m, token) ==
    CASE token.scope = "subject" -> Occurs(Words(token.text), Words(m.subject))
      [] token.scope = "sender"  -> Occurs(Words(token.text), Words(m.sender))
      [] token.scope = "body"    -> Occurs(Words(token.text),
             CASE m.type = "html" -> Words(Shown(m.body))
               [] m.type = "text" -> Words(m.body)
               [] OTHER           -> Words(m.preview))
      [] token.scope = "from"    -> Day(m.date) >= Day(token.date)
      [] token.scope = "to"      -> Day(m.date) \in 1..Day(token.date)

Wanted(m) == m.object /\ \A k \in DOMAIN query.tokens : Satisfies(m, query.tokens[k])

\* Every token has a value, the dates are days, given once and in order.
IsProper ==
    LET days(scope) == {Day(query.tokens[k].date) : k \in Dates(query, scope)}
    IN  /\ Words(query.lead) = <<>>
        /\ \A k \in DOMAIN query.tokens :
              query.tokens[k].scope \in TextScopes => Words(query.tokens[k].text) # <<>>
        /\ \A scope \in {"from", "to"} : Cardinality(Dates(query, scope)) <= 1
        /\ 0 \notin days("from") \cup days("to")
        /\ \A f \in days("from"), t \in days("to") : f <= t

\* A mailbox is listed newest first, its messages have different ids, and
\* what arrives is at least as new.
MayPrecede(m, n) == 0 \in {Day(m.date), Day(n.date)} \/ Day(m.date) >= Day(n.date)
ASSUME MailAssumption ==
    /\ \A s \in Searches :
          /\ \A j, k \in DOMAIN s.mail : j < k =>
                s.mail[j].id # s.mail[k].id /\ MayPrecede(s.mail[j], s.mail[k])
          /\ \A m \in Arrivals, n \in ToSet(s.mail) : m.id # n.id /\ MayPrecede(m, n)
    /\ \A m, n \in Arrivals : m.id = n.id => m = n

\* Of the texts and days that occur: tokens are of five kinds, the calendar has
\* the days of the queries, all of them dates and in order, and no entity is white
\* space.
ASSUME TextAssumption ==
    /\ \A m \in Messages : \A text \in {m.subject, m.sender, m.body, m.preview} :
          text \in Seq(ToSet(text))
    /\ \A s \in Searches :
          /\ s.query.lead \in Seq(ToSet(s.query.lead))
          /\ \A t \in ToSet(s.query.tokens) :
                /\ t.scope \in TextScopes \cup {"from", "to"}
                /\ ParseIsoDate(t.date) \in {NoDate} \cup ToSet(Calendar)
    /\ \A d \in ToSet(Calendar) : d # NoDate /\ ParseIsoDate(d) = d
    /\ \A j, k \in DOMAIN Calendar : j < k <=> Before(Calendar[j], Calendar[k])
    /\ " " \notin DOMAIN Entities

Message(id) == CHOOSE m \in ToSet(mail) : m.id = id

-----------------------------------------------------------------------------
(* Properties                                                              *)

\* Every variable has its type; no answer is longer than the limit.
TypeOK ==
    /\ honoured \in BOOLEAN
    /\ ToSet(mail) \subseteq ToSet(search.mail) \cup Arrivals
    /\ cursor \in 0..Len(mail)
    /\ pc \in {"parse", "first", "scan", "next", "done", "failed"}
    /\ ToSet(page) \subseteq ToSet(mail)
    /\ link \in {"none", "graph", "elsewhere"}
    /\ scanned \in 0..MaxScannedRows + Top
    /\ oldest = NoDate \/ Day(oldest) # 0
    /\ ToSet(results) \subseteq {m.id : m \in ToSet(mail)} /\ Len(results) <= limit
    /\ ToSet(queue) \subseteq Nodes /\ DOMAIN output = Nodes

\* BuildFailureLinks ends with links to the longest suffixes and with all the
\* patterns that end at a node, so that one pass finds what overlaps.
MatcherIsRight ==
    queue = <<>> /\ scanned = 0 => LinksAreRight(Nodes, {p \in Nodes : p \in output[p]})

\* What is found is asked for: its texts contain every text of the query in
\* its scope, seen as a reader sees them, and its day is in the range.
ResultsAreWanted == \A k \in DOMAIN results : Wanted(Message(results[k]))

\* Nothing comes twice unless mail has arrived between two pages, and the
\* newest comes first unless two messages have.
ResultsAreInOrder ==
    /\ Len(mail) = Len(search.mail) => IsInjective(results)
    /\ Len(mail) <= Len(search.mail) + 1 =>
          \A j, k \in DOMAIN results : LET d(i) == Day(Message(results[i]).date) IN
             j < k /\ d(j) # 0 /\ d(k) # 0 => d(j) >= d(k)

\* An answer below the limit has everything the mailbox held when the search
\* began, unless the bound on scanned rows ended it; without dates it has
\* what is on the first page.
NothingIsMissed ==
    pc = "done" /\ IsProper /\ Len(results) < limit /\ scanned < MaxScannedRows =>
        LET seen == IF ShouldPaginate THEN search.mail ELSE SubSeq(search.mail, 1, cursor)
        IN  \A m \in ToSet(seen) : Wanted(m) => m.id \in ToSet(results)

\* The search ends as long as each page that is not the last has a row.
SearchEnds == <>Ended
=============================================================================
