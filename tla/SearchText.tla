----------------------------- MODULE SearchText -----------------------------
(***************************************************************************)
(* The pure functions of cpp_core/src/search.cpp: scoped queries, dates,   *)
(* and the searchable text of a message.                                   *)
(*                                                                         *)
(* A text is a sequence of lexemes: characters, of which " " stands for    *)
(* any white space, HTML tags such as "<script>", entities such as "&lt;", *)
(* and a lone "<" or ">".  Lower[c] is c in lower case.  A date is         *)
(* <<year, month, day>>; <<>> is no date, or text that is no date.         *)
(***************************************************************************)
EXTENDS Naturals, Sequences

CONSTANTS
    Lower,     \* what AsciiLower does to the lexemes, a function
    Entities   \* what UnescapeHtml makes of the entities, a function

-----------------------------------------------------------------------------
(* Dates                                                                   *)

NoDate == <<>>

IsLeapYearJulian(year) == year % 4 = 0   \* mutant: no exception for centuries
IsLeapYear(year) ==
    \/ year % 4 = 0 /\ year % 100 # 0
    \/ year % 400 = 0

DaysInMonth(year, month) ==
    CASE month = 2 -> IF IsLeapYear(year) THEN 29 ELSE 28
      [] month \in {4, 6, 9, 11} -> 30
      [] OTHER -> 31

\* The date if there is such a day.
MakeDate(date) ==
    IF date[2] \in 1..12 /\ date[3] \in 1..DaysInMonth(date[1], date[2])
    THEN date ELSE NoDate

\* A received date is followed by a time or by nothing, which is as good.
ParseIsoDate(text) == IF text = NoDate THEN NoDate ELSE MakeDate(text)

Before(a, b) ==
    \/ a[1] < b[1]
    \/ a[1] = b[1] /\ a[2] < b[2]
    \/ a[1] = b[1] /\ a[2] = b[2] /\ a[3] < b[3]

-----------------------------------------------------------------------------
(* Text                                                                    *)

IsSpace(c) == c = " "

\* Without the white space at both ends.
Strip(s) ==
    LET solid == {i \in DOMAIN s : ~IsSpace(s[i])}
    IN  IF solid = {} THEN <<>>
        ELSE SubSeq(s, CHOOSE i \in solid : \A j \in solid : i <= j,
                       CHOOSE i \in solid : \A j \in solid : i >= j)

\* White space collapsed, from the i-th character on.
NormalizeSearchText(value) ==
    LET s == Strip(value)
        collapse[i \in 1..Len(s) + 1] ==
            CASE i > Len(s) -> <<>>
              [] i < Len(s) /\ IsSpace(s[i]) /\ IsSpace(s[i + 1]) -> collapse[i + 1]
              [] OTHER -> <<Lower[s[i]]>> \o collapse[i + 1]
    IN  collapse[1]

Closing == [t \in {"<script>", "<style>"} |->
               IF t = "<script>" THEN "</script>" ELSE "</style>"]
Tags == DOMAIN Closing \cup {Closing[t] : t \in DOMAIN Closing} \cup {"<p>"}

\* First pass: script and style blocks with their content, if they are closed.
DropBlocksUnclosed(s) ==   \* mutant: a tag is dropped but not what is in it
    [i \in DOMAIN s |-> IF s[i] \in DOMAIN Closing THEN " " ELSE s[i]]
DropBlocks(s) ==
    LET ends(i) == {j \in i + 1..Len(s) : s[j] = Closing[s[i]]}
        drop[i \in 1..Len(s) + 1] ==
            CASE i > Len(s) -> <<>>
              [] i <= Len(s) /\ s[i] \in DOMAIN Closing /\ ends(i) # {} ->
                     <<" ">> \o drop[1 + CHOOSE j \in ends(i) : \A k \in ends(i) : j <= k]
              [] OTHER -> <<s[i]>> \o drop[i + 1]
    IN  drop[1]

\* Second pass: whatever is between a "<" and the next ">", unless nothing is.
DropTags(s) ==
    LET ends(i) == {j \in i..Len(s) : s[j] \in Tags \cup {">"}}
        first(i) == CHOOSE j \in ends(i) : \A k \in ends(i) : j <= k
        opens(i) == /\ s[i] \in Tags \cup {"<"}
                    /\ ends(i) # {}
                    /\ ~(s[i] = "<" /\ first(i) = i + 1 /\ s[i + 1] = ">")
        drop[i \in 1..Len(s) + 1] ==
            CASE i > Len(s) -> <<>>
              [] i <= Len(s) /\ opens(i) -> <<" ">> \o drop[first(i) + 1]
              [] OTHER -> <<s[i]>> \o drop[i + 1]
    IN  drop[1]

UnescapeHtml(s) ==
    [i \in DOMAIN s |-> IF s[i] \in DOMAIN Entities THEN Entities[s[i]] ELSE s[i]]

StripHtml(s) == UnescapeHtml(DropTags(DropBlocks(s)))

\* A body of another type, or none, leaves the preview.
ExtractBodyText(message) ==
    CASE message.type = "html" -> StripHtml(message.body)
      [] message.type = "text" -> message.body
      [] OTHER -> message.preview

-----------------------------------------------------------------------------
(* Queries.  A query is what stands before its first token, and its tokens *)
(* with the text, or the date, up to the next one.                         *)

TextScopes == {"subject", "sender", "body"}

NoCriteria ==
    [subject |-> {}, sender |-> {}, body |-> {}, from |-> NoDate, to |-> NoDate]

IsEmptyQuery(query) == query.tokens = <<>> /\ Strip(query.lead) = <<>>

Values(query, scope) ==
    {NormalizeSearchText(query.tokens[k].text) :
        k \in {j \in DOMAIN query.tokens : query.tokens[j].scope = scope}}

Dates(query, scope) ==
    {k \in DOMAIN query.tokens : query.tokens[k].scope = scope}

DateOf(query, scope) ==
    IF Dates(query, scope) = {} THEN NoDate
    ELSE ParseIsoDate(query.tokens[CHOOSE k \in Dates(query, scope) : TRUE].date)

SearchCriteria(query) ==
    [subject |-> Values(query, "subject"), sender |-> Values(query, "sender"),
     body |-> Values(query, "body"),
     from |-> DateOf(query, "from"), to |-> DateOf(query, "to")]

\* ParseScopedQuery accepts the query.
IsScopedQuery(query) ==
    \/ IsEmptyQuery(query)
    \/ /\ query.tokens # <<>>
       /\ Strip(query.lead) = <<>>
       /\ \A k \in DOMAIN query.tokens : LET t == query.tokens[k] IN
             IF t.scope \in TextScopes THEN Strip(t.text) # <<>>
             ELSE /\ ParseIsoDate(t.date) # NoDate
                  /\ Dates(query, t.scope) = {k}
       /\ LET c == SearchCriteria(query)
          IN  c.from # NoDate /\ c.to # NoDate => ~Before(c.to, c.from)
=============================================================================
