-------------------------- MODULE MCMailcartSearch --------------------------
(* Three families of searches: for overlapping patterns, for the text of an  *)
(* HTML body, and for dates and pages.                                       *)
EXTENDS MailcartSearch

Letters == {"a", "b"}
MCLower == [c \in Letters \cup {"A", " ", "<", ">", "nbsp"} |-> IF c = "A" THEN "a" ELSE c]
MCEntities == [e \in {"&nbsp;", "&lt;"} |-> IF e = "&lt;" THEN "<" ELSE "nbsp"]
MCCalendar == << <<1999, 12, 31>>, <<2000, 2, 29>>, <<2000, 3, 1>>, <<2001, 2, 28>> >>

Texts(lexemes, n) == UNION {[1..k -> lexemes] : k \in 0..n}
Token(scope, text) == [scope |-> scope, text |-> text, date |-> NoDate]
DateToken(scope, date) == [scope |-> scope, text |-> <<>>, date |-> date]
Query(tokens) == [lead |-> <<>>, tokens |-> tokens]

Plain == [id |-> 1, object |-> TRUE, date |-> MCCalendar[3], subject |-> <<"a">>,
          sender |-> <<"b">>, type |-> "text", body |-> <<"b">>, preview |-> <<"a", " ", "b">>]

Overlaps ==
    {[query |-> Query(<<Token("subject", p), Token("subject", q)>>), limit |-> 1,
      mail |-> <<[Plain EXCEPT !.subject = t]>>] :
        p \in Texts(Letters, 4), q \in Texts(Letters, 2) \ {<<>>},
        t \in [1..4 -> Letters] \cup {<<"A", " ", " ", "b", " ">>, <<" ", "b", "A", "b">>}}
    \cup
    {[query |-> Query(<<Token("subject", p), Token("body", q), Token("sender", <<"b">>)>>),
      limit |-> 1, mail |-> <<[Plain EXCEPT !.subject = <<"a", "b", "a", "b">>, !.type = type]>>] :
        p \in Texts(Letters, 4), q \in {<<"b">>, <<"A">>, <<"a", " ", " ", "b">>},
        type \in {"text", "html", "other"}}

Bodies ==
    {[query |-> Query(<<Token("body", p)>>), limit |-> 1,
      mail |-> <<[Plain EXCEPT !.type = "html", !.body = b]>>] :
        p \in {<<"a">>, <<"a", " ", "b">>},
        b \in Texts({"a", "<script>", "</script>", "<style>", "</style>"}, 4)
              \cup Texts({"a", "b", "<", ">", "<p>"}, 4)
              \cup Texts({"a", "b", " ", "&nbsp;", "&lt;"}, 3)}

Day2 == MCCalendar[2]
NoDay == <<2001, 2, 29>>
Century == <<1900, 2, 29>>
Rows == {[Plain EXCEPT !.date = MCCalendar[k]] : k \in 1..3}
        \cup {[Plain EXCEPT !.date = Day2, !.subject = <<"b">>],
              [Plain EXCEPT !.date = NoDate], [Plain EXCEPT !.object = FALSE]}
InOrder(s) ==
    \A j, k \in DOMAIN s : j < k /\ NoDate \notin {s[j].date, s[k].date} =>
        ~Before(s[j].date, s[k].date)
Mailboxes == {[k \in DOMAIN s |-> [s[k] EXCEPT !.id = k]] : s \in {t \in Texts(Rows, 4) : InOrder(t)}}

Ranges ==
    {Query(tokens) : tokens \in
        {<<>>, <<Token("subject", <<"a">>)>>,
         <<DateToken("from", Day2)>>, <<DateToken("to", Day2)>>,
         <<DateToken("from", Day2), DateToken("to", Day2), Token("subject", <<"a">>)>>,
         <<DateToken("from", MCCalendar[1])>>,
         <<DateToken("from", Day2), DateToken("from", Day2)>>,
         <<DateToken("from", MCCalendar[3]), DateToken("to", Day2)>>,
         <<DateToken("to", NoDay)>>, <<DateToken("from", Century)>>}}
    \cup {[lead |-> <<"a">>, tokens |-> tokens] : tokens \in {<<>>, <<DateToken("to", Day2)>>}}

\* Fewer rows where fewer are read.
Paged ==
    {s \in {[query |-> q, limit |-> l, mail |-> m] : q \in Ranges, l \in 1..2, m \in Mailboxes} :
        Len(s.mail) <= 2 + s.limit /\ (s.query.lead # <<>> => Len(s.mail) <= 2)}

MCSearches == Overlaps \cup Bodies \cup Paged
MCArrivals == {[Plain EXCEPT !.id = 6 + k, !.date = MCCalendar[k]] : k \in 3..4}
=============================================================================
