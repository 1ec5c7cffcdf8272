---------------------------- MODULE AhoCorasick ----------------------------
(***************************************************************************)
(* The matcher of cpp_core/src/search.cpp: a trie of the patterns and the  *)
(* failure links that let one pass over a text find them all.  A node is   *)
(* the prefix of a pattern that leads to it; the root is <<>>.             *)
(***************************************************************************)
EXTENDS Naturals, Sequences, FiniteSets, SequencesExt

VARIABLES
    fail,     \* fail[n]: where a search goes on if it cannot go on at n
    output,   \* output[n]: the patterns found when n is reached
    queue     \* the nodes whose children have no failure link yet

matcher == <<fail, output, queue>>

Nodes == DOMAIN fail

\* AddPattern, for every pattern that is not empty.
Trie(patterns) == {<<>>} \cup UNION {Prefixes(p) : p \in patterns}

Children(n) == {m \in Nodes : Len(m) = Len(n) + 1 /\ IsPrefix(n, m)}

NoMatcher == fail = <<>> /\ output = <<>> /\ queue = <<>>

\* The queue starts with the children of the root.
StartMatcher(patterns) ==
    LET trie == Trie(patterns)
    IN  /\ fail' = [n \in trie |-> <<>>]
        /\ output' = [n \in trie |-> {n} \cap patterns]
        /\ queue' = SetToSeq({n \in trie : Len(n) = 1})

-----------------------------------------------------------------------------

\* The node from which a search that is at n goes on with symbol c.
Fallback(n, c) ==
    LET back[m \in Nodes] ==
            IF m # <<>> /\ Append(m, c) \notin Nodes THEN back[fail[m]] ELSE m
    IN  back[n]

Goto(n, c) == LET m == Append(Fallback(n, c), c)
              IN  IF m \in Nodes THEN m ELSE <<>>

\* One turn of the loop of BuildFailureLinks.
BuildDepthFirst ==   \* mutant: the queue is a stack
    /\ queue # <<>>
    /\ LET children == Children(Head(queue))
           link == [m \in children |-> Goto(fail[Head(queue)], Last(m))]
       IN  /\ fail' = [m \in Nodes |-> IF m \in children THEN link[m] ELSE fail[m]]
           /\ output' = [m \in Nodes |-> IF m \in children THEN output[m] \cup output[link[m]]
                                         ELSE output[m]]
           /\ queue' = SetToSeq(children) \o Tail(queue)
BuildFailureLinks ==
    /\ queue # <<>>
    /\ LET children == Children(Head(queue))
           link == [m \in children |-> Goto(fail[Head(queue)], Last(m))]
       IN  /\ fail' = [m \in Nodes |-> IF m \in children THEN link[m] ELSE fail[m]]
           /\ output' = [m \in Nodes |-> IF m \in children THEN output[m] \cup output[link[m]]
                                         ELSE output[m]]
           /\ queue' = Tail(queue) \o SetToSeq(children)

\* Search: the patterns found on the way through the text.
Found(text) ==
    LET node[k \in 0..Len(text)] == IF k = 0 THEN <<>> ELSE Goto(node[k - 1], text[k])
    IN  UNION {output[node[k]] : k \in 1..Len(text)}

-----------------------------------------------------------------------------

LongestIn(strings) == CHOOSE s \in strings : \A t \in strings : Len(t) <= Len(s)

\* What one pass is to find: p stands somewhere in s.
Occurs(p, s) == \E i \in 0..Len(s) - Len(p) : SubSeq(s, i + 1, i + Len(p)) = p

\* What the nodes that have their links must have: the longest proper suffix
\* that is a node, and the patterns that end there.
LinksAreRight(nodes, patterns) ==
    \A n \in nodes \ {<<>>} :
        /\ fail[n] = LongestIn({s \in Nodes : IsStrictSuffix(s, n)})
        /\ output[n] = {p \in patterns : IsSuffix(p, n)}
=============================================================================
