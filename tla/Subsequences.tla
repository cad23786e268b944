---- MODULE Subsequences ----
\* SelectSeq for a set of elements, as a function of the length: SelectSeq takes an operator, and
\* nothing can be proved of what it returns.
EXTENDS Naturals, Sequences

\* The elements of s that are in S, in their order.
ElementsIn(s, S) ==
  LET f[n \in 0..Len(s)] == IF n = 0 THEN <<>>
                            ELSE IF s[n] \in S THEN Append(f[n - 1], s[n]) ELSE f[n - 1]
  IN  f[Len(s)]
====
