---- MODULE UseIdents ----
\* UseIdent, the key under which heap memory is used, and the filters over it (use_ident.cpp),
\* with the operations of string_list they are made from.  An item of a string_list is a
\* sequence of tokens: <<name>> or <<name, "=", value>>.
EXTENDS Naturals, Sequences, SequencesExt

CONSTANTS Token,      \* Token[u]: the tokens that the UsesAllocator u has at one time or another
          NoUse       \* the m_source of a UseIdent that points to no UsesAllocator

-----------------------------------------------------------------------------
\* string_list

\* string_list::toString: the items without anything between them.
ListToString(list) == FlattenSeq(list)

\* The item up to its first "="; the whole of it when there is none.  item.begin() + npos is
\* never item.end(), so the branch for an item without "=" is not reached, strict or not.
NameOf(item) == LET lpos == SelectInSeq(item, LAMBDA c : c = "=")
                IN  IF lpos = 0 THEN item ELSE SubSeq(item, 1, lpos - 1)
ValueOf(item) == LET lpos == SelectInSeq(item, LAMBDA c : c = "=")
                 IN  SubSeq(item, lpos + 1, Len(item))
NamesOnlyOf(list, strict) == [i \in DOMAIN list |-> NameOf(list[i])]

\* string_list::operator attribute_list: a std::map, whose insert() keeps the first of a name.
AttributeList(list) ==
  [n \in {NameOf(list[i]) : i \in DOMAIN list} |->
     ValueOf(list[CHOOSE i \in DOMAIN list :
                    NameOf(list[i]) = n /\ \A j \in 1..(i - 1) : NameOf(list[j]) # n])]

-----------------------------------------------------------------------------
\* UseIdent.  The token of a UsesAllocator changes with an assignment to it (uses_allocator.cpp:31),
\* but a UseIdent keeps the one that it read when it was made, or by setUse().

\* The default constructor leaves m_source uninitialised: s is whatever is there.
Unset(s) == [source |-> s, name |-> "", spec |-> <<>>, tick |-> 0]
IdentOf(u, token) == [source |-> u, name |-> token, spec |-> <<>>, tick |-> 0]
SetUse(i, u, token) == [i EXCEPT !.source = u, !.name = token]
WithTick(i, n) == [i EXCEPT !.tick = n]
\* The map is walked in the order of its keys; the ones used here have one key.
WithAttr(i, attributes) ==
  [i EXCEPT !.spec = @ \o SetToSeq({n \o <<"=">> \o attributes[n] : n \in DOMAIN attributes})]

\* operator== compares the address of the source, not its name.
IdentEquals(i, j) == i.source = j.source /\ i.tick = j.tick /\ i.spec = j.spec
\* getHash is taken to be free of collisions: it tells apart what toString() does.
GetHash(i) == ListToString(i.spec)

-----------------------------------------------------------------------------
\* UseIdentFilter and its subclasses.  Every one of them contains a UseIdentFilter.

Base(i) == [kind |-> "base", ident |-> i]
SourcesOnly(i) == [kind |-> "sources", ident |-> i]
HashOnly(i) == [kind |-> "hash", ident |-> i]
NamesOnly(i, list, strict) == [kind |-> "names", ident |-> i, list |-> list, strict |-> strict]
\* The default UseIdent in a TickRange or a composed filter is compared with nothing.
TickRange(min, max, exc) ==
  [kind |-> "ticks", ident |-> Unset(NoUse), min |-> min, max |-> max, exc |-> exc]

\* A filter that is passed, stored or returned as a UseIdentFilter is a copy of that part of it.
Sliced(f) == Base(f.ident)

LogicalAnd(f, g) == [kind |-> "and", ident |-> Unset(NoUse), lhs |-> Sliced(f), rhs |-> Sliced(g)]
LogicalOr(f, g) == [kind |-> "or", ident |-> Unset(NoUse), lhs |-> Sliced(f), rhs |-> Sliced(g)]
LogicalNot(f) == [kind |-> "not", ident |-> Unset(NoUse), rhs |-> Sliced(f)]

\* operator==(UseIdent const&) of the filters that are not composed.
MatchesSimple(f, i) ==
  CASE f.kind = "base"    -> FALSE
    [] f.kind = "sources" -> f.ident.name = i.name
    [] f.kind = "hash"    -> GetHash(f.ident) = GetHash(i)
    [] f.kind = "names"   -> NamesOnlyOf(IF f.list = <<>> THEN f.ident.spec ELSE f.list, f.strict)
                             = NamesOnlyOf(i.spec, f.strict)
    [] f.kind = "ticks"   -> IF f.exc THEN f.min < i.tick /\ i.tick < f.max
                                      ELSE f.min <= i.tick /\ i.tick <= f.max

\* The operands of the composed ones are sliced copies, so they are never composed themselves.
Matches(f, i) ==
  CASE f.kind = "and" -> MatchesSimple(f.lhs, i) /\ MatchesSimple(f.rhs, i)
    [] f.kind = "or"  -> MatchesSimple(f.lhs, i) \/ MatchesSimple(f.rhs, i)
    [] f.kind = "not" -> ~ MatchesSimple(f.rhs, i)
    [] OTHER          -> MatchesSimple(f, i)
====
