---- MODULE MCBuffers ----
EXTENDS Buffers

CONSTANTS u1, u2

\* Two users with a token in common, one of which has had another one.
MCToken == [u \in {u1, u2} |-> IF u = u1 THEN {"token", "renamed"} ELSE {"token"}]
\* A list with an item that has no "=", and a name that comes twice.
List == << <<"a", "=", "1">>, <<"a", "=", "2">> >>
\* Equal identifiers of different names, one with a tick, one of another user, one of no name.
MCIdents == {IdentOf(u1, "token"), WithTick(IdentOf(u1, "renamed"), 1), IdentOf(u1, "renamed"),
             WithAttr(SetUse(Unset(NoUse), u2, "token"), AttributeList(List)), Unset(u1)}
\* SourcesOnly(use) && TickRange(0, 100), as in use_ident.h:68, and one of each other kind.
MCFilters == LET use == IdentOf(u1, "token")
             IN  {SourcesOnly(use), LogicalAnd(SourcesOnly(use), TickRange(0, 100, FALSE)),
                  LogicalNot(SourcesOnly(use)), LogicalOr(HashOnly(use), NamesOnly(use, List, TRUE))}
====
