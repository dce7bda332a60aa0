------------------------------- MODULE Filters -------------------------------
(***************************************************************************)
(* The filters a picker leaves connections out with (loadbalance/types.go).*)
(* A call may name a group in its context, and the address of a connection *)
(* may carry one; both are of type any, and Nil when there is none.        *)
(***************************************************************************)
EXTENDS Connections

CONSTANTS
    Nil,
    Strings,   \* groups of type string, the empty one among them
    Groups,    \* what calls name: Nil, strings, values of other types
    Attr       \* Attr[c]: what the address of connection c carries

ASSUME FiltersAssumption == Nil \in Groups /\ Nil \notin Strings

\* A type assertion whose failure is not looked at.
AsString(v) == IF v \in Strings THEN v ELSE ""

GroupFilter(group, c) == group = Nil \/ group = Attr[c]

\* The filter GroupFilterBuilder makes: what is no string counts as "".
BuiltFilter(group, c) == group = Nil \/ AsString(group) = AsString(Attr[c])

\* A picker without a filter takes every connection.
Allows(filter, group, c) ==
    \/ filter = "none"
    \/ filter = "group" /\ GroupFilter(group, c)
    \/ filter = "built" /\ BuiltFilter(group, c)

\* The loop of a Pick over its connections.
Candidates(filter, group) == {c \in Conns : Allows(filter, group, c)}

\* The outcome of a Pick: 0 stands for ErrNoSubConnAvailable.
Result(group, c) == [group |-> group, conn |-> c]
NoResult == Result(Nil, -1)

\* A Pick whose call names a group, with a string, gives a connection of that
\* group, and an error only when there is none.
OfItsGroup(got) ==
    LET mine == {c \in Conns : Attr[c] = got.group}
    IN  got.group \in Strings \ {""} /\ got.conn # -1 =>
            IF mine = {} THEN got.conn = 0 ELSE got.conn \in mine
=============================================================================
