---------------------------- MODULE MCProtoStream ----------------------------
(* Instances of ProtoStream for TLC. *)
EXTENDS ProtoStream

Message(type, tokens, integer) == [type |-> type, tokens |-> tokens, integer |-> integer]

\* Every kind of message; texts of none to ten characters, a text that
\* holds the end of a line, a number with a sign and one with three digits.
AllKinds ==
    {Message("Status", <<<<"a">>>>, 0), Message("Error", <<<<"a", "$">>>>, 0),
     Message("Integer", <<>>, -1), Message("Integer", <<>>, 190),
     Message("Inline", <<<<"a", "b">>>>, 0), Message("Nil", <<>>, 0),
     Message("Bulk", <<<<>>>>, 0), Message("Bulk", <<<<CR, LF>>>>, 0),
     Message("Bulk", <<<<"a", "*", "1">>>>, 0), Message("Bulk", <<[k \in 1..10 |-> "b"]>>, 0),
     Message("MultiBulk", <<<<"a">>>>, 0), Message("MultiBulk", <<<<"a">>, <<CR>>>>, 0),
     Message("MultiBulk", <<<<>>, <<"b", "$">>>>, 0)}
AllCharacters == {"a", "b", CR, LF, "+", "-", ":", "$", "*"} \union DOMAIN Digits
AnyStale == {LF, CR, "a"}

=============================================================================
