--------------------------- MODULE MCClientSession ---------------------------
(* Instances of ClientSession for TLC. *)
EXTENDS ClientSession

CONSTANTS s1, s2, c1

\* One client pipelines, the other asks for a key.
OneBusyClient ==
    {(s1 :> batch) @@ (s2 :> single) :
        batch \in {<<"get", "get">>, <<"auth", "get">>, <<"get", "ping">>,
                   <<"nil", "get">>, <<"get", "bad">>, <<"auth", "get", "get">>},
        single \in {<<"get">>, <<"ping">>}}

\* One client sends a command the proxy answers and one it forwards, at once.
LocalThenForwarded == {(s1 :> <<"ping", "get">>) @@ (s2 :> <<"get">>)}
=============================================================================
