--------------------------- MODULE MCPgConnection ---------------------------
(* One client of the PostgreSQL server.  Names and texts have one byte or  *)
(* none; the parameters are two, one of them with an empty value and one   *)
(* that the server reports as well.                                        *)
EXTENDS PgConnection

MCParams == <<<<<<117>>, <<>>>>, <<<<84>>, <<108>>>>>>
MCStarts == {[kind |-> k, params |-> MCParams] : k \in Kinds}
MCStatusParams == {<<<<84>>, <<85>>>>}
MCErrorFields == {<<83, <<69>>>>, <<77, <<>>>>}

Message(t, m) == [type |-> t, msg |-> m]

MCRequests ==
  {Message("query", [string |-> <<113>>]),
   Message("query", [string |-> <<100, 32, 115>>]),
   Message("parse", [name |-> <<>>, query |-> <<113>>, oids |-> <<1009, 0>>]),
   Message("bind", [portal |-> <<>>, statement |-> <<115>>, formats |-> <<0, 1>>,
                    params |-> <<Null, <<>>, <<0, 7>>>>, results |-> <<1>>]),
   Message("execute", [portal |-> <<112>>, maxRows |-> 258]),
   Message("describe", [kind |-> 83, name |-> <<>>]),
   Message("close", [kind |-> 80, name |-> <<112>>])}
  \cup {Message(t, Nothing) : t \in {"sync", "flush", "password", "terminate", "other"}}
=============================================================================
