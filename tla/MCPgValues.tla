----------------------------- MODULE MCPgValues -----------------------------
(* Portals of all paths whose clients send and ask for text, binary and    *)
(* both, those included whose values the code loses or misreads.           *)
EXTENDS PgValues

Piece(s) == [text |-> s, param |-> 0]
Param(i) == [text |-> <<>>, param |-> i]
Number_(type, n) == [type |-> type, val |-> n]
Word(s) == [type |-> TextType, val |-> s]
Array(s) == [type |-> TextArray, val |-> s]

(* Statements with the parameters $1 and $2, in their order, the other way *)
(* round, and with $1 twice.                                               *)
Ordered == <<Piece(<<113>>), Param(1), Piece(<<48>>), Param(2)>>
Crossed == <<Piece(<<113>>), Param(2), Piece(<<48>>), Param(1)>>
Twice == <<Piece(<<113>>), Param(1), Piece(<<48>>), Param(1), Param(2)>>
Ten == <<Piece(<<113>>), Param(1), Piece(<<44>>), Param(10), Piece(<<41>>)>>

Quoted == <<97, 39, 98>>
Dollar == <<36, 49>>
Empty == <<>>

(* Portals that are described already and that are not.                    *)
Binding(path, pieces, params, formats, columns, results) ==
  [path : {path}, pieces : pieces, params : params, formats : formats,
   columns : columns, results : results, described : BOOLEAN]

MCTypeOf == <<110>> :> Int2 @@ <<105>> :> Int4 @@ <<98>> :> Int8 @@ <<116>> :> TextType
            @@ <<120>> :> TextType

MCParams ==
  {<<Number_(Int2, -12), Word(Empty)>>, <<Word(Quoted), Word(Null)>>,
   <<Array(<<<<97>>, <<98, 99>>>>), Number_(Int2, 7)>>, <<Word(Empty), Word(Dollar)>>,
   <<Word(<<97, 98>>), Number_(Int4, 258)>>,
   <<Number_(Int8, 3), Array(<<<<97, 98, 99, 100, 101>>, <<98, 99, 100, 101, 102>>>>)>>}
Formats == {<<>>, <<0>>, <<1>>, <<0, 1>>, <<1, 0>>}

ParamPortals ==
  Binding("parameters", {Ordered, Crossed, Twice}, MCParams, Formats, {<<>>}, {<<>>})
  \cup Binding("parameters", {Ordered}, {<<Word(Quoted), Word(Null)>>}, {<<>>}, {<<>>},
               {<<0>>, <<1>>, <<1, 1, 1, 1>>, <<0, 1, 1, 1>>, <<1, 0, 0, 0>>})
  \cup Binding("returning", {Ordered}, MCParams, Formats, {<<>>}, {<<>>, <<0>>, <<1>>})

PlainPortals ==
  Binding("plain", {<<Piece(<<113>>)>>}, {<<>>}, {<<>>}, {<<>>},
          {<<>>, <<0>>, <<1>>, <<1, 0, 0, 0>>})
  \cup Binding("returning", {<<Piece(<<113>>)>>}, {<<>>}, {<<>>}, {<<>>}, {<<>>})
  \cup Binding("fixed", {<<Piece(<<113>>)>>}, {<<>>}, {<<>>}, {<<>>}, {<<>>, <<0>>, <<1>>})

CatalogPortals ==
  Binding("catalog", {Ten},
          {[i \in 1..10 |-> IF i = 10 THEN Number_(Int4, 16384)
                            ELSE IF i = 1 THEN Number_(Int2, 258)
                            ELSE Word(Null)]},
          {<<1>>}, {<<>>, <<<<116>>, <<105>>>>}, {<<>>, <<1>>})
  \cup Binding("catalog", {Crossed}, {p \in MCParams : \A i \in DOMAIN p : p[i].type # TextArray},
               Formats, {<<<<120>>, <<105>>>>}, {<<>>, <<0>>})
  \cup Binding("unknown", {Ordered}, {p \in MCParams : \A i \in DOMAIN p : p[i].type # TextArray},
               Formats, {<<>>}, {<<1>>})

MCPortals == ParamPortals \cup PlainPortals \cup CatalogPortals

Names == <<<<110>>, <<105>>, <<98>>, <<116>>>>
MCResults ==
  {[names |-> Names, rows |-> rows] :
     rows \in {<<>>, <<<<-1, 70000, 5, Quoted>>>>,
               <<<<0, Null, -300, Empty>>, <<Null, -2, 10, Null>>>>}}
  \cup {[names |-> <<<<116>>>>, rows |-> <<<<Quoted>>>>]}
=============================================================================
