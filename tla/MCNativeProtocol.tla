-------------------------- MODULE MCNativeProtocol --------------------------
(* One client of the native protocol.  The texts "  ", "sv", "si", "sw"    *)
(* and "sr" stand for a blank text, a system query, an INSERT, a direct    *)
(* write and a SELECT.                                                     *)
EXTENDS NativeProtocol

Spaces == <<32, 32>>
System == <<115, 118>>
Insert == <<115, 105>>
Direct == <<115, 119>>
Select == <<115, 114>>

MCKind ==
  Spaces :> "blank" @@ <<>> :> "blank" @@ System :> "system" @@ Insert :> "insert"
  @@ Direct :> "write" @@ Select :> "read"

ClientQuery(text, kind, secondary, compression) ==
  [type |-> "query", text |-> text, kind |-> kind, secondary |-> secondary,
   compression |-> compression]

MCRequests ==
  {ClientQuery(Spaces, 0, <<>>, 0), ClientQuery(System, 0, <<>>, 0),
   ClientQuery(Select, 0, <<>>, 1), ClientQuery(Direct, 1, <<>>, 0),
   ClientQuery(Select, 1, Spaces, 1), ClientQuery(<<>>, 1, Insert, 200)}
  \cup [type : {"data"}, cols : {0, 1}, rows : {0, 1}]
  \cup [type : {"hello", "cancel", "ping", "other"}]

MCTables == {[cols |-> 2, rows |-> 2]}
=============================================================================
