-------------------------- MODULE PgSessionProofs --------------------------
(***************************************************************************)
(* Proofs about PgSession, for every set of names, portals and query       *)
(* texts.  RowDescription is sent exactly when it must be, provided that   *)
(* clients keep to the order of messages the describedPortals map was      *)
(* written for; the runs show what happens when they do not.               *)
(***************************************************************************)
EXTENDS PgSession, TLAPS

(* The steps of one connection, without the quantifiers of Next.           *)
StatementStep(n) ==
  \/ \E q \in Texts : Parse(n, q)
  \/ \E p \in Portals : Bind(p, n)
  \/ CloseStatement(n) \/ DescribeStatement(n) \/ DescribeNoData(n)

RunStep(p) ==
  \/ ExecuteRows(p) \/ ExecuteReturning(p) \/ ExecuteWrite(p)
  \/ ExecuteFails(p) \/ ExecuteRetried(p)

(* Every step serves one message, is refused, or changes nothing.          *)
LEMMA StepKinds ==
  ASSUME [Next]_vars
  PROVE \/ \E n \in Names : StatementStep(n)
        \/ \E p \in Portals : RunStep(p) \/ ClosePortal(p)
        \/ DescribePortal \/ Sync \/ Refuse \/ UNCHANGED vars
  BY DEF Next, StatementStep, RunStep, Execute, BindUnknown, DescribeUnknown,
         ExecuteUnknown

(* What executing a portal does to everything but out: it runs that portal *)
(* and leaves the tables of the connection alone.                          *)
LEMMA RunFacts ==
  ASSUME NEW p \in Portals, RunStep(p)
  PROVE /\ executed' = p
        /\ portals[p].text \in Texts
        /\ UNCHANGED <<preparedStatements, portals, describedPortals, used,
                       bound, asked, told, knows, refused>>
  BY DEF RunStep, ExecuteRows, ExecuteReturning, ExecuteWrite, ExecuteFails,
         ExecuteRetried, Run, SendError, clientVars, Texts

(* What executing a portal sends: no RowDescription if the portal is       *)
(* described and its query not left to MySQL by the catalog, and one       *)
(* before any row if it is not described and is no RETURNING.              *)
LEMMA RunAnswers ==
  ASSUME NEW p \in Portals, RunStep(p)
  PROVE /\ out' \subseteq Messages
        /\ portals[p].described /\ portals[p].text \notin PassedOn =>
             "RowDescription" \notin out'
        /\ /\ "DataRow" \in out'
           /\ portals[p].text \notin Returnings
           /\ ~portals[p].described
           => "RowDescription" \in out'
  <1>1. CASE ExecuteRows(p) \/ ExecuteFails(p)
    BY <1>1, Zenon DEF ExecuteRows, ExecuteFails, SendError, RowDescription, Messages
  <1>2. CASE ExecuteReturning(p) \/ ExecuteWrite(p) \/ ExecuteRetried(p)
    BY <1>2 DEF ExecuteReturning, ExecuteWrite, ExecuteRetried, Messages
  <1> QED BY <1>1, <1>2 DEF RunStep
-----------------------------------------------------------------------------
(* Type correctness, and that only existing portals are executed.          *)
LEMMA InitTypeOK ==
  ASSUME Init
  PROVE TypeOK
  BY ClientAssumption DEF Init, TypeOK, NoPortal, Messages

(* Every message keeps the tables of the connection well typed, and an     *)
(* executed portal exists.                                                 *)
LEMMA TypeStep ==
  ASSUME TypeOK, [Next]_vars
  PROVE TypeOK'
<1>1. ASSUME NEW n \in Names, StatementStep(n) PROVE TypeOK'
  <2>1. ASSUME NEW q \in Texts, Parse(n, q) PROVE TypeOK'
    BY <2>1 DEF Parse, Orphan, Send, TypeOK, Messages
  <2>2. ASSUME NEW p \in Portals, Bind(p, n) PROVE TypeOK'
    <3>1. [text |-> preparedStatements[n], described |-> Described(n)]
            \in [text : Texts \cup {NoText}, described : BOOLEAN]
      <4>1. preparedStatements[n] \in Texts \cup {NoText}
        BY DEF TypeOK
      <4>2. Described(n) \in BOOLEAN
        BY SMT DEF Described
      <4> QED BY <4>1, <4>2
    <3>2. portals' \in [Portals -> [text : Texts \cup {NoText}, described : BOOLEAN]]
      BY <2>2, <3>1 DEF Bind, TypeOK
    <3>3. executed' = NoName /\ out' \subseteq Messages
      BY <2>2 DEF Bind, Send, TypeOK, Messages
    <3>4. /\ bound' \in [Portals -> Names \cup {NoName}]
          /\ knows' \subseteq Portals
          /\ refused' \subseteq Portals
      BY <2>2 DEF Bind, TypeOK
    <3> QED BY <2>2, <3>2, <3>3, <3>4 DEF Bind, TypeOK
  <2>3. CASE CloseStatement(n)
    BY <2>3 DEF CloseStatement, Orphan, Send, TypeOK, Messages
  <2>4. CASE DescribeStatement(n)
    BY <2>4 DEF DescribeStatement, BoundTo, Send, TypeOK, Messages
  <2>5. CASE DescribeNoData(n)
    BY <2>5 DEF DescribeNoData, Send, TypeOK, Messages
  <2> QED BY <1>1, <2>1, <2>2, <2>3, <2>4, <2>5 DEF StatementStep
<1>2. ASSUME NEW p \in Portals, RunStep(p) PROVE TypeOK'
  <2>1. portals[p] # NoPortal
    <3>1. NoPortal.text = NoText BY DEF NoPortal
    <3>2. portals[p].text # NoText BY <1>2, RunFacts, TextAssumption
    <3> QED BY <3>1, <3>2
  <2> QED BY <1>2, <2>1, RunFacts, RunAnswers DEF TypeOK
<1>3. ASSUME NEW p \in Portals, ClosePortal(p) PROVE TypeOK'
  BY <1>3 DEF ClosePortal, NoPortal, Send, TypeOK, Messages
<1>4. CASE DescribePortal
  BY <1>4 DEF DescribePortal, Send, clientVars, TypeOK, Messages
<1>5. CASE Sync
  BY <1>5 DEF Sync, clientVars, TypeOK, Messages
<1>6. CASE Refuse
  BY <1>6 DEF Refuse, SendError, clientVars, TypeOK, Messages
<1>7. CASE UNCHANGED vars
  BY <1>7 DEF vars, TypeOK
<1> QED BY <1>1, <1>2, <1>3, <1>4, <1>5, <1>6, <1>7, StepKinds

(* The tables and ghosts of a connection keep their types, and only an     *)
(* existing portal is ever executed (handleExecute, server.go:331-341).    *)
THEOREM TypeCorrect == Spec => []TypeOK
  BY InitTypeOK, TypeStep, PTL DEF Spec
-----------------------------------------------------------------------------
(* A client was told the rows of a statement only if describedPortals      *)
(* remembers it, and those of a portal only if its described flag is set.  *)
ToldIsRemembered ==
  /\ told \subseteq describedPortals
  /\ \A p \in knows : portals[p].described

Once == TypeOK /\ ToldIsRemembered /\ NotAnnouncedTwice

(* No statement is described after it was bound.                           *)
DescribedEarly == "late describe" \notin Client

(* A step keeps Once: the flag of a portal and what its client has been    *)
(* told agree after every message.                                         *)
LEMMA OnceStep ==
  ASSUME DescribedEarly, Once, [Next]_vars
  PROVE Once'
<1>t. TypeOK' BY TypeStep DEF Once
<1> SUFFICES ToldIsRemembered' /\ NotAnnouncedTwice' BY <1>t DEF Once
<1> USE DEF Once
<1>k. NoName \notin knows' BY <1>t, ClientAssumption DEF TypeOK
<1>1. ASSUME NEW n \in Names, StatementStep(n) PROVE ToldIsRemembered' /\ NotAnnouncedTwice'
  <2>1. ASSUME NEW q \in Texts, Parse(n, q) PROVE ToldIsRemembered' /\ NotAnnouncedTwice'
    BY <2>1, <1>k DEF Parse, Send, ToldIsRemembered, NotAnnouncedTwice
  <2>2. ASSUME NEW p \in Portals, Bind(p, n) PROVE ToldIsRemembered' /\ NotAnnouncedTwice'
    BY <2>2, <1>k DEF Bind, Described, Send, ToldIsRemembered, NotAnnouncedTwice, TypeOK
  <2>3. CASE CloseStatement(n)
    BY <2>3, <1>k DEF CloseStatement, Send, ToldIsRemembered, NotAnnouncedTwice
  <2>4. CASE DescribeStatement(n)
    <3>1. BoundTo(n) = {}
      BY <2>4 DEF DescribeStatement, MayDescribe, DescribedEarly
    <3> QED BY <2>4, <3>1, <1>k DEF DescribeStatement, Send, ToldIsRemembered,
                                   NotAnnouncedTwice
  <2>5. CASE DescribeNoData(n)
    BY <2>5, <1>k DEF DescribeNoData, Send, ToldIsRemembered, NotAnnouncedTwice
  <2> QED BY <1>1, <2>1, <2>2, <2>3, <2>4, <2>5 DEF StatementStep
<1>2. ASSUME NEW p \in Portals, RunStep(p) PROVE ToldIsRemembered' /\ NotAnnouncedTwice'
  BY <1>2, RunFacts, RunAnswers DEF ToldIsRemembered, NotAnnouncedTwice
<1>3. ASSUME NEW p \in Portals, ClosePortal(p) PROVE ToldIsRemembered' /\ NotAnnouncedTwice'
  BY <1>3, <1>k DEF ClosePortal, Send, ToldIsRemembered, NotAnnouncedTwice, TypeOK
<1>4. CASE DescribePortal
  BY <1>4, <1>k DEF DescribePortal, Send, clientVars, ToldIsRemembered, NotAnnouncedTwice
<1>5. CASE Sync
  BY <1>5, <1>k DEF Sync, clientVars, ToldIsRemembered, NotAnnouncedTwice
<1>6. CASE Refuse
  BY <1>6, <1>k DEF Refuse, clientVars, ToldIsRemembered, NotAnnouncedTwice
<1>7. CASE UNCHANGED vars
  BY <1>7 DEF vars, ToldIsRemembered, NotAnnouncedTwice
<1> QED BY <1>1, <1>2, <1>3, <1>4, <1>5, <1>6, <1>7, StepKinds

(* For clients that describe a statement before they bind it, whatever     *)
(* names they reuse and whatever MySQL refuses, Describe and Execute never *)
(* both send RowDescription, but for the catalog queries that are left to  *)
(* MySQL (docs/LOGS.md:115-117, server.go:322-328, 1121-1123, 1255-1259).  *)
THEOREM AnnouncedOnce ==
  ASSUME DescribedEarly
  PROVE Spec => []NotAnnouncedTwice
<1>1. Init => Once
  BY InitTypeOK DEF Init, Once, ToldIsRemembered, NotAnnouncedTwice
<1>2. Once /\ [Next]_vars => Once' BY OnceStep
<1>3. Once => NotAnnouncedTwice BY DEF Once
<1> QED BY <1>1, <1>2, <1>3, PTL DEF Spec
-----------------------------------------------------------------------------
(* What describedPortals remembers is about the statement that has the     *)
(* name now, a described portal is one whose rows the client was told, and *)
(* a portal that runs a RETURNING is such a one or its Describe failed.    *)
RememberedIsTold ==
  /\ describedPortals \subseteq used
  /\ \A n \in Names : preparedStatements[n] # NoText =>
       /\ n \in used
       /\ n \in describedPortals => n \in told

PortalsAreKnown ==
  \A p \in Portals :
    /\ portals[p].described => p \in knows
    /\ portals[p].text \in Returnings => p \in knows \cup refused

Told == TypeOK /\ RememberedIsTold /\ PortalsAreKnown /\ AnnouncedBeforeRows

(* Clients that give every statement a name of its own and describe it     *)
(* before they bind it.                                                    *)
FreshAndDescribed == {"reuse", "skip describe"} \cap Client = {}

(* A step keeps Told: a portal is marked described only when its client    *)
(* has got the RowDescription.                                             *)
LEMMA ToldStep ==
  ASSUME FreshAndDescribed, Told, [Next]_vars
  PROVE Told'
<1>t. TypeOK' BY TypeStep DEF Told
<1> SUFFICES RememberedIsTold' /\ PortalsAreKnown' /\ AnnouncedBeforeRows'
  BY <1>t DEF Told
<1> USE DEF Told
<1>1. ASSUME NEW n \in Names, StatementStep(n)
      PROVE RememberedIsTold' /\ PortalsAreKnown' /\ AnnouncedBeforeRows'
  <2>1. ASSUME NEW q \in Texts, Parse(n, q)
        PROVE RememberedIsTold' /\ PortalsAreKnown' /\ AnnouncedBeforeRows'
    <3>1. n \notin describedPortals
      BY <2>1 DEF Parse, FreshAndDescribed, RememberedIsTold
    <3>2. RememberedIsTold'
      BY <2>1, <3>1 DEF Parse, RememberedIsTold, TypeOK
    <3> QED BY <2>1, <3>2 DEF Parse, Send, PortalsAreKnown, AnnouncedBeforeRows
  <2>2. ASSUME NEW p \in Portals, Bind(p, n)
        PROVE RememberedIsTold' /\ PortalsAreKnown' /\ AnnouncedBeforeRows'
    <3>1. n \in asked /\ preparedStatements[n] # NoText
      BY <2>2 DEF Bind, FreshAndDescribed
    <3>2. Described(n) => n \in told
      BY <3>1 DEF Described, RememberedIsTold
    <3>3. ASSUME NEW r \in Portals
          PROVE /\ portals'[r].described => r \in knows'
                /\ portals'[r].text \in Returnings => r \in knows' \cup refused'
      <4>1. CASE r = p
        <5>1. portals'[p].described = Described(n)
          BY <2>2 DEF Bind, TypeOK
        <5>2. p \in knows' \cup refused' /\ (n \in told => p \in knows')
          BY <2>2, <3>1 DEF Bind
        <5> QED BY <3>2, <4>1, <5>1, <5>2
      <4>2. CASE r # p
        BY <2>2, <4>2 DEF Bind, PortalsAreKnown, TypeOK
      <4> QED BY <4>1, <4>2
    <3>4. PortalsAreKnown' BY <3>3 DEF PortalsAreKnown
    <3> QED BY <2>2, <3>4 DEF Bind, Send, RememberedIsTold, AnnouncedBeforeRows
  <2>3. CASE CloseStatement(n)
    <3>1. RememberedIsTold'
      BY <2>3 DEF CloseStatement, RememberedIsTold, TypeOK
    <3> QED BY <2>3, <3>1 DEF CloseStatement, Send, PortalsAreKnown, AnnouncedBeforeRows
  <2>4. CASE DescribeStatement(n)
    <3>1. n \in used
      BY <2>4 DEF DescribeStatement, MayDescribe, RememberedIsTold
    <3> QED BY <2>4, <3>1 DEF DescribeStatement, Send, RememberedIsTold, PortalsAreKnown,
                            AnnouncedBeforeRows
  <2>5. CASE DescribeNoData(n)
    BY <2>5 DEF DescribeNoData, Send, RememberedIsTold, PortalsAreKnown,
                AnnouncedBeforeRows
  <2> QED BY <1>1, <2>1, <2>2, <2>3, <2>4, <2>5 DEF StatementStep
<1>2. ASSUME NEW p \in Portals, RunStep(p)
      PROVE RememberedIsTold' /\ PortalsAreKnown' /\ AnnouncedBeforeRows'
  <2>1. /\ executed' = p
        /\ UNCHANGED <<preparedStatements, portals, describedPortals, used, asked,
                       told, knows, refused>>
    BY <1>2, RunFacts
  <2>2. AnnouncedBeforeRows'
    BY <1>2, <2>1, RunAnswers DEF PortalsAreKnown, AnnouncedBeforeRows
  <2> QED BY <2>1, <2>2 DEF RememberedIsTold, PortalsAreKnown
<1>3. ASSUME NEW p \in Portals, ClosePortal(p)
      PROVE RememberedIsTold' /\ PortalsAreKnown' /\ AnnouncedBeforeRows'
  <2>1. PortalsAreKnown'
    <3>1. portals'[p] = NoPortal /\ \A r \in Portals \ {p} : portals'[r] = portals[r]
      BY <1>3 DEF ClosePortal, TypeOK
    <3>2. ~NoPortal.described /\ NoPortal.text \notin Returnings
      BY TextAssumption DEF NoPortal, Texts
    <3> QED BY <1>3, <3>1, <3>2 DEF ClosePortal, PortalsAreKnown
  <2> QED BY <1>3, <2>1 DEF ClosePortal, Send, RememberedIsTold, AnnouncedBeforeRows
<1>4. CASE DescribePortal
  BY <1>4 DEF DescribePortal, Send, clientVars, RememberedIsTold, PortalsAreKnown,
              AnnouncedBeforeRows
<1>5. CASE Sync
  BY <1>5 DEF Sync, clientVars, RememberedIsTold, PortalsAreKnown, AnnouncedBeforeRows
<1>6. CASE Refuse
  BY <1>6 DEF Refuse, SendError, clientVars, RememberedIsTold, PortalsAreKnown,
              AnnouncedBeforeRows
<1>7. CASE UNCHANGED vars
  BY <1>7 DEF vars, RememberedIsTold, PortalsAreKnown, AnnouncedBeforeRows
<1> QED BY <1>1, <1>2, <1>3, <1>4, <1>5, <1>6, <1>7, StepKinds

(* For clients that never reuse a name and describe every statement before *)
(* they bind it, no row is sent whose columns the client has not been      *)
(* told, whatever MySQL refuses, except those of a RETURNING whose         *)
(* Describe failed (docs/LOGS.md:115-117, server.go:312-434, 417-421).     *)
THEOREM ToldBeforeRows ==
  ASSUME FreshAndDescribed
  PROVE Spec => []AnnouncedBeforeRows
<1>1. Init => Told
  <2> SUFFICES ASSUME Init PROVE Told
    OBVIOUS
  <2>1. ~NoPortal.described /\ NoPortal.text \notin Returnings
    BY TextAssumption DEF NoPortal, Texts
  <2>2. PortalsAreKnown
    BY <2>1 DEF Init, PortalsAreKnown
  <2> QED BY <2>2, InitTypeOK DEF Init, Told, RememberedIsTold, AnnouncedBeforeRows
<1>2. Told /\ [Next]_vars => Told' BY ToldStep
<1>3. Told => AnnouncedBeforeRows BY DEF Told
<1> QED BY <1>1, <1>2, <1>3, PTL DEF Spec
=============================================================================
