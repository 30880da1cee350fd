---------------------------- MODULE StartUpProofs ----------------------------
(***************************************************************************)
(* Proofs about StartUp, for any number of processes, hosts and statements *)
(* and any number of faults: no process serves before the whole schema has *)
(* been created, and views come after the tables that they read.            *)
(***************************************************************************)
EXTENDS StartUp, TLAPS

(* Where main is tells how far EnsureSchema has come.                      *)
PlaceInv ==
  \A p \in Procs :
    /\ pc[p] = "exec" => at[p] <= Last
    /\ pc[p] \in Serving \cup {"pg"} => at[p] > Last

(* What a process has passed was created, by it or by another one: of what *)
(* was created nothing is forgotten, only dropped.                         *)
SchemaInv ==
  \A p \in Procs : \A i \in 1..(at[p] - 1) : Statements[i].name \in objects \cup dropped

(* A port belongs to a process of that host, behind EnsureSchema, and the  *)
(* HTTP port to one whose HTTP server listens.                             *)
HoldInv ==
  \A h \in Hosts, q \in Ports, p \in Procs :
    holder[h][q] = p =>
      /\ HostOf[p] = h
      /\ pc[p] \in Serving
      /\ q = "http" => http[p] = "listening"

(* The goroutine of the HTTP server runs only behind the start of it.      *)
HTTPInv ==
  \A p \in Procs : http[p] # "none" => pc[p] \in Closing \cup {"ready"}

IInv == TypeOK /\ PlaceInv /\ SchemaInv /\ HoldInv /\ HTTPInv

USE ProcsAssumption, StatementsAssumption, BoundsAssumption

-----------------------------------------------------------------------------
(* The steps of one process, and what they change.                         *)
LEMMA LastIsNat == Last \in Nat
  BY DEF Last

LEMMA StepKinds ==
  ASSUME [Next]_vars
  PROVE  \/ \E p \in Procs :
              \/ Connect(p) \/ Exists(p) \/ Missing(p) \/ CheckFails(p)
              \/ Exec(p) \/ ExecRefused(p) \/ Ensured(p)
              \/ Skip(p) \/ Listen(p) \/ PortTaken(p) \/ StartHTTP(p)
              \/ ListenHTTP(p) \/ HTTPTaken(p) \/ HTTPFails(p)
              \/ Signal(p) \/ ShutdownHTTP(p) \/ Close(p) \/ CloseHTTP(p) \/ Crash(p)
         \/ \E n \in Names : Drop(n)
         \/ UNCHANGED vars
  BY DEF Next

LEMMA ThenIsStage ==
  ASSUME NEW stage \in Ports \cup {"ready", "close pg", "close native"}
  PROVE  /\ Then(stage) \in Stages
         /\ Then(stage) \in Serving
         /\ stage \in {"ready", "close pg", "close native"} => Then(stage) \in Closing
  BY DEF Then, Ports, Stages, Serving, Closing

LEMMA WithoutHolds ==
  ASSUME NEW p \in Procs, NEW ports \in SUBSET Ports, TypeOK
  PROVE  /\ Without(p, ports) \in [Hosts -> [Ports -> Procs \cup {NoProc}]]
         /\ \A h \in Hosts, q \in Ports, r \in Procs :
              Without(p, ports)[h][q] = r =>
                holder[h][q] = r /\ (q \in ports => r # p)
  BY DEF Without, TypeOK

LEMMA ExitGone ==
  ASSUME NEW p \in Procs, TypeOK, HoldInv, HTTPInv, Exit(p)
  PROVE  /\ pc' \in [Procs -> Stages]
         /\ http' \in [Procs -> {"none", "starting", "listening", "failed", "ended"}]
         /\ holder' \in [Hosts -> [Ports -> Procs \cup {NoProc}]]
         /\ pc'[p] = "down" /\ \A r \in Procs \ {p} : pc'[r] = pc[r]
         /\ HoldInv'
         /\ HTTPInv'
<1>1. /\ pc' \in [Procs -> Stages]
      /\ http' \in [Procs -> {"none", "starting", "listening", "failed", "ended"}]
      /\ pc'[p] = "down" /\ http'[p] = "none"
      /\ \A r \in Procs \ {p} : pc'[r] = pc[r] /\ http'[r] = http[r]
  BY DEF Exit, TypeOK, Stages
<1>2. /\ holder' \in [Hosts -> [Ports -> Procs \cup {NoProc}]]
      /\ \A h \in Hosts, q \in Ports, r \in Procs :
           holder'[h][q] = r => holder[h][q] = r /\ r # p
  BY WithoutHolds, Ports \in SUBSET Ports DEF Exit
<1>3. HoldInv'
  BY <1>1, <1>2 DEF HoldInv
<1>4. HTTPInv'
  BY <1>1 DEF HTTPInv, Closing
<1> QED
  BY <1>1, <1>2, <1>3, <1>4
-----------------------------------------------------------------------------
LEMMA FaultCounted ==
  ASSUME TypeOK, Fault
  PROVE  faults' \in 0..MaxFaults
  BY DEF TypeOK, Fault

(* Every step keeps the types.                                             *)
LEMMA TypeStep ==
  ASSUME IInv, [Next]_vars
  PROVE  TypeOK'
<1> USE LastIsNat
<1> SUFFICES ASSUME ~UNCHANGED vars
             PROVE  TypeOK'
  BY DEF IInv, TypeOK, vars
<1>1. ASSUME NEW p \in Procs, Connect(p)
      PROVE  TypeOK'
  <2>1. at' \in [Procs -> 1..(Last + 1)]
    <3>1. 1 \in 1..(Last + 1)
      OBVIOUS
    <3> QED
      BY <1>1, <3>1 DEF Connect, IInv, TypeOK
  <2>2. pc' \in [Procs -> Stages]
    BY <1>1 DEF Connect, IInv, TypeOK, Stages
  <2> QED
    BY <1>1, <2>1, <2>2 DEF Connect, IInv, TypeOK
<1>2. ASSUME NEW p \in Procs, Exists(p)
      PROVE  TypeOK'
  BY <1>2 DEF Exists, Advance, IInv, TypeOK
<1>3. ASSUME NEW p \in Procs, Missing(p) \/ Ensured(p)
      PROVE  TypeOK'
  BY <1>3 DEF Missing, Ensured, IInv, TypeOK, Stages
<1>4. ASSUME NEW p \in Procs, CheckFails(p)
      PROVE  TypeOK'
  BY <1>4, FaultCounted DEF CheckFails, IInv, TypeOK, Stages
<1>5. ASSUME NEW p \in Procs, Exec(p)
      PROVE  TypeOK'
  <2>1. at[p] \in 1..Last
    BY <1>5 DEF Exec, IInv, TypeOK, PlaceInv
  <2>2. Statement(p).name \in Names
    BY <2>1 DEF Statement, Names, Last
  <2>3. objects' \subseteq Names /\ dropped' \subseteq Names
    BY <1>5, <2>2 DEF Exec, IInv, TypeOK
  <2>4. at' \in [Procs -> 1..(Last + 1)]
    <3>1. at[p] + 1 \in 1..(Last + 1)
      BY <2>1
    <3> QED
      BY <1>5, <3>1 DEF Exec, Advance, IInv, TypeOK
  <2>5. pc' \in [Procs -> Stages]
    BY <1>5 DEF Exec, IInv, TypeOK, Stages
  <2> QED
    BY <1>5, <2>3, <2>4, <2>5 DEF Exec, IInv, TypeOK
<1>6. ASSUME NEW p \in Procs, ExecRefused(p) \/ PortTaken(p) \/ CloseHTTP(p) \/ Crash(p)
      PROVE  TypeOK'
  <2>1. Exit(p) /\ UNCHANGED <<objects, dropped, at>> /\ (Fault \/ UNCHANGED faults)
    BY <1>6 DEF ExecRefused, PortTaken, CloseHTTP, Crash
  <2>2. faults' \in 0..MaxFaults
    BY <2>1, FaultCounted DEF IInv, TypeOK
  <2> QED
    BY <2>1, <2>2, ExitGone DEF IInv, TypeOK
<1>7. ASSUME NEW p \in Procs, Skip(p) \/ Signal(p)
      PROVE  TypeOK'
  <2>1. pc' \in [Procs -> Stages]
    <3>1. pc[p] \in Ports \cup {"ready"}
      BY <1>7 DEF Skip, Signal
    <3>2. Then(pc[p]) \in Stages
      BY <3>1, ThenIsStage
    <3> QED
      BY <1>7, <3>2 DEF Skip, Signal, IInv, TypeOK
  <2>2. faults' \in 0..MaxFaults
    BY <1>7, FaultCounted DEF Skip, Signal, IInv, TypeOK
  <2> QED
    BY <1>7, <2>1, <2>2 DEF Skip, Signal, IInv, TypeOK
<1>8. ASSUME NEW p \in Procs, Listen(p)
      PROVE  TypeOK'
  <2>1. pc' \in [Procs -> Stages]
    BY <1>8, ThenIsStage DEF Listen, IInv, TypeOK, Ports
  <2>2. HostOf[p] \in Hosts /\ pc[p] \in Ports
    BY <1>8 DEF Listen, Hosts, Ports
  <2>3. holder' \in [Hosts -> [Ports -> Procs \cup {NoProc}]]
    BY <1>8, <2>2 DEF Listen, IInv, TypeOK
  <2> QED
    BY <1>8, <2>1, <2>3 DEF Listen, IInv, TypeOK
<1>9. ASSUME NEW p \in Procs, StartHTTP(p) \/ HTTPTaken(p)
      PROVE  TypeOK'
  BY <1>9 DEF StartHTTP, HTTPTaken, IInv, TypeOK, Stages
<1>10. ASSUME NEW p \in Procs, ListenHTTP(p)
       PROVE  TypeOK'
  <2>1. HostOf[p] \in Hosts /\ "http" \in Ports
    BY DEF Hosts, Ports
  <2>2. holder' \in [Hosts -> [Ports -> Procs \cup {NoProc}]]
    BY <1>10, <2>1 DEF ListenHTTP, IInv, TypeOK
  <2> QED
    BY <1>10, <2>2 DEF ListenHTTP, IInv, TypeOK
<1>11. ASSUME NEW p \in Procs, ShutdownHTTP(p)
       PROVE  TypeOK'
  <2>1. holder' \in [Hosts -> [Ports -> Procs \cup {NoProc}]]
    BY <1>11, WithoutHolds, {"http"} \in SUBSET Ports DEF ShutdownHTTP, IInv, Ports
  <2> QED
    BY <1>11, <2>1 DEF ShutdownHTTP, IInv, TypeOK
<1>14. ASSUME NEW p \in Procs, HTTPFails(p)
       PROVE  TypeOK'
  <2>1. holder' \in [Hosts -> [Ports -> Procs \cup {NoProc}]]
    BY <1>14, WithoutHolds, {"http"} \in SUBSET Ports DEF HTTPFails, IInv, Ports
  <2> QED
    BY <1>14, <2>1, FaultCounted DEF HTTPFails, IInv, TypeOK
<1>12. ASSUME NEW p \in Procs, Close(p)
       PROVE  TypeOK'
  <2>1. {IF pc[p] = "close pg" THEN "pg" ELSE "native"} \in SUBSET Ports
    BY DEF Ports
  <2>2. holder' \in [Hosts -> [Ports -> Procs \cup {NoProc}]]
    BY <1>12, <2>1, WithoutHolds DEF Close, IInv
  <2>3. pc' \in [Procs -> Stages]
    BY <1>12, ThenIsStage DEF Close, IInv, TypeOK
  <2> QED
    BY <1>12, <2>2, <2>3 DEF Close, IInv, TypeOK
<1>13. ASSUME NEW n \in Names, Drop(n)
       PROVE  TypeOK'
  BY <1>13, FaultCounted DEF Drop, IInv, TypeOK
<1> QED
  BY StepKinds, <1>1, <1>2, <1>3, <1>4, <1>5, <1>6, <1>7, <1>8, <1>9, <1>10, <1>11,
     <1>12, <1>13, <1>14
-----------------------------------------------------------------------------
(* Every step keeps EnsureSchema's place: what main does behind it begins  *)
(* only when all statements are done.                                      *)
LEMMA PlaceStep ==
  ASSUME IInv, [Next]_vars
  PROVE  PlaceInv'
<1> USE LastIsNat
<1>1. ASSUME NEW p \in Procs, Connect(p) \/ Exists(p) \/ Exec(p)
      PROVE  PlaceInv'
  <2>1. pc'[p] = "check" /\ \A r \in Procs \ {p} : pc'[r] = pc[r] /\ at'[r] = at[r]
    BY <1>1 DEF Connect, Exists, Exec, Advance, IInv, TypeOK, Stages
  <2> QED
    BY <2>1 DEF IInv, PlaceInv, Serving
<1>2. ASSUME NEW p \in Procs, Missing(p) \/ CheckFails(p)
      PROVE  PlaceInv'
  <2>1. /\ pc'[p] = "exec" /\ at[p] <= Last /\ UNCHANGED at
        /\ \A r \in Procs \ {p} : pc'[r] = pc[r]
    BY <1>2 DEF Missing, CheckFails, IInv, TypeOK, Stages
  <2> QED
    BY <2>1 DEF IInv, PlaceInv, Serving
<1>3. ASSUME NEW p \in Procs,
             Ensured(p) \/ Skip(p) \/ Listen(p) \/ StartHTTP(p) \/ Signal(p) \/ Close(p)
      PROVE  PlaceInv'
  <2>1. /\ at[p] > Last /\ UNCHANGED at
        /\ \A r \in Procs \ {p} : pc'[r] = pc[r]
    BY <1>3 DEF Ensured, Skip, Listen, StartHTTP, Signal, Close, IInv, TypeOK, PlaceInv,
                Ports, Serving
  <2>2. pc'[p] # "exec"
    <3>1. CASE Ensured(p) \/ StartHTTP(p)
      BY <3>1 DEF Ensured, StartHTTP, IInv, TypeOK
    <3>2. CASE Skip(p) \/ Listen(p) \/ Signal(p) \/ Close(p)
      <4>1. /\ pc[p] \in Ports \cup {"ready", "close pg", "close native"}
            /\ pc'[p] = Then(pc[p])
        BY <3>2 DEF Skip, Listen, Signal, Close, IInv, TypeOK, Ports
      <4>2. pc'[p] \in Serving
        BY <4>1, ThenIsStage
      <4> QED
        BY <4>2 DEF Serving
    <3> QED
      BY <1>3, <3>1, <3>2
  <2> QED
    BY <2>1, <2>2 DEF IInv, PlaceInv
<1>4. ASSUME NEW p \in Procs, ExecRefused(p) \/ PortTaken(p) \/ CloseHTTP(p) \/ Crash(p)
      PROVE  PlaceInv'
  <2>1. Exit(p) /\ UNCHANGED at
    BY <1>4 DEF ExecRefused, PortTaken, CloseHTTP, Crash
  <2>2. pc'[p] = "down" /\ \A r \in Procs \ {p} : pc'[r] = pc[r]
    BY <2>1, ExitGone DEF IInv
  <2> QED
    BY <2>1, <2>2 DEF IInv, PlaceInv, Serving
<1>5. ASSUME NEW p \in Procs, ListenHTTP(p) \/ HTTPTaken(p) \/ HTTPFails(p) \/ ShutdownHTTP(p)
      PROVE  PlaceInv'
  BY <1>5 DEF ListenHTTP, HTTPTaken, HTTPFails, ShutdownHTTP, IInv, PlaceInv
<1>6. CASE (\E n \in Names : Drop(n)) \/ UNCHANGED vars
  BY <1>6 DEF Drop, vars, IInv, PlaceInv
<1> QED
  BY StepKinds, <1>1, <1>2, <1>3, <1>4, <1>5, <1>6
-----------------------------------------------------------------------------
(* Nothing that was created is forgotten.                                  *)
LEMMA MadeStays ==
  ASSUME IInv, [Next]_vars
  PROVE  objects \cup dropped \subseteq objects' \cup dropped'
<1>1. ASSUME NEW p \in Procs, Exec(p)
      PROVE  objects \cup dropped \subseteq objects' \cup dropped'
  BY <1>1 DEF Exec
<1>2. ASSUME NEW n \in Names, Drop(n)
      PROVE  objects \cup dropped \subseteq objects' \cup dropped'
  BY <1>2 DEF Drop
<1>3. ASSUME NEW p \in Procs,
             \/ Connect(p) \/ Exists(p) \/ Missing(p) \/ CheckFails(p)
             \/ ExecRefused(p) \/ Ensured(p)
             \/ Skip(p) \/ Listen(p) \/ PortTaken(p) \/ StartHTTP(p)
             \/ ListenHTTP(p) \/ HTTPTaken(p) \/ HTTPFails(p)
             \/ Signal(p) \/ ShutdownHTTP(p) \/ Close(p) \/ CloseHTTP(p) \/ Crash(p)
      PROVE  UNCHANGED <<objects, dropped>>
  BY <1>3 DEF Connect, Exists, Missing, CheckFails, ExecRefused, Ensured, Skip, Listen,
              PortTaken, StartHTTP, ListenHTTP, HTTPTaken, HTTPFails, Signal, ShutdownHTTP, Close,
              CloseHTTP, Crash
<1> QED
  BY StepKinds, <1>1, <1>2, <1>3 DEF vars

LEMMA SchemaStep ==
  ASSUME IInv, [Next]_vars
  PROVE  SchemaInv'
<1> USE LastIsNat
<1> SUFFICES ASSUME NEW r \in Procs, NEW i \in 1..(at'[r] - 1)
             PROVE  Statements[i].name \in objects' \cup dropped'
  BY DEF SchemaInv
<1>1. CASE at'[r] = at[r]
  BY <1>1, MadeStays DEF IInv, SchemaInv
<1>2. ASSUME NEW p \in Procs, Connect(p)
      PROVE  at'[r] = at[r] \/ at'[r] = 1
  BY <1>2 DEF Connect, IInv, TypeOK
<1>3. ASSUME NEW p \in Procs, Exists(p) \/ Exec(p)
      PROVE  Statements[i].name \in objects' \cup dropped'
  <2>1. at'[r] = at[r] \/ (r = p /\ at'[r] = at[r] + 1)
    BY <1>3 DEF Exists, Exec, Advance, IInv, TypeOK
  <2>2. Statement(p).name \in objects'
    BY <1>3 DEF Exists, Exec
  <2>3. CASE r = p /\ at'[r] = at[r] + 1
    <3>1. at[r] \in Nat
      BY DEF IInv, TypeOK
    <3>2. i \in 1..(at[r] - 1) \/ i = at[r]
      BY <2>3, <3>1
    <3>3. CASE i = at[r]
      BY <3>3, <2>2, <2>3 DEF Statement
    <3>4. CASE i \in 1..(at[r] - 1)
      BY <3>4, MadeStays DEF IInv, SchemaInv
    <3> QED
      BY <3>2, <3>3, <3>4
  <2> QED
    BY <2>1, <2>3, <1>1
<1>4. ASSUME NEW p \in Procs,
             \/ Missing(p) \/ CheckFails(p)
             \/ ExecRefused(p) \/ Ensured(p)
             \/ Skip(p) \/ Listen(p) \/ PortTaken(p) \/ StartHTTP(p)
             \/ ListenHTTP(p) \/ HTTPTaken(p) \/ HTTPFails(p)
             \/ Signal(p) \/ ShutdownHTTP(p) \/ Close(p) \/ CloseHTTP(p) \/ Crash(p)
      PROVE  UNCHANGED at
  BY <1>4 DEF Missing, CheckFails, ExecRefused, Ensured, Skip, Listen,
              PortTaken, StartHTTP, ListenHTTP, HTTPTaken, HTTPFails, Signal, ShutdownHTTP, Close,
              CloseHTTP, Crash
<1>5. CASE (\E n \in Names : Drop(n)) \/ UNCHANGED vars
  BY <1>5, <1>1 DEF Drop, vars
<1>6. CASE at'[r] = 1
  BY <1>6
<1> QED
  BY StepKinds, <1>1, <1>2, <1>3, <1>4, <1>5, <1>6
-----------------------------------------------------------------------------
(* Every step keeps who may hold a port.                                   *)
LEMMA HoldStep ==
  ASSUME IInv, [Next]_vars
  PROVE  HoldInv'
<1>1. ASSUME NEW p \in Procs,
             \/ Connect(p) \/ Exists(p) \/ Missing(p) \/ CheckFails(p) \/ Exec(p)
             \/ Ensured(p)
      PROVE  HoldInv'
  <2>1. /\ pc[p] \notin Serving /\ UNCHANGED <<http, holder>>
        /\ \A r \in Procs \ {p} : pc'[r] = pc[r]
    BY <1>1 DEF Connect, Exists, Missing, CheckFails, Exec, Ensured, IInv, TypeOK, Serving
  <2> QED
    BY <2>1 DEF IInv, HoldInv
<1>2. ASSUME NEW p \in Procs, ExecRefused(p) \/ PortTaken(p) \/ CloseHTTP(p) \/ Crash(p)
      PROVE  HoldInv'
  BY <1>2, ExitGone DEF ExecRefused, PortTaken, CloseHTTP, Crash, IInv
<1>3. ASSUME NEW p \in Procs, Skip(p) \/ Signal(p)
      PROVE  HoldInv'
  <2>1. pc[p] \in Ports \cup {"ready"}
    BY <1>3 DEF Skip, Signal
  <2>2. pc'[p] = Then(pc[p]) /\ \A r \in Procs \ {p} : pc'[r] = pc[r]
    BY <1>3 DEF Skip, Signal, IInv, TypeOK
  <2>3. pc'[p] \in Serving
    BY <2>1, <2>2, ThenIsStage
  <2> QED
    BY <1>3, <2>2, <2>3 DEF Skip, Signal, IInv, HoldInv
<1>4. ASSUME NEW p \in Procs, Listen(p)
      PROVE  HoldInv'
  <2>1. pc'[p] \in Serving /\ \A r \in Procs \ {p} : pc'[r] = pc[r]
    BY <1>4, ThenIsStage DEF Listen, IInv, TypeOK, Ports
  <2>2. \A h \in Hosts, q \in Ports :
          \/ holder'[h][q] = holder[h][q]
          \/ holder'[h][q] = p /\ h = HostOf[p] /\ q # "http"
    BY <1>4 DEF Listen, IInv, TypeOK, Ports
  <2>3. UNCHANGED http
    BY <1>4 DEF Listen
  <2> QED
    BY <2>1, <2>2, <2>3 DEF IInv, HoldInv
<1>5. ASSUME NEW p \in Procs, StartHTTP(p)
      PROVE  HoldInv'
  <2>1. /\ pc'[p] \in Serving /\ \A r \in Procs \ {p} : pc'[r] = pc[r] /\ http'[r] = http[r]
        /\ UNCHANGED holder
    BY <1>5 DEF StartHTTP, IInv, TypeOK, Serving
  <2>2. http[p] = "none"
    BY <1>5 DEF StartHTTP, IInv, HTTPInv, Closing
  <2> QED
    BY <2>1, <2>2 DEF IInv, HoldInv
<1>6. ASSUME NEW p \in Procs, ListenHTTP(p)
      PROVE  HoldInv'
  <2>1. pc[p] \in Serving
    BY <1>6 DEF ListenHTTP, IInv, HTTPInv, Closing, Serving
  <2>2. \A h \in Hosts, q \in Ports :
          \/ holder'[h][q] = holder[h][q]
          \/ holder'[h][q] = p /\ h = HostOf[p]
    BY <1>6 DEF ListenHTTP, IInv, TypeOK, Ports
  <2>3. /\ http'[p] = "listening" /\ \A r \in Procs \ {p} : http'[r] = http[r]
        /\ UNCHANGED pc
    BY <1>6 DEF ListenHTTP, IInv, TypeOK
  <2> QED
    BY <2>1, <2>2, <2>3 DEF IInv, HoldInv
<1>7. ASSUME NEW p \in Procs, HTTPTaken(p)
      PROVE  HoldInv'
  <2>1. /\ http[p] = "starting" /\ \A r \in Procs \ {p} : http'[r] = http[r]
        /\ UNCHANGED <<pc, holder>>
    BY <1>7 DEF HTTPTaken, IInv, TypeOK
  <2> QED
    BY <2>1 DEF IInv, HoldInv
<1>8. ASSUME NEW p \in Procs, ShutdownHTTP(p) \/ HTTPFails(p)
      PROVE  HoldInv'
  <2>1. \A h \in Hosts, q \in Ports, r \in Procs :
          holder'[h][q] = r => holder[h][q] = r /\ (q = "http" => r # p)
    <3>1. {"http"} \in SUBSET Ports /\ TypeOK /\ holder' = Without(p, {"http"})
      BY <1>8 DEF ShutdownHTTP, HTTPFails, IInv, Ports
    <3>2. \A h \in Hosts, q \in Ports, r \in Procs :
            Without(p, {"http"})[h][q] = r => holder[h][q] = r /\ (q \in {"http"} => r # p)
      BY <3>1, WithoutHolds
    <3> QED
      BY <3>1, <3>2
  <2>2. UNCHANGED pc /\ \A r \in Procs \ {p} : http'[r] = http[r]
    BY <1>8 DEF ShutdownHTTP, HTTPFails, IInv, TypeOK
  <2> QED
    BY <2>1, <2>2 DEF IInv, HoldInv
<1>9. ASSUME NEW p \in Procs, Close(p)
      PROVE  HoldInv'
  <2>1. {IF pc[p] = "close pg" THEN "pg" ELSE "native"} \in SUBSET Ports
    BY DEF Ports
  <2>2. \A h \in Hosts, q \in Ports, r \in Procs : holder'[h][q] = r => holder[h][q] = r
    <3>1. \E ports \in SUBSET Ports : holder' = Without(p, ports)
      <4>1. holder' = Without(p, {IF pc[p] = "close pg" THEN "pg" ELSE "native"})
        BY <1>9 DEF Close
      <4> QED
        BY <2>1, <4>1
    <3>2. PICK ports \in SUBSET Ports : holder' = Without(p, ports)
      BY <3>1
    <3>3. \A h \in Hosts, q \in Ports, r \in Procs :
            Without(p, ports)[h][q] = r => holder[h][q] = r /\ (q \in ports => r # p)
      <4>1. TypeOK
        BY DEF IInv
      <4> QED
        BY <4>1, WithoutHolds
    <3> QED
      BY <3>2, <3>3
  <2>3. pc'[p] \in Serving /\ \A r \in Procs \ {p} : pc'[r] = pc[r]
    BY <1>9, ThenIsStage DEF Close, IInv, TypeOK
  <2>4. UNCHANGED http
    BY <1>9 DEF Close
  <2> QED
    BY <2>2, <2>3, <2>4 DEF IInv, HoldInv
<1>10. CASE (\E n \in Names : Drop(n)) \/ UNCHANGED vars
  BY <1>10 DEF Drop, vars, IInv, HoldInv
<1> QED
  BY StepKinds, <1>1, <1>2, <1>3, <1>4, <1>5, <1>6, <1>7, <1>8, <1>9, <1>10
-----------------------------------------------------------------------------
(* Every step keeps what the goroutine of the HTTP server does.            *)
LEMMA HTTPStep ==
  ASSUME IInv, [Next]_vars
  PROVE  HTTPInv'
<1>1. ASSUME NEW p \in Procs,
             \/ Connect(p) \/ Exists(p) \/ Missing(p) \/ CheckFails(p) \/ Exec(p)
             \/ Ensured(p)
      PROVE  HTTPInv'
  <2>1. /\ pc[p] \notin Closing \cup {"ready"} /\ pc'[p] # "ready" /\ UNCHANGED http
        /\ \A r \in Procs \ {p} : pc'[r] = pc[r]
    BY <1>1 DEF Connect, Exists, Missing, CheckFails, Exec, Ensured, IInv, TypeOK, Closing
  <2> QED
    BY <2>1 DEF IInv, HTTPInv
<1>2. ASSUME NEW p \in Procs, ExecRefused(p) \/ PortTaken(p) \/ CloseHTTP(p) \/ Crash(p)
      PROVE  HTTPInv'
  BY <1>2, ExitGone DEF ExecRefused, PortTaken, CloseHTTP, Crash, IInv
<1>3. ASSUME NEW p \in Procs, Skip(p) \/ Listen(p)
      PROVE  HTTPInv'
  <2>1. /\ pc[p] \in Ports /\ UNCHANGED http
        /\ \A r \in Procs \ {p} : pc'[r] = pc[r]
    BY <1>3 DEF Skip, Listen, IInv, TypeOK, Ports
  <2>2. http[p] = "none"
    BY <2>1 DEF IInv, HTTPInv, Closing, Ports
  <2> QED
    BY <2>1, <2>2 DEF IInv, HTTPInv
<1>4. ASSUME NEW p \in Procs, StartHTTP(p)
      PROVE  HTTPInv'
  <2>1. /\ pc'[p] = "ready" /\ http'[p] = "starting"
        /\ \A r \in Procs \ {p} : pc'[r] = pc[r] /\ http'[r] = http[r]
    BY <1>4 DEF StartHTTP, IInv, TypeOK
  <2> QED
    BY <2>1 DEF IInv, HTTPInv
<1>5. ASSUME NEW p \in Procs, ListenHTTP(p)
      PROVE  HTTPInv'
  <2>1. /\ http[p] = "starting" /\ http'[p] = "listening" /\ UNCHANGED pc
        /\ \A r \in Procs \ {p} : http'[r] = http[r]
    BY <1>5 DEF ListenHTTP, IInv, TypeOK
  <2> QED
    BY <2>1 DEF IInv, HTTPInv
<1>6. ASSUME NEW p \in Procs, HTTPTaken(p) \/ HTTPFails(p)
      PROVE  HTTPInv'
  <2>1. /\ http[p] # "none" /\ UNCHANGED pc
        /\ \A r \in Procs \ {p} : http'[r] = http[r]
    BY <1>6 DEF HTTPTaken, HTTPFails, IInv, TypeOK
  <2> QED
    BY <2>1 DEF IInv, HTTPInv
<1>7. ASSUME NEW p \in Procs, Signal(p) \/ Close(p)
      PROVE  HTTPInv'
  <2>1. /\ pc[p] \in {"ready", "close pg", "close native"} /\ UNCHANGED http
        /\ pc'[p] = Then(pc[p]) /\ \A r \in Procs \ {p} : pc'[r] = pc[r]
    BY <1>7 DEF Signal, Close, IInv, TypeOK
  <2>2. pc'[p] \in Closing
    BY <2>1, ThenIsStage
  <2> QED
    BY <2>1, <2>2 DEF IInv, HTTPInv, Closing
<1>8. ASSUME NEW p \in Procs, ShutdownHTTP(p)
      PROVE  HTTPInv'
  <2>1. /\ pc[p] \in Closing /\ http'[p] = "ended" /\ UNCHANGED pc
        /\ \A r \in Procs \ {p} : http'[r] = http[r]
    BY <1>8 DEF ShutdownHTTP, IInv, TypeOK
  <2> QED
    BY <2>1 DEF IInv, HTTPInv, Closing
<1>9. CASE (\E n \in Names : Drop(n)) \/ UNCHANGED vars
  BY <1>9 DEF Drop, vars, IInv, HTTPInv
<1> QED
  BY StepKinds, <1>1, <1>2, <1>3, <1>4, <1>5, <1>6, <1>7, <1>8, <1>9
-----------------------------------------------------------------------------
LEMMA Initially ==
  ASSUME Init
  PROVE  IInv
<1> USE LastIsNat
<1>1. TypeOK
  <2>1. at \in [Procs -> 1..(Last + 1)]
    <3>1. 1 \in 1..(Last + 1)
      OBVIOUS
    <3> QED
      BY <3>1 DEF Init
  <2> QED
    BY <2>1 DEF Init, TypeOK, Stages
<1>2. PlaceInv /\ SchemaInv
  BY DEF Init, PlaceInv, SchemaInv, Serving
<1>3. HoldInv /\ HTTPInv
  BY DEF Init, HoldInv, HTTPInv
<1> QED
  BY <1>1, <1>2, <1>3 DEF IInv

LEMMA Inductive == Spec => []IInv
<1>1. Init => IInv
  BY Initially
<1>2. IInv /\ [Next]_vars => IInv'
  BY TypeStep, PlaceStep, SchemaStep, HoldStep, HTTPStep DEF IInv
<1> QED
  BY <1>1, <1>2, PTL DEF Spec

(* Every variable keeps its type.                                          *)
THEOREM TypeCorrect == Spec => []TypeOK
<1>1. IInv => TypeOK
  BY DEF IInv
<1> QED
  BY <1>1, Inductive, PTL

(* No process listens on a port before the whole schema was created, no    *)
(* matter how many start at once and where they die (schema.go:13-76,      *)
(* main.go:51-55).                                                         *)
THEOREM SchemaFirst == Spec => []SchemaBeforeService
<1> USE LastIsNat
<1>1. IInv => SchemaBeforeService
  <2> SUFFICES ASSUME IInv, NEW p \in Procs, NEW q \in Ports, Holds(p, q), NEW n \in Names
               PROVE  n \in objects \cup dropped
    BY DEF SchemaBeforeService
  <2>1. pc[p] \in Serving
    BY DEF IInv, HoldInv, Holds, Hosts
  <2>2. at[p] > Last /\ at[p] \in Nat
    BY <2>1 DEF IInv, PlaceInv, TypeOK
  <2>3. PICK i \in 1..Last : n = Statements[i].name
    BY DEF Names, Last
  <2>4. i \in 1..(at[p] - 1)
    BY <2>2, <2>3
  <2> QED
    BY <2>3, <2>4 DEF IInv, SchemaInv
<1> QED
  BY <1>1, Inductive, PTL

(* No view is refused for a table that EnsureSchema has not come to        *)
(* (schema.go:13-42).                                                      *)
THEOREM TablesFirst == Spec => []ViewsAfterTables
<1> USE LastIsNat
<1>1. IInv => ViewsAfterTables
  <2> SUFFICES ASSUME IInv, NEW p \in Procs, pc[p] = "exec", NEW n \in Statement(p).reads
               PROVE  n \in objects \cup dropped
    BY DEF ViewsAfterTables
  <2>1. at[p] \in 1..Last
    BY DEF IInv, PlaceInv, TypeOK
  <2>2. at[p] \in DOMAIN Statements
    BY <2>1 DEF Last
  <2>3. PICK j \in 1..(at[p] - 1) : n = Statements[j].name
    BY <2>2 DEF Statement
  <2> QED
    BY <2>3 DEF IInv, SchemaInv
<1> QED
  BY <1>1, Inductive, PTL
=============================================================================
