------------------------------- MODULE StartUp -------------------------------
(***************************************************************************)
(* The life of a process, from main's first connection to MySQL to its     *)
(* exit: EnsureSchema creates the tables and views that are missing, the   *)
(* servers begin to listen one after the other, and a signal ends them in  *)
(* that order.  Several processes share one MySQL and may start at once;   *)
(* those of one host share its ports.  A process may die anywhere, MySQL   *)
(* may refuse a statement, and other clients may drop what was created.    *)
(*                                                                         *)
(* An operator X_Y is the definition X with a fault of the kind Y seeded   *)
(* into it; no specification uses it.                                      *)
(***************************************************************************)
EXTENDS Integers, Sequences

CONSTANTS
  Procs,       (* the processes                                            *)
  HostOf,      (* the host of each process                                 *)
  NoProc,      (* who has a port that nobody listens on                    *)
  Statements,  (* what EnsureSchema executes: [name, view, reads]          *)
  Enabled,     (* the proxies that each is configured for, "pg" and "ch"   *)
  MaxFaults    (* bound: crashes, signals, drops, failing statements and   *)
               (* failing HTTP listeners                                   *)

Hosts == {HostOf[p] : p \in Procs}
Names == {Statements[i].name : i \in DOMAIN Statements}
Ports == {"pg", "native", "http"}
Last == Len(Statements)

(* Tables read nothing, and a view is behind the tables that it reads.     *)
ASSUME ProcsAssumption == NoProc \notin Procs /\ HostOf \in [Procs -> Hosts]
ASSUME StatementsAssumption ==
  /\ Statements \in Seq([name : Names, view : BOOLEAN, reads : SUBSET Names])
  /\ \A i \in DOMAIN Statements : Statements[i].reads \subseteq {Statements[j].name : j \in 1..(i - 1)}
ASSUME BoundsAssumption == Enabled \in [Procs -> SUBSET {"pg", "ch"}] /\ MaxFaults \in Nat

VARIABLES
  objects,  (* the tables and views that MySQL has                         *)
  dropped,  (* those that a client has dropped and nobody made again       *)
  pc,       (* where main of a process is                                  *)
  at,       (* the statement EnsureSchema is at                            *)
  http,     (* the goroutine of the HTTP server: "none", "starting",       *)
            (* "listening", "failed" or "ended"                            *)
  holder,   (* who listens on a port of a host                             *)
  faults    (* how many faults there were                                  *)

vars == <<objects, dropped, pc, at, http, holder, faults>>

(* The stages of main; "check" and "exec" are in EnsureSchema.             *)
Stages == {"down", "check", "exec", "pg", "native", "http", "ready",
           "close pg", "close native", "close http"}
Serving == {"native", "http", "ready", "close pg", "close native", "close http"}

Init ==
  /\ objects = {} /\ dropped = {}
  /\ pc = [p \in Procs |-> "down"]
  /\ at = [p \in Procs |-> 1]
  /\ http = [p \in Procs |-> "none"]
  /\ holder = [h \in Hosts |-> [q \in Ports |-> NoProc]]
  /\ faults = 0

Fault == faults < MaxFaults /\ faults' = faults + 1

Free(p, q) == holder[HostOf[p]][q] = NoProc
Holds(p, q) == holder[HostOf[p]][q] = p
Without(p, ports) ==
  [h \in Hosts |-> [q \in Ports |->
     IF q \in ports /\ holder[h][q] = p THEN NoProc ELSE holder[h][q]]]

(* The process is gone, whether it ends itself or dies.                    *)
Exit(p) ==
  /\ pc' = [pc EXCEPT ![p] = "down"]
  /\ http' = [http EXCEPT ![p] = "none"]
  /\ holder' = Without(p, Ports)
-----------------------------------------------------------------------------
(* NewPool: MySQL answers a ping.  A process that gets no answer ends, and *)
(* the next one begins where it began.                                     *)
Connect(p) ==
  /\ pc[p] = "down"
  /\ pc' = [pc EXCEPT ![p] = "check"]
  /\ at' = [at EXCEPT ![p] = 1]
  /\ UNCHANGED <<objects, dropped, http, holder, faults>>

(* execDDL looks for a table before it creates it; names of views are not  *)
(* looked for.                                                             *)
Statement(p) == Statements[at[p]]
Advance_Twice(p) == at' = [at EXCEPT ![p] = @ + 2]
Advance(p) == at' = [at EXCEPT ![p] = @ + 1]

Exists(p) ==
  /\ pc[p] = "check" /\ at[p] <= Last
  /\ ~Statement(p).view /\ Statement(p).name \in objects
  /\ Advance(p)
  /\ UNCHANGED <<objects, dropped, pc, http, holder, faults>>

Missing(p) ==
  /\ pc[p] = "check" /\ at[p] <= Last
  /\ Statement(p).view \/ Statement(p).name \notin objects
  /\ pc' = [pc EXCEPT ![p] = "exec"]
  /\ UNCHANGED <<objects, dropped, at, http, holder, faults>>

(* The question fails: the statement is executed in any case.              *)
CheckFails_Skips(p) ==
  /\ pc[p] = "check" /\ at[p] <= Last /\ ~Statement(p).view
  /\ Fault
  /\ Advance(p)
  /\ UNCHANGED <<objects, dropped, pc, http, holder>>
CheckFails(p) ==
  /\ pc[p] = "check" /\ at[p] <= Last /\ ~Statement(p).view
  /\ Fault
  /\ pc' = [pc EXCEPT ![p] = "exec"]
  /\ UNCHANGED <<objects, dropped, at, http, holder>>

(* CREATE TABLE IF NOT EXISTS, CREATE OR REPLACE VIEW: no error when it is *)
(* there already, an error when a view's table is not.                     *)
Exec(p) ==
  /\ pc[p] = "exec"
  /\ Statement(p).reads \subseteq objects
  /\ objects' = objects \cup {Statement(p).name}
  /\ dropped' = dropped \ {Statement(p).name}
  /\ pc' = [pc EXCEPT ![p] = "check"]
  /\ Advance(p)
  /\ UNCHANGED <<http, holder, faults>>

ExecRefused_Ignored(p) ==
  /\ pc[p] = "exec"
  /\ \/ Fault
     \/ ~(Statement(p).reads \subseteq objects) /\ UNCHANGED faults
  /\ pc' = [pc EXCEPT ![p] = "check"]
  /\ Advance(p)
  /\ UNCHANGED <<objects, dropped, http, holder>>
ExecRefused(p) ==
  /\ pc[p] = "exec"
  /\ \/ Fault
     \/ ~(Statement(p).reads \subseteq objects) /\ UNCHANGED faults
  /\ Exit(p)
  /\ UNCHANGED <<objects, dropped, at>>

Ensured(p) ==
  /\ pc[p] = "check" /\ at[p] > Last
  /\ pc' = [pc EXCEPT ![p] = "pg"]
  /\ UNCHANGED <<objects, dropped, at, http, holder, faults>>
-----------------------------------------------------------------------------
Proxy(q) == IF q = "pg" THEN "pg" ELSE "ch"
Then(stage) ==
  CASE stage = "pg" -> "native" [] stage = "native" -> "http" [] stage = "http" -> "ready"
    [] stage = "ready" -> "close pg" [] stage = "close pg" -> "close native"
    [] stage = "close native" -> "close http"

Skip(p) ==
  /\ pc[p] \in Ports /\ Proxy(pc[p]) \notin Enabled[p]
  /\ pc' = [pc EXCEPT ![p] = Then(@)]
  /\ UNCHANGED <<objects, dropped, at, http, holder, faults>>

(* The servers for PostgreSQL and the native protocol listen before main   *)
(* goes on; when the port is taken main ends, and with it those servers    *)
(* that listen already.                                                    *)
Listen(p) ==
  /\ pc[p] \in {"pg", "native"} /\ Proxy(pc[p]) \in Enabled[p]
  /\ Free(p, pc[p])
  /\ holder' = [holder EXCEPT ![HostOf[p]][pc[p]] = p]
  /\ pc' = [pc EXCEPT ![p] = Then(@)]
  /\ UNCHANGED <<objects, dropped, at, http, faults>>

PortTaken_OnlyLogged(p) ==
  /\ pc[p] \in {"pg", "native"} /\ Proxy(pc[p]) \in Enabled[p]
  /\ ~Free(p, pc[p])
  /\ pc' = [pc EXCEPT ![p] = Then(@)]
  /\ UNCHANGED <<objects, dropped, at, http, holder, faults>>
PortTaken(p) ==
  /\ pc[p] \in {"pg", "native"} /\ Proxy(pc[p]) \in Enabled[p]
  /\ ~Free(p, pc[p])
  /\ Exit(p)
  /\ UNCHANGED <<objects, dropped, at, faults>>

(* The HTTP server listens in a goroutine, and main does not learn         *)
(* whether it could.                                                       *)
StartHTTP(p) ==
  /\ pc[p] = "http" /\ "ch" \in Enabled[p]
  /\ pc' = [pc EXCEPT ![p] = "ready"]
  /\ http' = [http EXCEPT ![p] = "starting"]
  /\ UNCHANGED <<objects, dropped, at, holder, faults>>

ListenHTTP(p) ==
  /\ http[p] = "starting"
  /\ Free(p, "http")
  /\ holder' = [holder EXCEPT ![HostOf[p]]["http"] = p]
  /\ http' = [http EXCEPT ![p] = "listening"]
  /\ UNCHANGED <<objects, dropped, pc, at, faults>>

HTTPTaken(p) ==
  /\ http[p] = "starting"
  /\ ~Free(p, "http")
  /\ http' = [http EXCEPT ![p] = "failed"]
  /\ UNCHANGED <<objects, dropped, pc, at, holder, faults>>

(* The listener fails for any other reason, at once or later; the process  *)
(* goes on without it.                                                     *)
HTTPFails(p) ==
  /\ http[p] \in {"starting", "listening"}
  /\ Fault
  /\ http' = [http EXCEPT ![p] = "failed"]
  /\ holder' = Without(p, {"http"})
  /\ UNCHANGED <<objects, dropped, pc, at>>
-----------------------------------------------------------------------------
Closing == {"close pg", "close native", "close http"}

Signal(p) ==
  /\ pc[p] = "ready"
  /\ Fault
  /\ pc' = [pc EXCEPT ![p] = Then(@)]
  /\ UNCHANGED <<objects, dropped, at, http, holder>>

(* The context is cancelled: the goroutine of the HTTP server shuts it     *)
(* down while main closes the servers.                                     *)
ShutdownHTTP(p) ==
  /\ pc[p] \in Closing /\ http[p] = "listening"
  /\ http' = [http EXCEPT ![p] = "ended"]
  /\ holder' = Without(p, {"http"})
  /\ UNCHANGED <<objects, dropped, pc, at, faults>>

Close(p) ==
  /\ pc[p] \in {"close pg", "close native"}
  /\ pc' = [pc EXCEPT ![p] = Then(@)]
  /\ holder' = Without(p, {IF pc[p] = "close pg" THEN "pg" ELSE "native"})
  /\ UNCHANGED <<objects, dropped, at, http, faults>>

CloseHTTP(p) ==
  /\ pc[p] = "close http"
  /\ Exit(p)
  /\ UNCHANGED <<objects, dropped, at, faults>>

Crash(p) ==
  /\ pc[p] # "down"
  /\ Fault
  /\ Exit(p)
  /\ UNCHANGED <<objects, dropped, at>>

Drop(n) ==
  /\ n \in objects
  /\ Fault
  /\ objects' = objects \ {n}
  /\ dropped' = dropped \cup {n}
  /\ UNCHANGED <<pc, at, http, holder>>
-----------------------------------------------------------------------------
Main(p) ==
  \/ Connect(p) \/ Exists(p) \/ Missing(p) \/ Exec(p) \/ ExecRefused(p) \/ Ensured(p)
  \/ Skip(p) \/ Listen(p) \/ PortTaken(p) \/ StartHTTP(p) \/ Close(p) \/ CloseHTTP(p)

HTTP(p) == ListenHTTP(p) \/ HTTPTaken(p) \/ ShutdownHTTP(p)

Next ==
  \/ \E p \in Procs :
       \/ Connect(p) \/ Exists(p) \/ Missing(p) \/ CheckFails(p) \/ Exec(p) \/ ExecRefused(p)
       \/ Ensured(p) \/ Skip(p) \/ Listen(p) \/ PortTaken(p) \/ StartHTTP(p)
       \/ ListenHTTP(p) \/ HTTPTaken(p) \/ HTTPFails(p)
       \/ Signal(p) \/ ShutdownHTTP(p) \/ Close(p) \/ CloseHTTP(p) \/ Crash(p)
  \/ \E n \in Names : Drop(n)

Spec == Init /\ [][Next]_vars

(* The goroutines run, and whoever operates a process starts it again.     *)
FairSpec == Spec /\ \A p \in Procs : WF_vars(Main(p)) /\ WF_vars(HTTP(p))
-----------------------------------------------------------------------------
TypeOK ==
  /\ objects \subseteq Names /\ dropped \subseteq Names
  /\ pc \in [Procs -> Stages]
  /\ at \in [Procs -> 1..(Last + 1)]
  /\ http \in [Procs -> {"none", "starting", "listening", "failed", "ended"}]
  /\ holder \in [Hosts -> [Ports -> Procs \cup {NoProc}]]
  /\ faults \in 0..MaxFaults

(* Whoever listens has the whole schema in MySQL, but for what others have *)
(* dropped, however many processes have created it at once and wherever    *)
(* one of them or an earlier one died (schema.go:13-76, main.go:51-55).    *)
SchemaBeforeService ==
  \A p \in Procs : (\E q \in Ports : Holds(p, q)) => Names \subseteq objects \cup dropped

(* A view is refused only if another client has dropped a table that it    *)
(* reads, never because the statements come in the wrong order or another  *)
(* process is not as far (schema.go:13-42).                                *)
ViewsAfterTables ==
  \A p \in Procs : pc[p] = "exec" => Statement(p).reads \subseteq objects \cup dropped

(* When the faults are over, every host has PostgreSQL and the native      *)
(* protocol served by one process, and HTTP too, unless the HTTP server of *)
(* that process has failed, which does not end the process                 *)
(* (main.go:41-101, 95-103, http_server.go:50-66).                         *)
Complete(p) ==
  /\ pc[p] = "ready"
  /\ "pg" \in Enabled[p] => Holds(p, "pg")
  /\ "ch" \in Enabled[p] => Holds(p, "native") /\ (http[p] = "failed" \/ Holds(p, "http"))
EventuallyServes ==
  \A h \in Hosts : <>[](\E p \in Procs : HostOf[p] = h /\ Complete(p))
=============================================================================
