------------------------- MODULE RegistrationStore -------------------------
(***************************************************************************)
(* What reg_svc_req of the broker keeps of a registration, in memory and   *)
(* in the database broker.db: a row of table ServiceRegistration, and then *)
(* one row of table Services for each service, which refers to it by the   *)
(* id that SELECT MAX(id) finds and a temporary table Variables holds.     *)
(*                                                                         *)
(* There is no transaction: every statement is committed when it is done,  *)
(* and the process may end between two of them.  A statement may fail; the *)
(* rest of its sqlite3_exec is then skipped, the error reported, and the   *)
(* function goes on.  The statements are longer than the buffer they are   *)
(* formatted into (register_service.c:75): a statement garbled that way    *)
(* fails as well, and a process that it ends is one that is stopped.       *)
(***************************************************************************)
EXTENDS Naturals, Sequences

CONSTANTS
  MaxRegistrations,  \* bound on the registrations that arrive
  MaxStops,          \* bound on the times the broker ends
  NumServices        \* NumServices[r]: services of the r-th registration

ASSUME RegistrationStoreAssumption ==
  /\ MaxRegistrations \in Nat
  /\ MaxStops \in Nat
  /\ NumServices \in [1..MaxRegistrations -> Nat]

VARIABLES
  svc_repo,             \* registrations in memory
  ServiceRegistration,  \* its rows, by id: the registration in each
  Services,             \* its rows: id referred to, registration, service
  Variables,            \* the value in table Variables, if there is one
  at,                   \* statement that comes next, or "idle" between two
  reg,                  \* number of the registration handled last
  service,              \* number of its service that comes next
  failed,               \* registrations with an error reported
  acknowledged,         \* registrations acknowledged
  stops                 \* how often the broker has ended

handled == <<at, reg, service>>
tables == <<ServiceRegistration, Services, Variables>>
vars == <<svc_repo, tables, handled, failed, acknowledged, stops>>

Registration == 1..MaxRegistrations

Init ==
  /\ svc_repo = <<>>
  /\ ServiceRegistration = <<>> /\ Services = <<>> /\ Variables = <<>>
  /\ at = "idle" /\ reg = 0 /\ service = 1
  /\ failed = {} /\ acknowledged = {}
  /\ stops = 0

-----------------------------------------------------------------------------

\* A registration arrives, and LIST_Add puts it in memory.
LIST_Add ==
  /\ at = "idle"
  /\ reg < MaxRegistrations
  /\ reg' = reg + 1
  /\ svc_repo' = Append(svc_repo, reg + 1)
  /\ at' = "registration" /\ service' = 1
  /\ UNCHANGED <<tables, failed, acknowledged, stops>>

\* Mutant: the loop over the services leaves out the last one.
LastLeftOut(k) == IF k < NumServices[reg] THEN "variable" ELSE "acknowledge"

\* Where the loop over the services goes with its k-th round.
Round(k) == IF k <= NumServices[reg] THEN "variable" ELSE "acknowledge"

InsertRegistration ==
  /\ at = "registration"
  /\ ServiceRegistration' = Append(ServiceRegistration, reg)
  /\ at' = Round(service)
  /\ UNCHANGED <<svc_repo, Services, Variables, reg, service, failed,
                 acknowledged, stops>>

\* Mutant: INSERT OR IGNORE, and a DROP TABLE that failed leaves the old value.
InsertOrIgnore ==
  Variables' = IF Variables = <<>> THEN <<Len(ServiceRegistration)>> ELSE Variables

\* INSERT OR REPLACE, with MAX(id): ids are given in order, and no row is ever
\* deleted.  In an empty table it is NULL, and coalesce yields the name of the
\* variable, which is no id; 0 stands for it.
InsertOrReplace == Variables' = <<Len(ServiceRegistration)>>

SetVariable ==
  /\ at = "variable"
  /\ InsertOrReplace
  /\ at' = "service"
  /\ UNCHANGED <<svc_repo, ServiceRegistration, Services, reg, service, failed,
                 acknowledged, stops>>

InsertService ==
  /\ at = "service"
  /\ Services' = Append(Services, [id |-> Variables[1], reg |-> reg, no |-> service])
  /\ at' = "drop"
  /\ UNCHANGED <<svc_repo, ServiceRegistration, Variables, reg, service, failed,
                 acknowledged, stops>>

DropVariables ==
  /\ at = "drop"
  /\ Variables' = <<>>
  /\ service' = service + 1
  /\ at' = Round(service + 1)
  /\ UNCHANGED <<svc_repo, ServiceRegistration, Services, reg, failed,
                 acknowledged, stops>>

\* Mutant: a registration with an error is not acknowledged.
GiveUp ==
  /\ at \notin {"idle", "acknowledge"}
  /\ failed' = failed \cup {reg}
  /\ at' = "idle"
  /\ UNCHANGED <<svc_repo, tables, reg, service, acknowledged, stops>>

\* report_sqlexec_errors: a statement fails, and the function goes on with the
\* next sqlite3_exec.
ReportError ==
  /\ at \notin {"idle", "acknowledge"}
  /\ failed' = failed \cup {reg}
  /\ service' = IF at = "registration" THEN service ELSE service + 1
  /\ at' = Round(service')
  /\ UNCHANGED <<svc_repo, tables, reg, acknowledged, stops>>

\* A query for the rows that are there now, which changes nothing, and
\* send_svc_req_ack, whether or not there was an error.
SendAck ==
  /\ at = "acknowledge"
  /\ acknowledged' = acknowledged \cup {reg}
  /\ at' = "idle"
  /\ UNCHANGED <<svc_repo, tables, reg, service, failed, stops>>

\* The broker ends, at any statement, and is started again: the repository in
\* memory and the temporary table are gone.
Restart ==
  /\ stops < MaxStops
  /\ stops' = stops + 1
  /\ svc_repo' = <<>> /\ Variables' = <<>>
  /\ at' = "idle"
  /\ UNCHANGED <<ServiceRegistration, Services, reg, service, failed,
                 acknowledged>>

reg_svc_req ==
  \/ InsertRegistration
  \/ SetVariable
  \/ InsertService
  \/ DropVariables
  \/ ReportError
  \/ SendAck

Next == LIST_Add \/ reg_svc_req \/ Restart

Spec == Init /\ [][Next]_vars /\ WF_vars(reg_svc_req)

-----------------------------------------------------------------------------
(* Properties.                                                             *)

RowsOf(r) == {i \in DOMAIN ServiceRegistration : ServiceRegistration[i] = r}

\* A row of Services refers to the last row of ServiceRegistration that is not
\* of a later registration than its own, whatever statement left table Variables
\* behind, and wherever the broker was stopped (register_service.c:90-93).  This
\* is the row of its own registration, unless the INSERT of that failed: the
\* services are written all the same, with the id of an earlier registration,
\* or 0 when there is none.
ServicesAttributed ==
  \A i \in DOMAIN Services :
    /\ Services[i].id \in 0..Len(ServiceRegistration)
    /\ \A j \in DOMAIN ServiceRegistration :
         j <= Services[i].id <=> ServiceRegistration[j] <= Services[i].reg

\* The rows of table Services that belong to registration r.
ServiceRowsOf(r) == {i \in DOMAIN Services : Services[i].reg = r}

\* A registration that was acknowledged without an error is in the database as
\* it arrived: one row, and one row for each of its services, in their order.
AcknowledgedIsStored ==
  \A r \in acknowledged \ failed :
    /\ \E i \in DOMAIN ServiceRegistration : RowsOf(r) = {i}
    /\ {Services[i].no : i \in ServiceRowsOf(r)} = 1..NumServices[r]
    /\ \A i, j \in ServiceRowsOf(r) : i < j => Services[i].no < Services[j].no

\* A registration in memory is acknowledged in the end, whatever statement
\* failed, unless the broker is stopped (register_service.c:103).
StoredIsAcknowledged ==
  \A r \in Registration :
    (\E i \in DOMAIN svc_repo : svc_repo[i] = r)
      ~> (r \in acknowledged \/ stops > 0)
=============================================================================
