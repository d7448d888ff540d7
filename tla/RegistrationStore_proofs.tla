---------------------- MODULE RegistrationStore_proofs ----------------------
(***************************************************************************)
(* Proofs about what the database holds, for any number of registrations,  *)
(* services, failed statements and stops of the broker: which row each row *)
(* of table Services refers to, and that a registration acknowledged       *)
(* without an error is stored completely.                                  *)
(*                                                                         *)
(* The rows of ServiceRegistration are in the order of arrival, and the    *)
(* one of the registration at hand can only be the last of them, which is  *)
(* the one that SELECT MAX(id) finds; its services come after it.          *)
(***************************************************************************)
EXTENDS RegistrationStore, TLAPS

ServiceRow == [id : Nat, reg : Nat, no : Nat]

StoreTypeOK ==
  /\ ServiceRegistration \in Seq(Nat)
  /\ Services \in Seq(ServiceRow)
  /\ reg \in Nat /\ service \in Nat

\* The row of reg is written after those of the earlier registrations, and
\* before any row of its services.
RowsInOrder ==
  /\ \A i \in 1..Len(ServiceRegistration) :
       /\ ServiceRegistration[i] <= reg
       /\ at = "registration" => ServiceRegistration[i] < reg
  /\ \A i, j \in 1..Len(ServiceRegistration) :
       i < j => ServiceRegistration[i] < ServiceRegistration[j]
  /\ \A i \in 1..Len(Services) :
       /\ Services[i].reg <= reg
       /\ at = "registration" => Services[i].reg < reg

VariableIsMax ==
  at = "service" => Variables = <<Len(ServiceRegistration)>>

Attributed ==
  \A i \in 1..Len(Services) :
    /\ Services[i].id \in 0..Len(ServiceRegistration)
    /\ \A j \in 1..Len(ServiceRegistration) :
         j <= Services[i].id <=> ServiceRegistration[j] <= Services[i].reg

StoreInv == StoreTypeOK /\ RowsInOrder /\ VariableIsMax /\ Attributed

-----------------------------------------------------------------------------

LEMMA AttributedMeans == StoreTypeOK => (ServicesAttributed <=> Attributed)
<1> SUFFICES ASSUME StoreTypeOK
             PROVE  ServicesAttributed <=> Attributed
  OBVIOUS
<1>1. /\ DOMAIN Services = 1..Len(Services)
      /\ DOMAIN ServiceRegistration = 1..Len(ServiceRegistration)
  BY DEF StoreTypeOK
<1> QED
  BY <1>1, Zenon DEF ServicesAttributed, Attributed

LEMMA ServiceRowFields ==
  ASSUME StoreTypeOK
  PROVE  \A i \in 1..Len(Services) : Services[i].reg \in Nat
<1> SUFFICES ASSUME NEW i \in 1..Len(Services)
             PROVE  Services[i].reg \in Nat
  OBVIOUS
<1>1. Services[i] \in ServiceRow
  BY DEF StoreTypeOK
<1> QED
  BY <1>1 DEF ServiceRow

LEMMA StoreInvInit == Init => StoreInv
BY DEF Init, StoreInv, StoreTypeOK, RowsInOrder, VariableIsMax, Attributed

LEMMA ListAddInv ==
  ASSUME StoreInv, LIST_Add
  PROVE  StoreInv'
<1>1. StoreTypeOK' /\ reg' = reg + 1 /\ UNCHANGED <<ServiceRegistration, Services>>
  BY DEF StoreInv, StoreTypeOK, LIST_Add, tables
<1>2. RowsInOrder'
  <2>1. \A i \in 1..Len(ServiceRegistration) :
          ServiceRegistration[i] \in Nat /\ ServiceRegistration[i] <= reg
    BY DEF StoreInv, StoreTypeOK, RowsInOrder
  <2>2. \A i \in 1..Len(Services) :
          Services[i].reg \in Nat /\ Services[i].reg <= reg
    BY ServiceRowFields DEF StoreInv, RowsInOrder
  <2> QED
    BY <1>1, <2>1, <2>2 DEF StoreInv, StoreTypeOK, RowsInOrder
<1>3. VariableIsMax'
  BY DEF LIST_Add, VariableIsMax
<1>4. Attributed'
  BY <1>1 DEF StoreInv, Attributed
<1> QED
  BY <1>1, <1>2, <1>3, <1>4 DEF StoreInv

LEMMA InsertRegistrationInv ==
  ASSUME StoreInv, InsertRegistration
  PROVE  StoreInv'
<1> DEFINE n == Len(ServiceRegistration)
<1>1. /\ ServiceRegistration' = Append(ServiceRegistration, reg)
      /\ at = "registration" /\ at' \in {"variable", "acknowledge"}
      /\ UNCHANGED <<Services, reg, service>>
  BY DEF InsertRegistration, Round
<1>2. StoreTypeOK' /\ n \in Nat
  BY <1>1 DEF StoreInv, StoreTypeOK
<1>3. /\ Len(ServiceRegistration') = n + 1
      /\ \A i \in 1..n : ServiceRegistration'[i] = ServiceRegistration[i]
      /\ ServiceRegistration'[n + 1] = reg
  BY <1>1, <1>2 DEF StoreInv, StoreTypeOK
<1>4. /\ \A i \in 1..n : ServiceRegistration[i] \in Nat /\ ServiceRegistration[i] < reg
      /\ \A i, j \in 1..n : i < j => ServiceRegistration[i] < ServiceRegistration[j]
      /\ \A i \in 1..Len(Services) :
           Services[i].reg \in Nat /\ Services[i].reg < reg
  <2>1. \A i \in 1..Len(Services) : Services[i].reg \in Nat
    BY ServiceRowFields DEF StoreInv
  <2>2. \A i \in 1..n : ServiceRegistration[i] \in Nat
    BY DEF StoreInv, StoreTypeOK
  <2> QED
    BY <1>1, <2>1, <2>2 DEF StoreInv, RowsInOrder
<1>5. reg \in Nat
  BY DEF StoreInv, StoreTypeOK
<1> HIDE DEF n
<1>6. RowsInOrder'
  <2>1. \A i \in 1..(n + 1) : i \in 1..n \/ i = n + 1
    BY <1>2
  <2>2. \A i \in 1..(n + 1) : ServiceRegistration'[i] <= reg
    BY <1>3, <1>4, <1>5, <2>1
  <2>3. ASSUME NEW i \in 1..(n + 1), NEW j \in 1..(n + 1), i < j
        PROVE  ServiceRegistration'[i] < ServiceRegistration'[j]
    <3>1. i \in 1..n
      BY <1>2, <2>3
    <3> QED
      BY <1>3, <1>4, <2>1, <2>3, <3>1
  <2>4. \A i \in 1..Len(Services) : Services[i].reg <= reg
    BY <1>4, <1>5
  <2> QED
    BY <1>1, <1>3, <2>2, <2>3, <2>4 DEF RowsInOrder
<1>7. VariableIsMax'
  BY <1>1 DEF VariableIsMax
<1>8. Attributed'
  <2> SUFFICES ASSUME NEW i \in 1..Len(Services)
               PROVE  /\ Services[i].id \in 0..(n + 1)
                      /\ \A j \in 1..(n + 1) :
                           j <= Services[i].id
                             <=> ServiceRegistration'[j] <= Services[i].reg
    BY <1>1, <1>3 DEF Attributed
  <2>1. /\ Services[i].id \in 0..n
        /\ \A j \in 1..n :
             j <= Services[i].id <=> ServiceRegistration[j] <= Services[i].reg
    BY DEF StoreInv, Attributed, n
  <2>2. Services[i].reg \in Nat /\ Services[i].reg < reg
    BY <1>4
  <2>3. ASSUME NEW j \in 1..(n + 1)
        PROVE  j <= Services[i].id
                 <=> ServiceRegistration'[j] <= Services[i].reg
    <3>1. CASE j \in 1..n
      BY <1>3, <2>1, <3>1
    <3>2. CASE j = n + 1
      BY <1>2, <1>3, <1>5, <2>1, <2>2, <3>2
    <3> QED
      BY <1>2, <3>1, <3>2
  <2> QED
    BY <1>2, <2>1, <2>3
<1> QED
  BY <1>2, <1>6, <1>7, <1>8 DEF StoreInv

LEMMA InsertServiceInv ==
  ASSUME StoreInv, InsertService
  PROVE  StoreInv'
<1> DEFINE n == Len(ServiceRegistration)
           m == Len(Services)
           row == [id |-> n, reg |-> reg, no |-> service]
<1>1. /\ Services' = Append(Services, row)
      /\ at' = "drop"
      /\ UNCHANGED <<ServiceRegistration, reg, service>>
  BY DEF StoreInv, VariableIsMax, InsertService
<1>2. n \in Nat /\ m \in Nat /\ reg \in Nat /\ row \in ServiceRow
  BY DEF StoreInv, StoreTypeOK, ServiceRow
<1>3. StoreTypeOK'
  BY <1>1, <1>2 DEF StoreInv, StoreTypeOK
<1>4. /\ Len(Services') = m + 1
      /\ \A i \in 1..m : Services'[i] = Services[i]
      /\ Services'[m + 1].reg = reg /\ Services'[m + 1].id = n
  BY <1>1, <1>2 DEF StoreInv, StoreTypeOK
<1>5. /\ \A i \in 1..n : /\ ServiceRegistration[i] \in Nat
                         /\ ServiceRegistration[i] <= reg
      /\ \A i, j \in 1..n : i < j => ServiceRegistration[i] < ServiceRegistration[j]
      /\ \A i \in 1..m : Services[i].reg <= reg
      /\ \A i \in 1..m :
           /\ Services[i].id \in 0..n
           /\ \A j \in 1..n :
                j <= Services[i].id <=> ServiceRegistration[j] <= Services[i].reg
  BY DEF StoreInv, StoreTypeOK, RowsInOrder, Attributed
<1> HIDE DEF n, m, row
<1>6. \A i \in 1..(m + 1) : i \in 1..m \/ i = m + 1
  BY <1>2
<1>7. RowsInOrder'
  <2>1. \A i \in 1..(m + 1) : Services'[i].reg <= reg
    BY <1>2, <1>4, <1>5, <1>6
  <2> QED
    BY <1>1, <1>4, <1>5, <2>1 DEF RowsInOrder, n
<1>8. VariableIsMax'
  BY <1>1 DEF VariableIsMax
<1>9. Attributed'
  <2> SUFFICES ASSUME NEW i \in 1..(m + 1)
               PROVE  /\ Services'[i].id \in 0..n
                      /\ \A j \in 1..n :
                           j <= Services'[i].id
                             <=> ServiceRegistration[j] <= Services'[i].reg
    BY <1>1, <1>4 DEF Attributed, n
  <2>1. CASE i \in 1..m
    BY <1>4, <1>5, <2>1
  <2>2. CASE i = m + 1
    BY <1>2, <1>4, <1>5, <2>2
  <2> QED
    BY <1>6, <2>1, <2>2
<1> QED
  BY <1>3, <1>7, <1>8, <1>9 DEF StoreInv

\* What the other steps leave as it is.
LEMMA RowsUnchangedInv ==
  ASSUME StoreInv, UNCHANGED <<ServiceRegistration, Services, reg>>,
         service' \in Nat, at' # "registration" \/ at' = at, VariableIsMax'
  PROVE  StoreInv'
<1>1. StoreTypeOK'
  BY DEF StoreInv, StoreTypeOK
<1>2. RowsInOrder'
  BY DEF StoreInv, RowsInOrder
<1>3. Attributed'
  BY DEF StoreInv, Attributed
<1> QED
  BY <1>1, <1>2, <1>3 DEF StoreInv

LEMMA StoreInvNext == StoreInv /\ [Next]_vars => StoreInv'
<1> SUFFICES ASSUME StoreInv, [Next]_vars
             PROVE  StoreInv'
  OBVIOUS
<1>0. service \in Nat
  BY DEF StoreInv, StoreTypeOK
<1>1. CASE LIST_Add
  BY <1>1, ListAddInv
<1>2. CASE InsertRegistration
  BY <1>2, InsertRegistrationInv
<1>3. CASE SetVariable
  <2>1. VariableIsMax'
    BY <1>3 DEF SetVariable, InsertOrReplace, VariableIsMax
  <2> QED
    BY <1>0, <1>3, <2>1, RowsUnchangedInv DEF SetVariable
<1>4. CASE InsertService
  BY <1>4, InsertServiceInv
<1>5. CASE DropVariables
  <2>1. at' \in {"variable", "acknowledge"} /\ VariableIsMax'
    BY <1>5 DEF DropVariables, Round, VariableIsMax
  <2> QED
    BY <1>0, <1>5, <2>1, RowsUnchangedInv DEF DropVariables
<1>6. CASE ReportError
  <2>1. at' \in {"variable", "acknowledge"} /\ VariableIsMax'
    BY <1>6 DEF ReportError, Round, VariableIsMax
  <2>2. service' \in Nat
    BY <1>0, <1>6 DEF ReportError
  <2> QED
    BY <1>6, <2>1, <2>2, RowsUnchangedInv DEF ReportError, tables
<1>7. CASE SendAck
  <2>1. VariableIsMax'
    BY <1>7 DEF SendAck, VariableIsMax
  <2> QED
    BY <1>0, <1>7, <2>1, RowsUnchangedInv DEF SendAck, tables
<1>8. CASE Restart
  <2>1. VariableIsMax'
    BY <1>8 DEF Restart, VariableIsMax
  <2> QED
    BY <1>0, <1>8, <2>1, RowsUnchangedInv DEF Restart
<1>9. CASE UNCHANGED vars
  <2>1. VariableIsMax'
    BY <1>9 DEF vars, tables, handled, StoreInv, VariableIsMax
  <2> QED
    BY <1>0, <1>9, <2>1, RowsUnchangedInv DEF vars, tables, handled
<1> QED
  BY <1>1, <1>2, <1>3, <1>4, <1>5, <1>6, <1>7, <1>8, <1>9
  DEF Next, reg_svc_req

\* For any failed statements and stops of the broker, a row of Services refers to
\* its own registration when that has a row, and otherwise to the latest earlier
\* one that has, or to none (register_service.c:81-98): never to a later one, and
\* never to what an earlier statement left in table Variables.
THEOREM OwnRegistration == Spec => []ServicesAttributed
<1>1. StoreInv => ServicesAttributed
  BY AttributedMeans DEF StoreInv
<1> QED
  BY <1>1, StoreInvInit, StoreInvNext, PTL DEF Spec

-----------------------------------------------------------------------------
(* What is acknowledged is stored.                                         *)

OneRow(r) == \E i \in DOMAIN ServiceRegistration : RowsOf(r) = {i}

\* The rows of Services for r are those of its first n services, in order.
Stored(r, n) ==
  /\ {Services[i].no : i \in ServiceRowsOf(r)} = 1..n
  /\ \A i, j \in ServiceRowsOf(r) : i < j => Services[i].no < Services[j].no

\* How many services of the present registration have been written.
Written == IF at = "drop" THEN service ELSE service - 1

\* What has been written of the present registration, if no statement failed.
Handling ==
  IF at = "registration"
  THEN service = 1
  ELSE /\ OneRow(reg)
       /\ Stored(reg, Written)
       /\ service >= 1
       /\ IF at = "acknowledge" THEN service = NumServices[reg] + 1
                                ELSE service <= NumServices[reg]

StoredInv ==
  /\ at \in {"idle", "registration", "variable", "service", "drop", "acknowledge"}
  /\ reg <= MaxRegistrations
  /\ at # "idle" => reg >= 1
  /\ acknowledged \subseteq Nat
  /\ \A r \in acknowledged : r <= reg /\ (at # "idle" => r # reg)
  /\ at # "idle" /\ reg \notin failed => Handling
  /\ \A r \in acknowledged \ failed : OneRow(r) /\ Stored(r, NumServices[r])

LEMMA OneRowKept ==
  ASSUME StoreTypeOK, NEW r, NEW x \in Nat, r # x, OneRow(r),
         ServiceRegistration' = Append(ServiceRegistration, x)
  PROVE  OneRow(r)'
<1> DEFINE n == Len(ServiceRegistration)
<1>1. n \in Nat /\ DOMAIN ServiceRegistration = 1..n
  BY DEF StoreTypeOK
<1>2. /\ DOMAIN ServiceRegistration' = 1..(n + 1)
      /\ \A i \in 1..n : ServiceRegistration'[i] = ServiceRegistration[i]
      /\ ServiceRegistration'[n + 1] = x
  BY DEF StoreTypeOK
<1> HIDE DEF n
<1>3. RowsOf(r)' = RowsOf(r)
  <2>1. \A i \in 1..(n + 1) : i \in 1..n \/ i = n + 1
    BY <1>1
  <2> QED
    BY <1>1, <1>2, <2>1 DEF RowsOf
<1>4. 1..n \subseteq 1..(n + 1)
  BY <1>1
<1> QED
  BY <1>1, <1>2, <1>3, <1>4 DEF OneRow

LEMMA OneRowMade ==
  ASSUME StoreTypeOK, NEW x \in Nat,
         \A i \in 1..Len(ServiceRegistration) : ServiceRegistration[i] # x,
         ServiceRegistration' = Append(ServiceRegistration, x)
  PROVE  OneRow(x)'
<1> DEFINE n == Len(ServiceRegistration)
<1>1. n \in Nat
  BY DEF StoreTypeOK
<1>2. /\ DOMAIN ServiceRegistration' = 1..(n + 1)
      /\ \A i \in 1..n : ServiceRegistration'[i] # x
      /\ ServiceRegistration'[n + 1] = x
  BY DEF StoreTypeOK
<1> HIDE DEF n
<1>3. RowsOf(x)' = {n + 1}
  <2>1. \A i \in 1..(n + 1) : i \in 1..n \/ i = n + 1
    BY <1>1
  <2>2. n + 1 \in 1..(n + 1)
    BY <1>1
  <2> QED
    BY <1>1, <1>2, <2>1, <2>2 DEF RowsOf
<1>4. n + 1 \in DOMAIN ServiceRegistration'
  BY <1>1, <1>2
<1> QED
  BY <1>3, <1>4 DEF OneRow

\* What a new row of Services changes.
LEMMA RowAppended ==
  ASSUME StoreTypeOK, NEW row \in ServiceRow, Services' = Append(Services, row),
         NEW r
  PROVE  LET m == Len(Services)
         IN  /\ m \in Nat
             /\ ServiceRowsOf(r) \subseteq 1..m
             /\ \A i \in 1..m : Services'[i] = Services[i]
             /\ Services'[m + 1] = row
             /\ ServiceRowsOf(r)' = IF row.reg = r
                                    THEN ServiceRowsOf(r) \cup {m + 1}
                                    ELSE ServiceRowsOf(r)
<1> DEFINE m == Len(Services)
<1>1. m \in Nat /\ DOMAIN Services = 1..m
  BY DEF StoreTypeOK
<1>2. /\ DOMAIN Services' = 1..(m + 1)
      /\ \A i \in 1..m : Services'[i] = Services[i]
      /\ Services'[m + 1] = row
  BY DEF StoreTypeOK
<1> HIDE DEF m
<1>3. 1..(m + 1) = (1..m) \cup {m + 1} /\ m + 1 \notin 1..m
  BY <1>1
<1>4. ServiceRowsOf(r) = {i \in 1..m : Services[i].reg = r}
  BY <1>1 DEF ServiceRowsOf
<1>5. ServiceRowsOf(r)' = {i \in 1..(m + 1) : Services'[i].reg = r}
  BY <1>2 DEF ServiceRowsOf
<1>6. ServiceRowsOf(r)' = IF row.reg = r THEN ServiceRowsOf(r) \cup {m + 1}
                                         ELSE ServiceRowsOf(r)
  BY <1>2, <1>3, <1>4, <1>5
<1> QED
  BY <1>1, <1>2, <1>4, <1>6 DEF m

LEMMA StoredKept ==
  ASSUME StoreTypeOK, NEW row \in ServiceRow, Services' = Append(Services, row),
         NEW r, row.reg # r, NEW n, Stored(r, n)
  PROVE  Stored(r, n)'
<1>1. /\ ServiceRowsOf(r)' = ServiceRowsOf(r)
      /\ \A i \in ServiceRowsOf(r) : Services'[i] = Services[i]
  BY RowAppended
<1>2. {Services'[i].no : i \in ServiceRowsOf(r)'}
        = {Services[i].no : i \in ServiceRowsOf(r)}
  BY <1>1
<1> QED
  BY <1>1, <1>2 DEF Stored

LEMMA StoredNext ==
  ASSUME StoreTypeOK, NEW row \in ServiceRow, Services' = Append(Services, row),
         NEW n \in Nat, Stored(row.reg, n), row.no = n + 1
  PROVE  Stored(row.reg, n + 1)'
<1> DEFINE m == Len(Services)
<1>0. PICK r : r = row.reg
  OBVIOUS
<1>1. /\ m \in Nat /\ ServiceRowsOf(r) \subseteq 1..m
      /\ \A i \in 1..m : Services'[i] = Services[i]
      /\ Services'[m + 1] = row
      /\ ServiceRowsOf(r)' = ServiceRowsOf(r) \cup {m + 1}
  BY <1>0, RowAppended
<1>2. /\ {Services[i].no : i \in ServiceRowsOf(r)} = 1..n
      /\ \A i, j \in ServiceRowsOf(r) : i < j => Services[i].no < Services[j].no
  BY <1>0 DEF Stored
<1> HIDE DEF m
<1>3. {Services'[i].no : i \in ServiceRowsOf(r)'} = 1..(n + 1)
  <2>1. {Services'[i].no : i \in ServiceRowsOf(r)'}
          = {Services[i].no : i \in ServiceRowsOf(r)} \cup {n + 1}
    BY <1>1
  <2>2. (1..n) \cup {n + 1} = 1..(n + 1)
    OBVIOUS
  <2> QED
    BY <1>2, <2>1, <2>2
<1>4. ASSUME NEW i \in ServiceRowsOf(r)', NEW j \in ServiceRowsOf(r)', i < j
      PROVE  Services'[i].no < Services'[j].no
  <2>1. i \in ServiceRowsOf(r) /\ i \in 1..m
    BY <1>1, <1>4
  <2>2. CASE j = m + 1
    <3>1. Services[i].no \in 1..n
      BY <1>2, <2>1
    <3>2. Services'[j].no = n + 1 /\ Services'[i].no = Services[i].no
      BY <1>1, <2>1, <2>2
    <3> QED
      BY <3>1, <3>2
  <2>3. CASE j \in ServiceRowsOf(r)
    BY <1>1, <1>2, <1>4, <2>1, <2>3
  <2> QED
    BY <1>1, <2>2, <2>3
<1>5. Stored(r, n + 1)'
  BY <1>3, <1>4 DEF Stored
<1> QED
  BY <1>0, <1>5

LEMMA StoredInvInit == Init => StoredInv
<1> SUFFICES ASSUME Init
             PROVE  StoredInv
  OBVIOUS
<1>1. reg <= MaxRegistrations
  BY RegistrationStoreAssumption DEF Init
<1> QED
  BY <1>1 DEF Init, StoredInv

\* What the steps that write no row do not change.
LEMMA AcknowledgedKept ==
  ASSUME StoredInv, UNCHANGED <<ServiceRegistration, Services>>
  PROVE  \A r \in acknowledged \ failed :
           OneRow(r)' /\ Stored(r, NumServices[r])'
BY DEF StoredInv, OneRow, RowsOf, Stored, ServiceRowsOf

LEMMA ListAddStored ==
  ASSUME StoreInv, StoredInv, LIST_Add
  PROVE  StoredInv'
<1>1. /\ at = "idle" /\ at' = "registration" /\ reg < MaxRegistrations
      /\ reg' = reg + 1 /\ service' = 1
      /\ UNCHANGED <<tables, failed, acknowledged>>
  BY DEF LIST_Add
<1>2. reg \in Nat
  BY DEF StoreInv, StoreTypeOK
<1>3. \A r \in acknowledged' : r <= reg' /\ r # reg'
  BY <1>1, <1>2 DEF StoredInv
<1>4. reg' <= MaxRegistrations /\ reg' >= 1
  BY <1>1, <1>2, RegistrationStoreAssumption
<1>5. Handling'
  BY <1>1 DEF Handling
<1>6. \A r \in (acknowledged \ failed)' : OneRow(r)' /\ Stored(r, NumServices[r])'
  BY <1>1, AcknowledgedKept DEF tables
<1>7. acknowledged' \subseteq Nat
  BY <1>1 DEF StoredInv
<1> QED
  BY <1>1, <1>3, <1>4, <1>5, <1>6, <1>7 DEF StoredInv

LEMMA InsertRegistrationStored ==
  ASSUME StoreInv, StoredInv, InsertRegistration
  PROVE  StoredInv'
<1>1. /\ at = "registration" /\ at' = Round(service)
      /\ ServiceRegistration' = Append(ServiceRegistration, reg)
      /\ UNCHANGED <<Services, reg, service, failed, acknowledged>>
  BY DEF InsertRegistration
<1>2. /\ StoreTypeOK /\ reg \in 1..MaxRegistrations /\ reg \in Nat
      /\ NumServices[reg] \in Nat
      /\ \A r \in acknowledged : r # reg
  BY <1>1, RegistrationStoreAssumption DEF StoreInv, StoreTypeOK, StoredInv
<1>3. \A r \in acknowledged \ failed : OneRow(r)' /\ Stored(r, NumServices[r])'
  <2> SUFFICES ASSUME NEW r \in acknowledged \ failed
               PROVE  OneRow(r)' /\ Stored(r, NumServices[r])'
    OBVIOUS
  <2>1. OneRow(r) /\ Stored(r, NumServices[r]) /\ r # reg
    BY <1>2 DEF StoredInv
  <2>2. OneRow(r)'
    BY <1>1, <1>2, <2>1, OneRowKept
  <2> QED
    BY <1>1, <2>1, <2>2 DEF Stored, ServiceRowsOf
<1>4. ASSUME reg \notin failed
      PROVE  Handling'
  <2>1. service = 1
    BY <1>1, <1>4 DEF StoredInv, Handling
  <2>2. OneRow(reg)'
    <3>1. \A i \in 1..Len(ServiceRegistration) : ServiceRegistration[i] # reg
      BY <1>1, <1>2 DEF StoreInv, StoreTypeOK, RowsInOrder
    <3>2. \A x : x = reg => OneRow(x)'
      BY <1>1, <1>2, <3>1, OneRowMade
    <3> QED
      BY <1>1, <3>2 DEF OneRow, RowsOf
  <2>3. Stored(reg, Written)'
    <3>1. ServiceRowsOf(reg) = {}
      <4>1. \A i \in 1..Len(Services) : Services[i].reg # reg
        BY <1>1, <1>2, ServiceRowFields DEF StoreInv, RowsInOrder
      <4>2. DOMAIN Services = 1..Len(Services)
        BY <1>2 DEF StoreTypeOK
      <4> QED
        BY <4>1, <4>2 DEF ServiceRowsOf
    <3>2. ServiceRowsOf(reg)' = {}
      BY <1>1, <3>1 DEF ServiceRowsOf
    <3>3. Written' = 0 /\ 1..0 = {}
      BY <1>1, <2>1 DEF Written, Round
    <3> QED
      BY <3>2, <3>3 DEF Stored
  <2>4. at' \in {"variable", "acknowledge"}
    BY <1>1 DEF Round
  <2>5. /\ service' >= 1
        /\ IF at' = "acknowledge" THEN service' = NumServices[reg'] + 1
                                  ELSE service' <= NumServices[reg']
    BY <1>1, <1>2, <2>1 DEF Round
  <2> QED
    BY <2>2, <2>3, <2>4, <2>5 DEF Handling
<1>5. at' \in {"variable", "acknowledge"}
  BY <1>1 DEF Round
<1>6. /\ reg' <= MaxRegistrations /\ reg' >= 1 /\ acknowledged' \subseteq Nat
      /\ \A r \in acknowledged' : r <= reg' /\ r # reg'
  BY <1>1, <1>2 DEF StoredInv
<1> QED
  BY <1>1, <1>3, <1>4, <1>5, <1>6 DEF StoredInv

LEMMA InsertServiceStored ==
  ASSUME StoreInv, StoredInv, InsertService
  PROVE  StoredInv'
<1>0. PICK row : row = [id |-> Len(ServiceRegistration), reg |-> reg, no |-> service]
  OBVIOUS
<1>1. /\ at = "service" /\ at' = "drop"
      /\ Services' = Append(Services, row)
      /\ UNCHANGED <<ServiceRegistration, reg, service, failed, acknowledged>>
  BY <1>0 DEF StoreInv, VariableIsMax, InsertService
<1>2. /\ StoreTypeOK /\ row \in ServiceRow /\ row.reg = reg /\ row.no = service
      /\ service \in Nat
      /\ \A r \in acknowledged : r # reg
  BY <1>0, <1>1 DEF StoreInv, StoreTypeOK, StoredInv, ServiceRow
<1>3. \A r \in acknowledged \ failed : OneRow(r)' /\ Stored(r, NumServices[r])'
  <2> SUFFICES ASSUME NEW r \in acknowledged \ failed
               PROVE  OneRow(r)' /\ Stored(r, NumServices[r])'
    OBVIOUS
  <2>1. OneRow(r) /\ Stored(r, NumServices[r]) /\ r # reg
    BY <1>2 DEF StoredInv
  <2>2. Stored(r, NumServices[r])'
    BY <1>1, <1>2, <2>1, StoredKept
  <2> QED
    BY <1>1, <2>1, <2>2 DEF OneRow, RowsOf
<1>4. ASSUME reg \notin failed
      PROVE  Handling'
  <2>1. /\ OneRow(reg) /\ Stored(reg, service - 1)
        /\ service >= 1 /\ service <= NumServices[reg]
    BY <1>1, <1>4 DEF StoredInv, Handling, Written
  <2>2. OneRow(reg)'
    BY <1>1, <2>1 DEF OneRow, RowsOf
  <2>3. Stored(reg, Written)'
    <3>1. PICK n \in Nat : n = service - 1 /\ service = n + 1
      BY <1>2, <2>1
    <3>2. Stored(row.reg, n)
      BY <1>2, <2>1, <3>1
    <3>3. Stored(row.reg, n + 1)'
      BY <1>1, <1>2, <3>1, <3>2, StoredNext
    <3>4. Written' = n + 1 /\ row.reg = reg'
      BY <1>1, <1>2, <3>1 DEF Written
    <3> QED
      BY <3>3, <3>4 DEF Stored, ServiceRowsOf
  <2> QED
    BY <1>1, <2>1, <2>2, <2>3 DEF Handling
<1>5. /\ reg' <= MaxRegistrations /\ reg' >= 1 /\ acknowledged' \subseteq Nat
      /\ \A r \in acknowledged' : r <= reg' /\ r # reg'
  BY <1>1, <1>2 DEF StoredInv
<1> QED
  BY <1>1, <1>3, <1>4, <1>5 DEF StoredInv

\* A step that writes no row: it goes on, with an error or without, or ends.
LEMMA RowsUnchangedStored ==
  ASSUME StoredInv, UNCHANGED <<ServiceRegistration, Services, reg, acknowledged>>,
         at' \in {"idle", "variable", "service", "drop", "acknowledge"},
         at' # "idle" => at # "idle",
         failed \subseteq failed',
         at' # "idle" /\ reg \notin failed' =>
           /\ at # "registration" /\ Written' = Written /\ service' >= 1
           /\ IF at' = "acknowledge" THEN service' = NumServices[reg] + 1
                                     ELSE service' <= NumServices[reg]
  PROVE  StoredInv'
<1>1. \A r \in (acknowledged \ failed)' : OneRow(r)' /\ Stored(r, NumServices[r])'
  BY AcknowledgedKept
<1>2. ASSUME at' # "idle", reg \notin failed'
      PROVE  Handling'
  <2>1. OneRow(reg) /\ Stored(reg, Written)
    BY <1>2 DEF StoredInv, Handling
  <2>2. OneRow(reg)' /\ Stored(reg, Written)'
    BY <1>2, <2>1 DEF OneRow, RowsOf, Stored, ServiceRowsOf
  <2> QED
    BY <1>2, <2>2 DEF Handling
<1> QED
  BY <1>1, <1>2 DEF StoredInv

LEMMA SendAckStored ==
  ASSUME StoreInv, StoredInv, SendAck
  PROVE  StoredInv'
<1>1. /\ at = "acknowledge" /\ at' = "idle"
      /\ acknowledged' = acknowledged \cup {reg}
      /\ UNCHANGED <<ServiceRegistration, Services, reg, failed>>
  BY DEF SendAck, tables
<1>2. reg \in Nat /\ service \in Nat /\ NumServices[reg] \in Nat
  <2>1. reg \in 1..MaxRegistrations
    BY <1>1, RegistrationStoreAssumption DEF StoreInv, StoreTypeOK, StoredInv
  <2> QED
    BY <2>1, RegistrationStoreAssumption DEF StoreInv, StoreTypeOK
<1>3. reg \notin failed => OneRow(reg) /\ Stored(reg, NumServices[reg])
  <2>1. reg \notin failed =>
          /\ OneRow(reg) /\ Stored(reg, Written) /\ service = NumServices[reg] + 1
    BY <1>1 DEF StoredInv, Handling
  <2>2. service = NumServices[reg] + 1 => Written = NumServices[reg]
    BY <1>1, <1>2 DEF Written
  <2> QED
    BY <2>1, <2>2
<1>4. \A r \in (acknowledged \ failed)' : OneRow(r) /\ Stored(r, NumServices[r])
  BY <1>1, <1>3 DEF StoredInv
<1>5. \A r \in (acknowledged \ failed)' : OneRow(r)' /\ Stored(r, NumServices[r])'
  BY <1>1, <1>4 DEF OneRow, RowsOf, Stored, ServiceRowsOf
<1>6. /\ reg' <= MaxRegistrations /\ acknowledged' \subseteq Nat
      /\ \A r \in acknowledged' : r <= reg'
  BY <1>1, <1>2 DEF StoredInv
<1> QED
  BY <1>1, <1>5, <1>6 DEF StoredInv

LEMMA StoredInvNext == StoreInv /\ StoredInv /\ [Next]_vars => StoredInv'
<1> SUFFICES ASSUME StoreInv, StoredInv, [Next]_vars
             PROVE  StoredInv'
  OBVIOUS
<1>0. /\ service \in Nat /\ reg \in Nat
      /\ at # "idle" => NumServices[reg] \in Nat
  <2>1. at # "idle" => reg \in 1..MaxRegistrations
    BY RegistrationStoreAssumption DEF StoreInv, StoreTypeOK, StoredInv
  <2> QED
    BY <2>1, RegistrationStoreAssumption DEF StoreInv, StoreTypeOK
<1>1. CASE LIST_Add
  BY <1>1, ListAddStored
<1>2. CASE InsertRegistration
  BY <1>2, InsertRegistrationStored
<1>3. CASE SetVariable
  <2>1. at = "variable" /\ at' = "service" /\ Written' = Written
    BY <1>3 DEF SetVariable, Written
  <2>2. reg \notin failed => Handling
    BY <2>1 DEF StoredInv
  <2> QED
    BY <1>0, <1>3, <2>1, <2>2, RowsUnchangedStored DEF SetVariable, Handling
<1>4. CASE InsertService
  BY <1>4, InsertServiceStored
<1>5. CASE DropVariables
  <2>1. /\ at = "drop" /\ at' = Round(service + 1) /\ service' = service + 1
        /\ UNCHANGED <<ServiceRegistration, Services, reg, acknowledged, failed>>
    BY <1>5 DEF DropVariables
  <2>2. Written' = Written
    BY <1>0, <2>1 DEF Written, Round
  <2>3. reg \notin failed => service <= NumServices[reg]
    BY <2>1 DEF StoredInv, Handling
  <2>4. reg \notin failed => IF at' = "acknowledge"
                             THEN service' = NumServices[reg] + 1
                             ELSE service' <= NumServices[reg]
    BY <1>0, <2>1, <2>3 DEF Round
  <2>5. at' \in {"variable", "acknowledge"} /\ service' >= 1
    BY <1>0, <2>1 DEF Round
  <2> QED
    BY <2>1, <2>2, <2>4, <2>5, RowsUnchangedStored
<1>6. CASE ReportError
  <2>1. /\ at # "idle" /\ at' \in {"variable", "acknowledge"}
        /\ failed' = failed \cup {reg}
        /\ UNCHANGED <<ServiceRegistration, Services, reg, acknowledged>>
    BY <1>6 DEF ReportError, Round, tables
  <2> QED
    BY <2>1, RowsUnchangedStored
<1>7. CASE SendAck
  BY <1>7, SendAckStored
<1>8. CASE Restart
  BY <1>8, RowsUnchangedStored DEF Restart
<1>9. CASE UNCHANGED vars
  BY <1>9 DEF vars, tables, handled, StoredInv, Handling, Written, OneRow, RowsOf,
     Stored, ServiceRowsOf
<1> QED
  BY <1>1, <1>2, <1>3, <1>4, <1>5, <1>6, <1>7, <1>8, <1>9
  DEF Next, reg_svc_req

\* A registration acknowledged without an error has one row and a row for each of
\* its services in their order, whatever other registrations failed, and wherever
\* the broker was stopped (register_service.c:85-103).
THEOREM AcknowledgedStored == Spec => []AcknowledgedIsStored
<1>1. StoredInv => AcknowledgedIsStored
  BY DEF StoredInv, AcknowledgedIsStored, OneRow, Stored
<1> QED
  BY <1>1, StoreInvInit, StoreInvNext, StoredInvInit, StoredInvNext, PTL DEF Spec
=============================================================================
