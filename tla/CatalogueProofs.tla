-------------------------- MODULE CatalogueProofs ---------------------------
(***************************************************************************)
(* Proofs about installations and the catalogue, for every value of the    *)
(* constants: the queue of jobs, the inventory of tools, the links of the  *)
(* catalogue. The three share no state; each has an invariant of its own,  *)
(* which its section states and proves inductive.                          *)
(***************************************************************************)
EXTENDS InstallJobs, ToolInstall, CatalogueSync, SequenceTheorems, TLAPS

-----------------------------------------------------------------------------
(* InstallJobs *)

Row == [ref : Refs, status : Statuses]

\* t differs from the table in statuses only.
Restated(t) ==
  /\ t \in [Databases -> Seq(Row)]
  /\ \A db \in Databases : Len(t[db]) = Len(table[db])

LEMMA RowsTyped ==
  ASSUME TypeOK
  PROVE  /\ table \in [Databases -> Seq(Row)]
         /\ \A db \in Databases :
              /\ table[db] \in Seq(Row) /\ DOMAIN table[db] = 1 .. Len(table[db])
              /\ Len(table[db]) \in 0 .. MaxJobs
              /\ \A i \in 1 .. Len(table[db]) : table[db][i] \in Row
<1>1. table \in [Databases -> Seq(Row)] /\ \A db \in Databases : Len(table[db]) <= MaxJobs
  BY DEF TypeOK, Row
<1>2. ASSUME NEW db \in Databases
      PROVE  /\ table[db] \in Seq(Row) /\ DOMAIN table[db] = 1 .. Len(table[db])
             /\ Len(table[db]) \in 0 .. MaxJobs
             /\ \A i \in 1 .. Len(table[db]) : table[db][i] \in Row
  <2>1. table[db] \in Seq(Row)
    BY <1>1
  <2> QED
    BY <2>1, <1>1, BoundsAssumption
<1> QED
  BY <1>1, <1>2

\* UPDATE ... SET status changes at most one row of one database.
LEMMA StatusSetEffect ==
  ASSUME TypeOK, NEW db \in Databases, NEW i \in Nat, NEW status \in Statuses
  PROVE  /\ Restated(StatusSet(db, i, status))
         /\ \A d \in Databases, j \in Nat : j \in DOMAIN table[d] =>
              StatusSet(db, i, status)[d][j].status =
                IF d = db /\ j = i /\ table[d][j].status # "gone" THEN status
                ELSE table[d][j].status
<1> DEFINE t == StatusSet(db, i, status)
<1>0. /\ table \in [Databases -> Seq(Row)]
      /\ table[db] \in Seq(Row) /\ DOMAIN table[db] = 1 .. Len(table[db])
  BY RowsTyped
<1>1. CASE HasStatus(db, i, Statuses \ {"gone"})
  <2>1. i \in 1 .. Len(table[db])
    BY <1>1, <1>0 DEF HasStatus
  <2>2. table[db][i] \in Row /\ [table[db][i] EXCEPT !.status = status] \in Row
    BY <2>1, RowsTyped DEF Row
  <2> DEFINE s == [table[db] EXCEPT ![i] = [table[db][i] EXCEPT !.status = status]]
  <2>3. /\ s \in Seq(Row) /\ Len(s) = Len(table[db])
        /\ \A j \in 1 .. Len(table[db]) :
             s[j] = IF j = i THEN [table[db][i] EXCEPT !.status = status] ELSE table[db][j]
    BY <2>1, <2>2, <1>0, ExceptSeq
  <2>4. t = [table EXCEPT ![db] = s]
    BY <1>1 DEF StatusSet
  <2> HIDE DEF s
  <2>5. t[db] = s /\ \A d \in Databases : d # db => t[d] = table[d]
    BY <2>4, <1>0
  <2>6. Restated(t)
    BY <1>0, <2>3, <2>4, <2>5 DEF Restated
  <2>7. ASSUME NEW d \in Databases, NEW j \in Nat, j \in DOMAIN table[d]
        PROVE  t[d][j].status = IF d = db /\ j = i /\ table[d][j].status # "gone" THEN status
                                ELSE table[d][j].status
    <3>1. CASE d = db
      <4>1. table[db][i].status # "gone" /\ table[db][i] \in Row
        BY <1>1, <2>2 DEF HasStatus
      <4>2. j \in 1 .. Len(table[db])
        BY <2>7, <3>1, <1>0
      <4>3. [table[db][i] EXCEPT !.status = status].status = status
        BY <2>2 DEF Row
      <4>4. t[db][j] = IF j = i THEN [table[db][i] EXCEPT !.status = status] ELSE table[db][j]
        BY <4>2, <2>3, <2>5
      <4> QED
        BY <4>1, <4>3, <4>4, <3>1
    <3>2. CASE d # db
      BY <3>2, <2>5
    <3> QED
      BY <3>1, <3>2
  <2> QED
    BY <2>6, <2>7
<1>2. CASE ~HasStatus(db, i, Statuses \ {"gone"})
  <2>1. t = table
    BY <1>2 DEF StatusSet
  <2>2. ASSUME NEW j \in Nat, j \in DOMAIN table[db], j = i PROVE table[db][j].status = "gone"
    BY <2>2, RowsTyped, <1>2 DEF HasStatus, Row
  <2> QED
    BY <2>1, <2>2, <1>0 DEF Restated
<1> QED
  BY <1>1, <1>2

\* DELETE touches the rows of one database that have ended.
LEMMA ClearEffect ==
  ASSUME TypeOK, NEW db \in Databases, Clear(db)
  PROVE  /\ Restated(table')
         /\ \A d \in Databases, j \in Nat : j \in DOMAIN table[d] =>
              table'[d][j].status =
                IF d = db /\ table[d][j].status \in Ended THEN "gone" ELSE table[d][j].status
<1> DEFINE s == [j \in DOMAIN table[db] |->
                   IF table[db][j].status \in Ended
                   THEN [table[db][j] EXCEPT !.status = "gone"] ELSE table[db][j]]
<1>0. /\ table \in [Databases -> Seq(Row)]
      /\ table[db] \in Seq(Row) /\ DOMAIN table[db] = 1 .. Len(table[db])
  BY RowsTyped
<1>1. \A j \in 1 .. Len(table[db]) : table[db][j] \in Row /\ s[j] \in Row
  BY RowsTyped DEF Row, Statuses
<1>2. s \in Seq(Row) /\ Len(s) = Len(table[db])
  BY <1>0, <1>1
<1>3. table' = [table EXCEPT ![db] = s]
  BY DEF Clear
<1>4. \A j \in DOMAIN table[db] :
        s[j].status = IF table[db][j].status \in Ended THEN "gone" ELSE table[db][j].status
  BY <1>0, <1>1
<1> HIDE DEF s
<1>5. table'[db] = s /\ \A d \in Databases : d # db => table'[d] = table[d]
  BY <1>0, <1>3
<1> QED
  BY <1>0, <1>2, <1>3, <1>4, <1>5 DEF Restated

-----------------------------------------------------------------------------
(* What a step does to the statuses, whatever it does besides *)

\* The ids of one database never shrink, and no row becomes queued.
Grows ==
  \A db \in Databases :
    /\ Len(table[db]) <= Len(table'[db])
    /\ \A i \in 1 .. Len(table[db]) :
         table'[db][i].status = "queued" => table[db][i].status = "queued"

LEMMA TableStep ==
  ASSUME TypeOK, [Next]_vars
  PROVE  /\ table' \in [Databases -> Seq(Row)]
         /\ \A db \in Databases : Len(table'[db]) <= MaxJobs
         /\ Grows
<1> DEFINE G == /\ table' \in [Databases -> Seq(Row)]
                /\ \A db \in Databases : Len(table'[db]) <= MaxJobs
                /\ Grows
<1>1. ASSUME UNCHANGED table PROVE G
  BY <1>1, RowsTyped DEF Grows
<1>2. ASSUME NEW cl \in Clients, Insert(cl) PROVE G
  <2> DEFINE db == Door[cl]
             entry == [ref |-> wants[cl], status |-> "queued"]
  <2>1. db \in Databases /\ entry \in Row
    BY <1>2, DoorAssumption DEF Insert, TypeOK, Row, Statuses
  <2>2. table' = [table EXCEPT ![db] = Append(table[db], entry)] /\ Len(table[db]) < MaxJobs
    BY <1>2 DEF Insert
  <2> HIDE DEF db, entry
  <2>3. /\ Append(table[db], entry) \in Seq(Row)
        /\ Len(Append(table[db], entry)) = Len(table[db]) + 1
        /\ \A i \in 1 .. Len(table[db]) : Append(table[db], entry)[i] = table[db][i]
    BY <2>1, RowsTyped, AppendProperties
  <2>4. \A d \in Databases : table'[d] = IF d = db THEN Append(table[db], entry) ELSE table[d]
    BY <2>1, <2>2, RowsTyped
  <2>5. table' \in [Databases -> Seq(Row)]
    BY <2>1, <2>2, <2>3, RowsTyped
  <2>6. \A d \in Databases : Len(table'[d]) <= MaxJobs
    BY <2>1, <2>2, <2>3, <2>4, RowsTyped, BoundsAssumption
  <2>7. Grows
    <3> SUFFICES ASSUME NEW d \in Databases
                 PROVE  /\ Len(table[d]) <= Len(table'[d])
                        /\ \A i \in 1 .. Len(table[d]) : table'[d][i] = table[d][i]
      BY DEF Grows
    <3>1. Len(table[d]) \in Nat
      BY RowsTyped
    <3>2. CASE d = db
      <4> DEFINE s == Append(table[db], entry)
      <4>1. table'[d] = s /\ table[d] = table[db]
        BY <3>2, <2>4
      <4>2. Len(s) = Len(table[db]) + 1 /\ \A i \in 1 .. Len(table[db]) : s[i] = table[db][i]
        BY <2>3
      <4> HIDE DEF s
      <4> QED
        BY <3>1, <4>1, <4>2
    <3>3. CASE d # db
      BY <3>1, <3>3, <2>4
    <3> QED
      BY <3>2, <3>3
  <2> QED
    BY <2>5, <2>6, <2>7
<1>3. ASSUME NEW db \in Databases, Clear(db) PROVE G
  <2>1. \A d \in Databases : \A i \in 1 .. Len(table[d]) :
          table'[d][i].status = "queued" => table[d][i].status = "queued"
    BY <1>3, ClearEffect, RowsTyped
  <2> QED
    BY <1>3, <2>1, ClearEffect, RowsTyped DEF Restated, Grows
<1>4. ASSUME NEW db \in Databases, NEW i \in Nat, NEW status \in Statuses \ {"queued"},
             table' = StatusSet(db, i, status)
      PROVE G
  BY <1>4, StatusSetEffect, RowsTyped DEF Restated, Grows
<1>5. ASSUME NEW db \in Databases, NEW i \in Ids, Cancel(db, i) PROVE G
  BY <1>4, <1>5 DEF Cancel, Ids, Statuses
<1>6. ASSUME NEW c \in Consumers, Mark(c) \/ Finish(c) PROVE G
  <2>1. job[c] \in Nat /\ "rt" \in Databases
    BY BoundsAssumption DEF TypeOK, Databases
  <2> QED
    BY <1>4, <1>6, <2>1 DEF Mark, Finish, Statuses
<1> QED
  BY <1>1, <1>2, <1>3, <1>5, <1>6 DEF Next, Consume, Look, Select, Cut, vars

LEMMA TypeStep == TypeOK /\ [Next]_vars => TypeOK'
<1> SUFFICES ASSUME TypeOK, [Next]_vars PROVE TypeOK'
  OBVIOUS
<1>0. /\ table' \in [Databases -> Seq([ref : Refs, status : Statuses])]
      /\ \A db \in Databases : Len(table'[db]) <= MaxJobs
  BY TableStep DEF Row
<1> USE BoundsAssumption, DoorAssumption DEF Consumers, Ids
<1>1. ASSUME NEW cl \in Clients, NEW ref \in Refs, Look(cl, ref) PROVE TypeOK'
  BY <1>0, <1>1 DEF TypeOK, Look
<1>2. ASSUME NEW cl \in Clients, Insert(cl) PROVE TypeOK'
  BY <1>0, <1>2 DEF TypeOK, Insert
<1>3. ASSUME NEW db \in Databases, Clear(db) PROVE TypeOK'
  BY <1>0, <1>3 DEF TypeOK, Clear
<1>4. ASSUME NEW db \in Databases, NEW i \in Ids, Cancel(db, i) PROVE TypeOK'
  BY <1>0, <1>4 DEF TypeOK, Cancel
<1>5. ASSUME NEW c \in Consumers, Select(c) PROVE TypeOK'
  <2>1. PICK i \in Ids : job' = [job EXCEPT ![c] = i]
    BY <1>5 DEF Select
  <2>2. i # 0 /\ i \in 0 .. MaxJobs
    OBVIOUS
  <2>3. \A d \in Consumers : job'[d] = 0 <=> pc'[d] = "idle"
    BY <1>5, <2>1, <2>2 DEF TypeOK, Select
  <2> QED
    BY <1>0, <1>5, <2>1, <2>2, <2>3 DEF TypeOK, Select
<1>6. ASSUME NEW c \in Consumers, Mark(c) PROVE TypeOK'
  <2>1. job[c] \in Ids
    BY <1>6 DEF TypeOK, Mark
  <2>2. served' \in Seq(Ids)
    <3>1. Append(served, job[c]) \in Seq(Ids)
      BY <2>1, AppendProperties DEF TypeOK
    <3> QED
      BY <1>6, <3>1 DEF TypeOK, Mark
  <2>3. runs' \in [Ids -> 0 .. 2]
    <3>1. runs \in [Ids -> 0 .. 2] /\ (runs[job[c]] < 2 => runs[job[c]] + 1 \in 0 .. 2)
      BY <2>1 DEF TypeOK
    <3> QED
      BY <1>6, <2>1, <3>1 DEF Mark
  <2> QED
    BY <1>0, <1>6, <2>2, <2>3 DEF TypeOK, Mark
<1>7. ASSUME NEW c \in Consumers, Finish(c) \/ Cut(c) PROVE TypeOK'
  <2>1. job' \in [Consumers -> 0 .. MaxJobs] /\ cuts' \in 0 .. MaxCuts
    BY <1>7 DEF TypeOK, Finish, Cut
  <2>2. \A d \in Consumers : job'[d] = 0 <=> pc'[d] = "idle"
    BY <1>7 DEF TypeOK, Finish, Cut
  <2> QED
    BY <1>0, <1>7, <2>1, <2>2 DEF TypeOK, Finish, Cut
<1>8. CASE UNCHANGED vars
  BY <1>0, <1>8 DEF TypeOK, vars
<1> QED
  BY <1>1, <1>2, <1>3, <1>4, <1>5, <1>6, <1>7, <1>8 DEF Next, Consume

LEMMA TypeInit == Init => TypeOK
BY BoundsAssumption, DoorAssumption
   DEF Init, TypeOK, Databases, Consumers, Ids

\* Both tables keep typed rows within the bound, and a consumer names a job exactly
\* when it is not idle.
THEOREM TypeCorrect == Spec => []TypeOK
BY TypeInit, TypeStep, PTL DEF Spec

-----------------------------------------------------------------------------
(* Order of service *)

\* The jobs that wait come after those the gateway's thread has served, and its own
\* job lies between the two.
Waits == {i \in 1 .. Len(table["rt"]) : table["rt"][i].status = "queued"}
InLine ==
  /\ \A n \in DOMAIN served : served[n] \in 1 .. Len(table["rt"]) /\ \A i \in Waits : served[n] < i
  /\ pc["gateway"] = "picked" =>
       /\ job["gateway"] \in 1 .. Len(table["rt"])
       /\ \A n \in DOMAIN served : served[n] < job["gateway"]
       /\ \A i \in Waits : job["gateway"] <= i

LEMMA InLineStep ==
  ASSUME TypeOK, InLine, ServedInOrder, [Next]_vars
  PROVE  InLine' /\ ServedInOrder'
<1> DEFINE rt == table["rt"]
<1>0. /\ Len(rt) \in Nat /\ Len(table'["rt"]) \in Nat /\ Len(rt) <= Len(table'["rt"])
      /\ \A i \in 1 .. Len(rt) : table'["rt"][i].status = "queued" => rt[i].status = "queued"
      /\ DOMAIN served = 1 .. Len(served) /\ Len(served) \in Nat
      /\ \A n \in DOMAIN served : served[n] \in Ids
      /\ job["gateway"] \in 0 .. MaxJobs
  <2>1. "rt" \in Databases /\ "gateway" \in Consumers
    BY DEF Databases, Consumers
  <2>2. Len(rt) \in Nat
    BY <2>1, RowsTyped
  <2>3. Len(table'["rt"]) \in Nat
    BY <2>1, TableStep
  <2>4. /\ Len(rt) <= Len(table'["rt"])
        /\ \A i \in 1 .. Len(rt) : table'["rt"][i].status = "queued" => rt[i].status = "queued"
    BY <2>1, TableStep DEF Grows
  <2>5. /\ DOMAIN served = 1 .. Len(served) /\ Len(served) \in Nat
        /\ \A n \in DOMAIN served : served[n] \in Ids
        /\ job["gateway"] \in 0 .. MaxJobs
    BY <2>1 DEF TypeOK
  <2> QED
    BY <2>2, <2>3, <2>4, <2>5
\* Jobs that wait after the step waited before, or are new.
<1>1. \A i \in Waits' : i \in Waits \/ i > Len(rt)
  BY <1>0 DEF Waits
<1>2. CASE UNCHANGED <<served, pc, job>>
  <2>1. ServedInOrder'
    BY <1>2 DEF ServedInOrder
  <2>2. InLine'
    BY <1>0, <1>1, <1>2 DEF InLine, Waits
  <2> QED
    BY <2>1, <2>2
<1>3. ASSUME NEW c \in Consumers, Select(c) PROVE InLine' /\ ServedInOrder'
  <2>1. UNCHANGED <<served, table>>
    BY <1>3 DEF Select
  <2>2. CASE c = "gateway"
    <3>1. PICK i \in Ids : FirstQueued("rt", i) /\ job' = [job EXCEPT ![c] = i]
      BY <1>3, <2>2 DEF Select, Source
    <3>2. job'["gateway"] = i /\ i \in Waits /\ \A j \in Waits : i <= j
      <4>1. job'["gateway"] = i
        BY <3>1, <2>2 DEF TypeOK
      <4>2. i \in Waits
        BY <3>1, RowsTyped DEF FirstQueued, HasStatus, Waits, Databases
      <4>3. ASSUME NEW j \in Waits, j < i PROVE FALSE
        BY <4>3, <3>1, <1>0 DEF FirstQueued, HasStatus, Waits, Ids
      <4> QED
        BY <4>1, <4>2, <4>3, <1>0 DEF Waits, Ids
    <3> QED
      BY <2>1, <3>2, <1>0 DEF InLine, ServedInOrder, Waits
  <2>3. CASE c # "gateway"
    BY <1>3, <2>1, <2>3, <1>0 DEF Select, InLine, ServedInOrder, Waits, TypeOK, Consumers
  <2> QED
    BY <2>2, <2>3
<1>4. ASSUME NEW c \in Consumers, Mark(c) PROVE InLine' /\ ServedInOrder'
  <2>1. CASE c = "gateway"
    <3> DEFINE g == job["gateway"]
    <3>1. /\ pc["gateway"] = "picked" /\ pc'["gateway"] = "running"
          /\ served' = Append(served, g) /\ table' = StatusSet("rt", g, "running")
      BY <1>4, <2>1 DEF Mark, TypeOK
    <3>2. /\ g \in 1 .. Len(rt)
          /\ \A n \in DOMAIN served : served[n] < g
          /\ \A i \in Waits : g <= i
      BY <3>1 DEF InLine
    <3>3. Len(table'["rt"]) = Len(rt) /\ g \notin Waits'
      <4>1. "rt" \in Databases /\ "running" \in Statuses /\ g \in Nat /\ g \in DOMAIN rt
        BY <3>2, <1>0, RowsTyped DEF Databases, Statuses
      <4>2. Len(table'["rt"]) = Len(rt)
        BY <3>1, <4>1, StatusSetEffect DEF Restated
      <4>3. table'["rt"][g].status = IF rt[g].status # "gone" THEN "running" ELSE rt[g].status
        BY <3>1, <4>1, StatusSetEffect
      <4> QED
        BY <4>2, <4>3 DEF Waits
    <3>4. /\ Len(served') = Len(served) + 1 /\ DOMAIN served' = 1 .. Len(served) + 1
          /\ \A n \in 1 .. Len(served) : served'[n] = served[n]
          /\ served'[Len(served) + 1] = g
      <4>1. served \in Seq(Ids) /\ g \in Ids
        BY <1>4, <2>1 DEF TypeOK, Mark, Ids, Consumers
      <4> QED
        BY <3>1, <4>1, AppendProperties
    <3>5. \A i \in Waits' : i \in Waits /\ i # g
      BY <1>1, <3>3 DEF Waits
    <3>6. ServedInOrder'
      BY <3>2, <3>4, <1>0 DEF ServedInOrder
    <3>7. InLine'
      BY <3>1, <3>2, <3>3, <3>4, <3>5, <1>0 DEF InLine, Waits
    <3> QED
      BY <3>6, <3>7
  <2>2. CASE c # "gateway"
    <3>1. served' = served /\ job' = job /\ pc'["gateway"] = pc["gateway"]
      BY <1>4, <2>2 DEF Mark, TypeOK, Consumers
    <3>2. pc'["gateway"] = "picked" => pc["gateway"] = "picked" /\ job'["gateway"] = job["gateway"]
      BY <3>1
    <3>3. served' = served
      BY <3>1
    <3> QED
      BY <1>0, <1>1, <3>2, <3>3 DEF InLine, ServedInOrder, Waits
  <2> QED
    BY <2>1, <2>2
<1>5. ASSUME NEW c \in Consumers, Finish(c) \/ Cut(c) PROVE InLine' /\ ServedInOrder'
  <2>1. served' = served
    BY <1>5 DEF Finish, Cut
  <2>2. pc'["gateway"] = "picked" => pc["gateway"] = "picked" /\ job'["gateway"] = job["gateway"]
    BY <1>5 DEF Finish, Cut, TypeOK, Consumers
  <2> QED
    BY <1>0, <1>1, <2>1, <2>2 DEF InLine, ServedInOrder, Waits
<1> QED
  BY <1>2, <1>3, <1>4, <1>5 DEF Next, Consume, Insert, Look, Clear, Cancel, vars

\* The gateway's thread serves the jobs in the order they were queued, none twice.
THEOREM JobsServedInOrder == Spec => []ServedInOrder
<1>1. Init => TypeOK /\ InLine /\ ServedInOrder
  BY TypeInit DEF Init, InLine, ServedInOrder, Waits, Databases, Consumers
<1>2. TypeOK /\ InLine /\ ServedInOrder /\ [Next]_vars => (TypeOK /\ InLine /\ ServedInOrder)'
  BY TypeStep, InLineStep
<1> QED
  BY <1>1, <1>2, PTL DEF Spec

-----------------------------------------------------------------------------
(* Running jobs *)

LEMMA RunningStep ==
  ASSUME TypeOK, RunningIsHeld, [Next]_vars
  PROVE  RunningIsHeld'
<1> SUFFICES ASSUME NEW i \in Ids, HasStatus("rt", i, {"running"})'
             PROVE  cuts' > 0 \/ \E c \in Consumers : pc'[c] = "running" /\ job'[c] = i
  BY DEF RunningIsHeld
<1> DEFINE G == cuts' > 0 \/ \E c \in Consumers : pc'[c] = "running" /\ job'[c] = i
           Kept == HasStatus("rt", i, {"running"})
<1> USE DEF Ids
<1>0. /\ "rt" \in Databases
      /\ Kept => cuts > 0 \/ \E c \in Consumers : pc[c] = "running" /\ job[c] = i
  BY DEF RunningIsHeld, Databases
<1>1. ASSUME UNCHANGED <<pc, job, cuts>>, Kept PROVE G
  BY <1>0, <1>1
<1>2. ASSUME NEW db \in Databases, NEW j \in Nat, NEW status \in Statuses,
             table' = StatusSet(db, j, status)
      PROVE  /\ Kept \/ (db = "rt" /\ j = i /\ status = "running")
             /\ db = "rt" /\ j = i => status = "running"
  <2>1. i \in DOMAIN table["rt"] /\ table'["rt"][i].status = "running"
    BY <1>0, <1>2, StatusSetEffect, RowsTyped DEF Restated, HasStatus
  <2>2. table'["rt"][i].status =
          IF "rt" = db /\ i = j /\ table["rt"][i].status # "gone" THEN status
          ELSE table["rt"][i].status
    BY <1>0, <1>2, <2>1, StatusSetEffect
  <2> QED
    BY <2>1, <2>2 DEF HasStatus
<1>3. ASSUME NEW cl \in Clients, NEW ref \in Refs, Look(cl, ref) PROVE G
  BY <1>1, <1>3 DEF Look, HasStatus
<1>4. ASSUME NEW cl \in Clients, Insert(cl) PROVE G
  <2> DEFINE db == Door[cl]
  <2>1. table'["rt"] = IF db = "rt" THEN Append(table["rt"], [ref |-> wants[cl], status |-> "queued"])
                       ELSE table["rt"]
    BY <1>0, <1>4, RowsTyped, DoorAssumption DEF Insert
  <2>2. Kept
    BY <1>0, <2>1, RowsTyped DEF HasStatus
  <2> QED
    BY <1>1, <1>4, <2>2 DEF Insert
<1>5. ASSUME NEW db \in Databases, Clear(db) PROVE G
  <2>1. i \in DOMAIN table["rt"] /\ table'["rt"][i].status = "running"
    BY <1>0, <1>5, ClearEffect, RowsTyped DEF Restated, HasStatus
  <2>2. table["rt"][i].status = "running"
    BY <1>0, <1>5, <2>1, ClearEffect
  <2> QED
    BY <1>1, <1>5, <2>1, <2>2 DEF Clear, HasStatus
<1>6. ASSUME NEW db \in Databases, NEW j \in Ids, Cancel(db, j) PROVE G
  BY <1>1, <1>2, <1>6 DEF Cancel, Statuses
<1>7. ASSUME NEW c \in Consumers, Select(c) PROVE G
  <2>1. Kept /\ pc[c] = "idle"
    BY <1>7 DEF Select, HasStatus
  <2> QED
    BY <1>0, <1>7, <2>1 DEF Select, TypeOK
<1>8. ASSUME NEW c \in Consumers, Mark(c) PROVE G
  <2>1. job[c] \in Nat
    BY BoundsAssumption DEF TypeOK
  <2>2. Kept \/ job[c] = i
    BY <1>0, <1>2, <1>8, <2>1 DEF Mark, Statuses
  <2> QED
    BY <1>0, <1>8, <2>2 DEF Mark, TypeOK
<1>9. ASSUME NEW c \in Consumers, Finish(c) PROVE G
  <2>1. job[c] \in Nat
    BY BoundsAssumption DEF TypeOK
  <2>2. Kept /\ job[c] # i
    BY <1>0, <1>2, <1>9, <2>1 DEF Finish, Statuses
  <2> QED
    BY <1>0, <1>9, <2>2 DEF Finish, TypeOK
<1>10. ASSUME NEW c \in Consumers, Cut(c) PROVE G
  BY <1>10 DEF Cut, TypeOK
<1>11. CASE UNCHANGED vars
  BY <1>1, <1>11 DEF vars, HasStatus
<1> QED
  BY <1>3, <1>4, <1>5, <1>6, <1>7, <1>8, <1>9, <1>10, <1>11 DEF Next, Consume

\* A running row of runtime.db has a consumer on it, unless one was cut short.
THEOREM RunningJobsAreHeld == Spec => []RunningIsHeld
<1>1. Init => RunningIsHeld
  BY DEF Init, RunningIsHeld, HasStatus, Databases
<1> QED
  BY <1>1, TypeInit, TypeStep, RunningStep, PTL DEF Spec

-----------------------------------------------------------------------------
(* ToolInstall *)

\* What a runner is in: an uninstall before its removal and the commands are of a job,
\* and a scan removed nothing. Any manager will do.
Step(now) ==
  /\ now \in [pc : {"idle", "resolve", "commands", "forget", "read", "save"},
              kind : {"none", "install", "uninstall", "scan"}, mgr : {now.mgr},
              saw : BOOLEAN, had : {now.had}]
  /\ now.pc \in {"resolve", "commands", "forget"} => now.kind \in {"install", "uninstall"}
  /\ now.kind = "scan" => now.had = FALSE

ToolShape == runner = [r \in Runners |-> runner[r]] /\ \A r \in Runners : Step(runner[r])

Present == scanned /\ machine # {}

\* A job that will look at the machine, or has seen the tool, and save it.
WillSave(r) ==
  /\ runner[r].kind \in {"install", "uninstall"}
  /\ runner[r].pc \in {"forget", "read"} \/ (runner[r].pc = "save" /\ runner[r].saw)

\* The row is there or on its way, and is true or on its way out.
RowFollows ==
  /\ Present => row \/ \E r \in Runners : WillSave(r)
  /\ row => Present \/ \E r \in Runners : runner[r].pc = "forget"
  /\ \A r \in Runners : runner[r].pc = "save" /\ runner[r].saw => Present

ToolInv == ToolShape /\ (~blurred => RowFollows)

LEMMA ToolInitial == ToolInit => ToolInv
<1> SUFFICES ASSUME ToolInit PROVE ToolInv
  OBVIOUS
<1>1. ToolShape
  BY DEF ToolInit, ToolShape, Step, AtRest
<1>2. RowFollows
  BY DEF ToolInit, RowFollows, Present, AtRest
<1> QED
  BY <1>1, <1>2 DEF ToolInv

LEMMA ToolMoves ==
  ASSUME ToolShape, NEW r \in Runners, NEW now, Step(now), runner' = [runner EXCEPT ![r] = now]
  PROVE  ToolShape' /\ runner'[r] = now /\ \A s \in Runners \ {r} : runner'[s] = runner[s]
  BY DEF ToolShape

\* The fields of a runner after an assignment of one or two of them.
LEMMA ToolFields ==
  ASSUME ToolShape, NEW r \in Runners, NEW stage \in {"commands", "forget", "read", "save"},
         stage \in {"commands", "forget"} => runner[r].kind \in {"install", "uninstall"}
  PROVE  /\ [runner[r] EXCEPT !.pc = stage].kind = runner[r].kind
         /\ [runner[r] EXCEPT !.pc = stage].pc = stage
         /\ [runner[r] EXCEPT !.pc = stage].saw = runner[r].saw
         /\ Step([runner[r] EXCEPT !.pc = stage])
  BY DEF ToolShape, Step

LEMMA ToolBegins ==
  ASSUME ToolInv, NEW r \in Runners, \E kind \in {"install", "uninstall"} : BeginJob(r, kind)
  PROVE  ToolInv'
<1> PICK kind \in {"install", "uninstall"} : BeginJob(r, kind)
  OBVIOUS
<1> DEFINE now == [AtRest EXCEPT !.pc = "resolve", !.kind = kind]
<1>1. runner[r].pc = "idle" /\ runner' = [runner EXCEPT ![r] = now] /\ UNCHANGED <<machine, scanned, row, blurred>>
  BY DEF BeginJob
<1>2. Step(now) /\ now.pc = "resolve"
  BY DEF AtRest, Step
<1> HIDE DEF now
<1>3. ToolShape' /\ runner'[r] = now /\ \A s \in Runners \ {r} : runner'[s] = runner[s]
  BY <1>1, <1>2, ToolMoves DEF ToolInv
<1>4. ASSUME RowFollows PROVE RowFollows'
  BY <1>1, <1>2, <1>3, <1>4 DEF RowFollows, Present, WillSave
<1> QED
  BY <1>1, <1>3, <1>4 DEF ToolInv

LEMMA ToolEnds ==
  ASSUME ToolInv, NEW r \in Runners, Ends(r)
  PROVE  /\ ToolShape' /\ runner'[r].pc = "idle"
         /\ \A s \in Runners \ {r} : runner'[s] = runner[s]
<1>1. Step(AtRest) /\ AtRest.pc = "idle"
  BY DEF Step, AtRest
<1> QED
  BY <1>1, ToolMoves DEF Ends, ToolInv

LEMMA ToolResolves ==
  ASSUME ToolInv, NEW r \in Runners, ResolveAgain(r)
  PROVE  ToolInv'
<1>1. runner[r].pc = "resolve" /\ UNCHANGED <<machine, scanned, row, blurred>>
  BY DEF ResolveAgain
<1>2. /\ ToolShape' /\ runner'[r].pc \in {"idle", "commands"}
      /\ \A s \in Runners \ {r} : runner'[s] = runner[s]
  <2>1. CASE Ends(r)
    BY <2>1, ToolEnds
  <2>2. CASE runner' = [runner EXCEPT ![r].pc = "commands", ![r].mgr = Resolved]
    <3> DEFINE now == [runner[r] EXCEPT !.pc = "commands", !.mgr = Resolved]
    <3>1. runner' = [runner EXCEPT ![r] = now]
      BY <2>2 DEF ToolInv, ToolShape
    <3>2. Step(now) /\ now.pc = "commands"
      BY <1>1 DEF ToolInv, ToolShape, Step
    <3> HIDE DEF now
    <3> QED
      BY <3>1, <3>2, ToolMoves DEF ToolInv
  <2> QED
    BY <2>1, <2>2 DEF ResolveAgain
<1>3. ASSUME RowFollows PROVE RowFollows'
  BY <1>1, <1>2, <1>3 DEF RowFollows, Present, WillSave
<1> QED
  BY <1>1, <1>2, <1>3 DEF ToolInv

LEMMA ToolBecomes ==
  ASSUME ToolInv, NEW r \in Runners, NEW stage \in {"forget", "read"}, Becomes(r, stage),
         runner[r].kind \in {"install", "uninstall"}
  PROVE  /\ ToolShape' /\ runner'[r].pc = stage /\ runner'[r].kind = runner[r].kind
         /\ \A s \in Runners \ {r} : runner'[s] = runner[s]
<1> DEFINE now == [runner[r] EXCEPT !.pc = stage]
<1>1. runner' = [runner EXCEPT ![r] = now]
  BY DEF Becomes, ToolInv, ToolShape
<1>2. Step(now) /\ now.pc = stage /\ now.kind = runner[r].kind
  BY ToolFields DEF ToolInv
<1> HIDE DEF now
<1> QED
  BY <1>1, <1>2, ToolMoves DEF ToolInv

LEMMA ToolInstalls ==
  ASSUME ToolInv, NEW r \in Runners, RunInstall(r)
  PROVE  ToolInv'
<1>1. /\ runner[r].pc = "commands" /\ runner[r].kind = "install" /\ scanned' = scanned /\ row' = row
      /\ machine \subseteq machine'
  BY DEF RunInstall
<1>2. CASE Becomes(r, "read") /\ blurred' = blurred
  <2>1. /\ ToolShape' /\ runner'[r].pc = "read" /\ runner'[r].kind = "install"
        /\ \A s \in Runners \ {r} : runner'[s] = runner[s]
    BY <1>1, <1>2, ToolBecomes
  <2>2. ASSUME RowFollows PROVE RowFollows'
    BY <1>1, <2>1, <2>2 DEF RowFollows, Present, WillSave
  <2> QED
    BY <1>2, <2>1, <2>2 DEF ToolInv
<1>3. CASE Ends(r) /\ blurred' = (blurred \/ machine' # machine)
  <2>1. ToolShape' /\ runner'[r].pc = "idle" /\ \A s \in Runners \ {r} : runner'[s] = runner[s]
    BY <1>3, ToolEnds
  <2>2. ASSUME RowFollows, machine' = machine PROVE RowFollows'
    BY <1>1, <2>1, <2>2 DEF RowFollows, Present, WillSave
  <2> QED
    BY <1>3, <2>1, <2>2 DEF ToolInv
<1> QED
  BY <1>2, <1>3 DEF RunInstall

\* What is taken away nobody saved, unless it is blurred, and the row goes next.
LEMMA ToolUninstalls ==
  ASSUME ToolInv, NEW r \in Runners, RunUninstall(r)
  PROVE  ToolInv'
<1>1. /\ runner[r].pc = "commands" /\ runner[r].kind = "uninstall" /\ scanned' = scanned /\ row' = row
      /\ machine' \subseteq machine /\ Becomes(r, "forget")
      /\ blurred' = (blurred \/ (machine' # machine /\ ReadBy(r)))
  BY DEF RunUninstall
<1>2. /\ ToolShape' /\ runner'[r].pc = "forget" /\ runner'[r].kind = "uninstall"
      /\ \A s \in Runners \ {r} : runner'[s] = runner[s]
  BY <1>1, ToolBecomes
<1>3. ASSUME RowFollows, machine' = machine \/ ~ReadBy(r) PROVE RowFollows'
  <2>1. \A s \in Runners : runner'[s].pc = "save" /\ runner'[s].saw => Present'
    BY <1>1, <1>2, <1>3 DEF RowFollows, Present, ReadBy
  <2>2. Present' => row' \/ \E s \in Runners : WillSave(s)'
    BY <1>2 DEF WillSave
  <2> QED
    BY <1>2, <2>1, <2>2 DEF RowFollows
<1> QED
  BY <1>1, <1>2, <1>3 DEF ToolInv

LEMMA ToolForgets ==
  ASSUME ToolInv, NEW r \in Runners, Forget(r)
  PROVE  ToolInv'
<1> DEFINE now == [runner[r] EXCEPT !.pc = "read", !.had = row]
<1>1. runner[r].pc = "forget" /\ row' = FALSE /\ UNCHANGED <<machine, scanned, blurred>>
  BY DEF Forget
<1>2. runner' = [runner EXCEPT ![r] = now]
  BY DEF Forget, ToolInv, ToolShape
<1>3. Step(now) /\ now.pc = "read" /\ now.kind \in {"install", "uninstall"}
  BY <1>1 DEF ToolInv, ToolShape, Step
<1> HIDE DEF now
<1>4. ToolShape' /\ runner'[r] = now /\ \A s \in Runners \ {r} : runner'[s] = runner[s]
  BY <1>2, <1>3, ToolMoves DEF ToolInv
<1>5. ASSUME RowFollows PROVE RowFollows'
  BY <1>1, <1>3, <1>4, <1>5 DEF RowFollows, Present, WillSave
<1> QED
  BY <1>1, <1>4, <1>5 DEF ToolInv

-----------------------------------------------------------------------------
LEMMA ToolScanBegins ==
  ASSUME ToolInv, NEW r \in Runners, BeginScan(r)
  PROVE  ToolInv'
<1> DEFINE now == [AtRest EXCEPT !.pc = "read", !.kind = "scan"]
<1>1. runner[r].pc = "idle" /\ runner' = [runner EXCEPT ![r] = now] /\ UNCHANGED <<machine, scanned, row, blurred>>
  BY DEF BeginScan
<1>2. Step(now) /\ now.pc = "read"
  BY DEF AtRest, Step
<1> HIDE DEF now
<1>3. ToolShape' /\ runner'[r] = now /\ \A s \in Runners \ {r} : runner'[s] = runner[s]
  BY <1>1, <1>2, ToolMoves DEF ToolInv
<1>4. ASSUME RowFollows PROVE RowFollows'
  BY <1>1, <1>2, <1>3, <1>4 DEF RowFollows, Present, WillSave
<1> QED
  BY <1>1, <1>3, <1>4 DEF ToolInv

LEMMA ToolScanReads ==
  ASSUME ToolInv, NEW r \in Runners, ScanRead(r)
  PROVE  ToolInv'
<1> DEFINE now == [runner[r] EXCEPT !.pc = "save", !.saw = (scanned /\ machine # {})]
<1>1. runner[r].pc = "read" /\ UNCHANGED <<machine, scanned, row, blurred>>
  BY DEF ScanRead
<1>2. runner' = [runner EXCEPT ![r] = now]
  BY DEF ScanRead, ToolInv, ToolShape
<1>3. Step(now) /\ now.pc = "save" /\ now.kind = runner[r].kind /\ now.saw = Present
  BY <1>1 DEF ToolInv, ToolShape, Step, Present
<1> HIDE DEF now
<1>4. ToolShape' /\ runner'[r] = now /\ \A s \in Runners \ {r} : runner'[s] = runner[s]
  BY <1>2, <1>3, ToolMoves DEF ToolInv
<1>5. Present' = Present
  BY <1>1 DEF Present
<1>6. ASSUME RowFollows PROVE RowFollows'
  BY <1>1, <1>3, <1>4, <1>5, <1>6 DEF RowFollows, WillSave
<1> QED
  BY <1>1, <1>4, <1>6 DEF ToolInv

LEMMA ToolScanSaves ==
  ASSUME ToolInv, NEW r \in Runners, ScanSave(r)
  PROVE  ToolInv'
<1>1. runner[r].pc = "save" /\ row' = (row \/ runner[r].saw) /\ Ends(r) /\ UNCHANGED <<machine, scanned, blurred>>
  BY DEF ScanSave
<1>2. ToolShape' /\ runner'[r].pc = "idle" /\ \A s \in Runners \ {r} : runner'[s] = runner[s]
  BY <1>1, ToolEnds
<1>3. ASSUME RowFollows PROVE RowFollows'
  BY <1>1, <1>2, <1>3 DEF RowFollows, Present, WillSave
<1> QED
  BY <1>1, <1>2, <1>3 DEF ToolInv

\* Only the failure of a scan goes unnoticed, and a scan was to add only what is there.
LEMMA ToolFails ==
  ASSUME ToolInv, NEW r \in Runners, Fails(r)
  PROVE  ToolInv'
<1>1. /\ row' \in {row, row \/ runner[r].had} /\ Ends(r) /\ scanned' = scanned
      /\ blurred' = (blurred \/ runner[r].kind # "scan")
  BY DEF Fails
<1>2. ToolShape' /\ runner'[r].pc = "idle" /\ \A s \in Runners \ {r} : runner'[s] = runner[s]
  BY <1>1, ToolEnds
<1>3. ASSUME RowFollows, runner[r].kind = "scan" PROVE RowFollows'
  <2>1. runner[r].pc \notin {"commands", "forget"} /\ runner[r].had = FALSE
    BY <1>3 DEF ToolInv, ToolShape, Step
  <2>2. machine' = machine
    BY <2>1 DEF Fails
  <2>3. row' <=> row
    BY <1>1, <2>1
  <2> QED
    BY <1>1, <1>2, <1>3, <2>1, <2>2, <2>3 DEF RowFollows, Present, WillSave
<1> QED
  BY <1>1, <1>2, <1>3 DEF ToolInv

LEMMA ToolInductive == ToolInv /\ [ToolNext]_toolVars => ToolInv'
<1> SUFFICES ASSUME ToolInv, [ToolNext]_toolVars PROVE ToolInv'
  OBVIOUS
<1>1. CASE UNCHANGED <<machine, scanned, row, runner, blurred>>
  BY <1>1 DEF ToolInv, ToolShape, RowFollows, Present, WillSave
<1>2. CASE ChangeRecipe \/ UNCHANGED toolVars
  BY <1>1, <1>2 DEF ChangeRecipe, toolVars
<1> QED
  BY <1>2, ToolBegins, ToolResolves, ToolInstalls, ToolUninstalls, ToolForgets, ToolScanBegins,
     ToolScanReads, ToolScanSaves, ToolFails DEF ToolNext

\* install_tool, uninstall_tool, scan_installed_tools: when nothing runs a tool has a row
\* exactly when it is installed, for any runners, managers and changes of the recipes,
\* unless a step went wrong in one of the ways the code swallows.
THEOREM InventoryFollows == ToolSpec => []InventoryTrue
<1>1. ToolInv => InventoryTrue
  <2> SUFFICES ASSUME ToolInv, \A r \in Runners : runner[r].pc = "idle", ~blurred
               PROVE  row <=> scanned /\ machine # {}
    BY DEF InventoryTrue
  <2>1. RowFollows /\ \A r \in Runners : ~WillSave(r) /\ runner[r].pc # "forget"
    BY DEF ToolInv, WillSave
  <2> QED
    BY <2>1 DEF RowFollows, Present
<1> QED
  BY <1>1, ToolInitial, ToolInductive, PTL DEF ToolSpec

-----------------------------------------------------------------------------
(* CatalogueSync *)

Reads == [active : BOOLEAN, snap : SUBSET Links, creates : SUBSET Links, missed : SUBSET Links]

\* The rows a writer has read are links still, and it missed those that have a cost now.
SnapTrue ==
  \A w \in Writers : \A l \in writer[w].snap :
    offers[l] # Absent /\ (Known(l) => l \in writer[w].missed)

CatalogueInv == writer \in [Writers -> Reads] /\ SnapTrue

LEMMA CatalogueInitial == CatalogueInit => CatalogueInv
  BY DEF CatalogueInit, CatalogueInv, SnapTrue, Reads, NoWriter

\* Rows are deleted and seeded again, or come from the file.
LEMMA CatalogueDeleted ==
  ASSUME CatalogueInv, NEW gone \in SUBSET Links, Deleted(gone),
         \A l \in Links \ gone : offers[l] # Absent => offers'[l] = offers[l]
  PROVE  CatalogueInv'
<1>1. writer' = [w \in Writers |-> [writer[w] EXCEPT !.snap = @ \ gone, !.missed = @ \ gone]]
  BY DEF Deleted
<1>2. writer' \in [Writers -> Reads]
  <2> SUFFICES ASSUME NEW w \in Writers
               PROVE  [writer[w] EXCEPT !.snap = @ \ gone, !.missed = @ \ gone] \in Reads
    BY <1>1
  <2>1. writer[w] \in Reads
    BY DEF CatalogueInv
  <2> QED
    BY <2>1 DEF Reads
<1>3. ASSUME NEW w \in Writers, NEW l \in writer'[w].snap
      PROVE  (offers[l] # Absent /\ (Known(l) => l \in writer[w].missed))'
  <2>1. writer[w] \in Reads
    BY DEF CatalogueInv
  <2>2. writer'[w].snap = writer[w].snap \ gone /\ writer'[w].missed = writer[w].missed \ gone
    BY <1>1, <2>1 DEF Reads
  <2>3. l \in Links \ gone /\ offers[l] # Absent /\ (Known(l) => l \in writer[w].missed)
    BY <1>3, <2>1, <2>2 DEF CatalogueInv, SnapTrue, Reads
  <2> QED
    BY <2>2, <2>3 DEF Known
<1> QED
  BY <1>2, <1>3 DEF CatalogueInv, SnapTrue

LEMMA CatalogueReplaced ==
  ASSUME CatalogueInv,
         \/ Seed \/ Reopen
         \/ \E providers \in SUBSET Offering, models \in SUBSET Offered : SyncFromUrl(providers, models)
  PROVE  CatalogueInv'
<1>1. CASE Seed
  <2> DEFINE gone == {l \in SeedModels : offers[l] # Absent}
  <2>1. gone \in SUBSET Links /\ Deleted(gone)
    BY <1>1 DEF Seed, SeedModels
  <2>2. \A l \in Links \ gone : offers[l] # Absent => offers'[l] = offers[l]
    BY <1>1 DEF Seed
  <2> HIDE DEF gone
  <2> QED
    BY <2>1, <2>2, CatalogueDeleted
<1>2. CASE Reopen
  BY <1>2 DEF Reopen, CatalogueInv, SnapTrue, Reads
<1>3. ASSUME NEW providers \in SUBSET Offering, NEW models \in SUBSET Offered, SyncFromUrl(providers, models)
      PROVE  CatalogueInv'
  <2> DEFINE gone == {l \in Links : offers[l] # Absent /\ (l[1] \in providers \/ l[2] \in models)}
  <2>1. Deleted(gone) /\ offers' = [l \in Links |-> IF l \in gone THEN Absent ELSE offers[l]]
    BY <1>3 DEF SyncFromUrl
  <2>2. gone \in SUBSET Links
    OBVIOUS
  <2> HIDE DEF gone
  <2>3. \A l \in Links \ gone : offers[l] # Absent => offers'[l] = offers[l]
    BY <2>1
  <2> QED
    BY <2>1, <2>2, <2>3, CatalogueDeleted
<1> QED
  BY <1>1, <1>2, <1>3

\* A link that is folded into another one prices it, one that takes the place of none
\* brings the cost that was read.
LEMMA CatalogueMerged ==
  ASSUME CatalogueInv, NEW dup \in Offering, NEW canon \in Offering, MergeDuplicate(dup, canon)
  PROVE  CatalogueInv'
<1> DEFINE Target(l) == <<canon, l[2]>>
           dups   == {l \in Links : l[1] = dup /\ offers[l] # Absent}
           folded == {l \in dups : offers[Target(l)] # Absent}
           priced == {Target(l) : l \in {k \in folded : Known(k)}}
           After(seen) == (seen \ dups) \cup {Target(l) : l \in (seen \cap dups) \ folded}
<1>1. /\ dup # canon
      /\ offers' = [l \in Links |->
           IF l[1] = dup THEN Absent
           ELSE IF l \in priced \cup {Target(k) : k \in dups \ folded} THEN offers[<<dup, l[2]>>]
           ELSE offers[l]]
      /\ writer' = [w \in Writers |->
           [writer[w] EXCEPT !.snap = After(@), !.missed = After(@) \cup (priced \cap writer[w].snap)]]
  BY DEF MergeDuplicate
<1>2. /\ priced \in SUBSET Links /\ \A l \in Links : Target(l) \in Links
      /\ \A seen \in SUBSET Links : After(seen) \in SUBSET Links
  <2>1. \A l \in Links : Target(l) \in Links
    BY DEF Links
  <2>2. dups \in SUBSET Links /\ folded \in SUBSET Links
    OBVIOUS
  <2> HIDE DEF dups, folded, Target
  <2>3. priced \in SUBSET Links
    BY <2>1, <2>2
  <2>4. \A seen \in SUBSET Links : After(seen) \in SUBSET Links
    BY <2>1, <2>2
  <2> QED
    BY <2>1, <2>3, <2>4
<1>3. writer' \in [Writers -> Reads]
  <2> SUFFICES ASSUME NEW w \in Writers
               PROVE  [writer[w] EXCEPT !.snap = After(@),
                                        !.missed = After(@) \cup (priced \cap writer[w].snap)] \in Reads
    BY <1>1
  <2>1. writer[w] \in Reads
    BY DEF CatalogueInv
  <2>2. After(writer[w].snap) \in SUBSET Links /\ After(writer[w].missed) \in SUBSET Links
    BY <1>2, <2>1 DEF Reads
  <2> HIDE DEF After, priced
  <2> QED
    BY <1>2, <2>1, <2>2 DEF Reads
<1>4. ASSUME NEW w \in Writers, NEW l \in writer'[w].snap
      PROVE  (offers[l] # Absent /\ (Known(l) => l \in writer[w].missed))'
  <2>1. writer[w] \in Reads
    BY DEF CatalogueInv
  <2> DEFINE snap == writer[w].snap  missed == writer[w].missed
  <2>2. writer'[w].snap = After(snap) /\ writer'[w].missed = After(missed) \cup (priced \cap snap)
    <3> HIDE DEF After, priced
    <3> QED
      BY <1>1, <2>1 DEF Reads
  <2>3. \A k \in snap : k \in Links /\ offers[k] # Absent /\ (Known(k) => k \in missed)
    BY <2>1 DEF CatalogueInv, SnapTrue, Reads
  <2>4. CASE l \in snap \ dups
    <3>1. l \in Links /\ offers[l] # Absent /\ l[1] # dup
      BY <2>3, <2>4
    <3>2. l \notin {Target(k) : k \in dups \ folded}
      BY <3>1
    <3>3. CASE l \in priced
      <4>1. offers'[l] = offers[<<dup, l[2]>>] /\ l \in writer'[w].missed
        BY <1>1, <2>2, <2>4, <3>1, <3>3
      <4>2. offers[<<dup, l[2]>>] # Absent
        <5>1. PICK k \in folded : l = Target(k)
          BY <3>3
        <5>2. k = <<dup, l[2]>>
          BY <5>1 DEF Links
        <5> QED
          BY <5>1, <5>2
      <4> QED
        BY <4>1, <4>2
    <3>4. CASE l \notin priced
      <4>1. offers'[l] = offers[l]
        BY <1>1, <3>1, <3>2, <3>4
      <4>2. Known(l) => l \in missed \ dups
        BY <2>3, <2>4
      <4> QED
        BY <2>2, <3>1, <4>1, <4>2 DEF Known
    <3> QED
      BY <3>3, <3>4
  <2>5. ASSUME NEW k \in (snap \cap dups) \ folded, l = Target(k)
        PROVE  (offers[l] # Absent /\ (Known(l) => l \in writer[w].missed))'
    <3>1. k \in Links /\ offers[k] # Absent /\ (Known(k) => k \in missed) /\ k[1] = dup
      BY <2>3, <2>5
    <3>2. l \in Links /\ l[1] = canon /\ k = <<dup, l[2]>>
      BY <1>2, <2>5, <3>1 DEF Links
    <3>3. offers'[l] = offers[k]
      BY <1>1, <2>5, <3>2
    <3>4. Known(k) => l \in After(missed)
      BY <2>5, <3>1
    <3> QED
      BY <2>2, <3>1, <3>3, <3>4 DEF Known
  <2> QED
    BY <1>4, <2>2, <2>4, <2>5
<1> QED
  BY <1>3, <1>4 DEF CatalogueInv, SnapTrue

\* A merge of prices reads, then writes what it read.
LEMMA CatalogueRead ==
  ASSUME CatalogueInv, NEW w \in Writers, ReadLinks(w)
  PROVE  CatalogueInv'
<1>1. PICK creates \in {{}, {l \in Links : offers[l] = Absent}} :
        writer' = [writer EXCEPT ![w] = [active |-> TRUE, snap |-> {l \in Links : offers[l] = Unknown},
                                         creates |-> creates, missed |-> {}]]
  BY DEF ReadLinks
<1>2. offers' = offers /\ creates \in SUBSET Links
  BY DEF ReadLinks
<1>3. [active |-> TRUE, snap |-> {l \in Links : offers[l] = Unknown},
       creates |-> creates, missed |-> {}] \in Reads
  BY <1>2 DEF Reads
<1>4. writer' \in [Writers -> Reads]
  BY <1>1, <1>3 DEF CatalogueInv
<1>5. \A v \in Writers \ {w} : writer'[v] = writer[v]
  BY <1>1 DEF CatalogueInv
<1>6. writer'[w].snap = {l \in Links : offers[l] = Unknown}
  BY <1>1 DEF CatalogueInv
<1>7. SnapTrue'
  BY <1>2, <1>5, <1>6, CatalogueAssumption DEF CatalogueInv, SnapTrue, Known
<1> QED
  BY <1>4, <1>7 DEF CatalogueInv

LEMMA CatalogueWritten ==
  ASSUME CatalogueInv, NEW w \in Writers,
         NEW feed \in [Links -> Costs \cup {Unknown, Absent}], WriteCosts(w, feed)
  PROVE  CatalogueInv'
<1> DEFINE priced == {l \in Links : offers'[l] # offers[l]}
<1>1. /\ offers' = [l \in Links |->
           IF l \in writer[w].snap /\ feed[l] # Unknown THEN Filled(l, feed)
           ELSE IF l \in writer[w].creates /\ offers[l] = Absent THEN Filled(l, feed)
           ELSE offers[l]]
      /\ writer' = [v \in Writers |-> IF v = w THEN NoWriter
                                      ELSE [writer[v] EXCEPT !.missed = @ \cup (priced \cap writer[v].snap)]]
  BY DEF WriteCosts, Changed
<1>2. \A l \in Links : offers[l] # Absent => offers'[l] # Absent
  BY <1>1 DEF Filled
<1>3. NoWriter \in Reads /\ NoWriter.snap = {}
  BY DEF NoWriter, Reads
<1>4. ASSUME NEW v \in Writers, v # w
      PROVE  /\ writer[v] \in Reads /\ writer'[v] \in Reads /\ writer'[v].snap = writer[v].snap
             /\ writer'[v].missed = writer[v].missed \cup (priced \cap writer[v].snap)
  <2>1. writer[v] \in Reads /\ priced \in SUBSET Links
    BY DEF CatalogueInv
  <2>2. writer'[v] = [writer[v] EXCEPT !.missed = @ \cup (priced \cap writer[v].snap)]
    BY <1>1, <1>4
  <2> HIDE DEF priced
  <2> QED
    BY <2>1, <2>2 DEF Reads
<1>5. writer' \in [Writers -> Reads]
  <2>1. DOMAIN writer' = Writers /\ writer'[w] \in Reads /\ writer' = [v \in Writers |-> writer'[v]]
    BY <1>1, <1>3
  <2> QED
    BY <1>4, <2>1
<1>6. ASSUME NEW v \in Writers, NEW l \in writer'[v].snap
      PROVE  (offers[l] # Absent /\ (Known(l) => l \in writer[v].missed))'
  <2>1. v # w
    BY <1>1, <1>3, <1>6
  <2>2. l \in writer[v].snap /\ l \in Links
    BY <1>4, <1>6, <2>1 DEF Reads
  <2>3. offers[l] # Absent /\ (Known(l) => l \in writer[v].missed)
    BY <2>2 DEF CatalogueInv, SnapTrue
  <2> QED
    BY <1>2, <1>4, <2>1, <2>2, <2>3 DEF Known
<1> QED
  BY <1>5, <1>6 DEF CatalogueInv, SnapTrue

LEMMA CatalogueInductive == CatalogueInv /\ [CatalogueNext]_catalogueVars => CatalogueInv'
<1> SUFFICES ASSUME CatalogueInv, [CatalogueNext]_catalogueVars PROVE CatalogueInv'
  OBVIOUS
<1>1. CASE UNCHANGED catalogueVars
  BY <1>1 DEF catalogueVars, CatalogueInv, SnapTrue, Known
<1>2. CASE CatalogueNext
  BY <1>2, CatalogueReplaced, CatalogueMerged, CatalogueRead, CatalogueWritten DEF CatalogueNext
<1> QED
  BY <1>1, <1>2

\* What merge_pricing, merge_openrouter and populate_provider_models promise: they write
\* over no cost that is known, except of a row another writer priced since they read it.
THEOREM MergesAreAdditive == CatalogueSpec => KnownCostStays
<1>1. CatalogueInv /\ [CatalogueNext]_catalogueVars =>
        [\A l \in Links : Known(l) /\ offers'[l] # offers[l] =>
           \/ Seed
           \/ \E providers \in SUBSET Offering, models \in SUBSET Offered : SyncFromUrl(providers, models)
           \/ \E dup, canon \in Offering : MergeDuplicate(dup, canon)
           \/ \E w \in Writers : writer[w].active /\ ~writer'[w].active /\ l \in writer[w].missed
        ]_catalogueVars
  <2> SUFFICES ASSUME CatalogueInv, CatalogueNext, NEW l \in Links, Known(l), offers'[l] # offers[l]
               PROVE  \/ Seed
                      \/ \E providers \in SUBSET Offering, models \in SUBSET Offered :
                           SyncFromUrl(providers, models)
                      \/ \E dup, canon \in Offering : MergeDuplicate(dup, canon)
                      \/ \E w \in Writers : writer[w].active /\ ~writer'[w].active /\ l \in writer[w].missed
    OBVIOUS
  <2>1. ASSUME NEW w \in Writers, NEW feed \in [Links -> Costs \cup {Unknown, Absent}], WriteCosts(w, feed)
        PROVE  writer[w].active /\ ~writer'[w].active /\ l \in writer[w].missed
    <3>1. l \in writer[w].snap
      BY <2>1, CatalogueAssumption DEF WriteCosts, Known
    <3>2. writer[w].active /\ ~writer'[w].active
      BY <2>1 DEF WriteCosts, Changed, NoWriter
    <3> QED
      BY <3>1, <3>2 DEF CatalogueInv, SnapTrue
  <2>2. ~Reopen
    BY CatalogueAssumption DEF Reopen, Known
  <2>3. \A w \in Writers : ~ReadLinks(w)
    BY DEF ReadLinks
  <2> QED
    BY <2>1, <2>2, <2>3 DEF CatalogueNext
<1> QED
  BY <1>1, CatalogueInitial, CatalogueInductive, PTL DEF CatalogueSpec, KnownCostStays
=============================================================================
