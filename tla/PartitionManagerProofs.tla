----------------------- MODULE PartitionManagerProofs -----------------------
(***************************************************************************)
(* What holds of the partition manager for every number of processes,      *)
(* weeks and faults: no unpublished event is hidden, no partition is       *)
(* dropped before its grace period, and one run without a fault keeps      *)
(* events out of the default partition for WeeksAhead weeks. All of it     *)
(* rests on the calendar: the week of a partition can be read back from    *)
(* its name.                                                               *)
(***************************************************************************)
EXTENDS PartitionManager, TLAPS

-----------------------------------------------------------------------------
(* Every day of the calendar's weeks falls into one of its years.            *)
LEMMA YearExists ==
    ASSUME NEW t \in Nat, t <= 13303
    PROVE  \E y \in Years : yearStart(y) <= t /\ t < yearStart(y + 1)
<1> DEFINE k == (4 * t) \div 1461
           y == 2024 + k
<1>1. k \in Nat /\ k <= 36 /\ 1461 * k <= 4 * t /\ 4 * t < 1461 * k + 1461
  OBVIOUS
<1>2. y \in Years
  BY <1>1 DEF Years
<1>3. yearStart(y) <= t
  BY <1>1 DEF yearStart
<1>4. t < yearStart(y + 1)
  BY <1>1 DEF yearStart
<1> QED BY <1>2, <1>3, <1>4

(* The Monday of the week that ISOWeek counts from the year's start is the   *)
(* Monday of the day it was asked for.                                       *)
LEMMA WeekArithmetic ==
    ASSUME NEW ys \in Nat, NEW w \in Nat, ys <= 7 * w + 3
    PROVE  (ys + 3) - ((ys + 3) % 7) + ((((7 * w + 3) - ys) \div 7 + 1) - 1) * 7 = 7 * w
<1> DEFINE e == 7 * w + 3 - ys
           q == e \div 7
           r == e % 7
<1>1. e \in Nat /\ q \in Nat /\ r \in 0 .. 6 /\ e = 7 * q + r
  OBVIOUS
<1>2. ys + 3 = 7 * (w - q) + (6 - r)
  BY <1>1
<1>3. (ys + 3) % 7 = 6 - r
  BY <1>1, <1>2
<1> QED BY <1>1, <1>2, <1>3

(* The name of a week's partition is made from a year of the calendar, and   *)
(* the week read back from it is the week it was made from                   *)
(* (manager.go:158-183).                                                     *)
LEMMA WeekOfName ==
    ASSUME NEW w \in Calendar
    PROVE  /\ weekEndFromName(partitionName(dayOf(w))) = dayOf(w) + 7
           /\ partitionName(dayOf(w)) # Default
<1> DEFINE t == 7 * w + 3
           y == yearOf(t)
           ys == yearStart(y)
           week == (t - ys) \div 7 + 1
<1>1. w \in Nat /\ t \in Nat /\ t <= 13303 /\ dayOf(w) = 7 * w /\ dayOf(w) - (dayOf(w) % 7) + 3 = t
  BY DEF dayOf, Calendar
<1>2. \E x \in Years : yearStart(x) <= t /\ t < yearStart(x + 1)
  BY <1>1, YearExists
<1>3. partitionName(dayOf(w)) = <<y, week>>
  BY <1>1 DEF partitionName, ISOWeek
<1> HIDE DEF t
<1>4. y \in Years /\ ys <= t
  BY <1>2 DEF yearOf
<1> HIDE DEF y
<1>5. ys \in Nat
  BY <1>4 DEF yearStart, Years
<1>6. isoWeekStart(y, week) = (ys + 3) - ((ys + 3) % 7) + (((t - ys) \div 7 + 1) - 1) * 7
  BY DEF isoWeekStart
<1> HIDE DEF ys
<1>7. isoWeekStart(y, week) = 7 * w
  BY <1>1, <1>4, <1>5, <1>6, WeekArithmetic DEF t
<1> HIDE DEF week
<1>8. <<y, week>> # Default
  BY <1>4 DEF Years, Default
<1> QED BY <1>1, <1>3, <1>7, <1>8 DEF weekEndFromName

(* Every week's partition name reads back as the end of that week, over all  *)
(* turns of the year of the calendar: no two weeks share a partition, and    *)
(* detachStale judges each partition by its own week.                        *)
THEOREM NamesRoundTrip == NameRoundTrip
BY WeekOfName, Zenon DEF NameRoundTrip

-----------------------------------------------------------------------------
(* The inductive invariant. What a run has read it may use much later, with  *)
(* the relay and other runs at work in between, so the invariant says what   *)
(* stays true of it: a partition found old stays old, one found empty of     *)
(* unpublished events stays so because no event is written to an old week,   *)
(* and one that left the outbox never comes back.                            *)
Steps == {"idle", "create", "list", "count", "detach", "logdetach", "droplist", "drop", "logdrop"}
Run == [pc : Steps, i : Nat, base : Nat, todo : SUBSET Names, name : Names \cup {Default}, faults : Nat]

PType ==
    /\ day \in {dayOf(w) : w \in FirstWeek .. LastWeek}
    /\ table \in [Names -> {"none", "attached", "detached", "dropped"}]
    /\ row \in [week : FirstWeek .. LastWeek,
                status : {"none", "PENDING", "PUBLISHING", "PUBLISHED", "FAILED"},
                part : Names \cup {Default}]
    /\ log \in [Names -> [detach : Nat, drop : Nat]]
    /\ manager \in [Processes -> Run]
    /\ gone \in [Names -> Nat]

Stale(n) == weekEndFromName(n) < weekStart(day) - 7 * RetentionWeeks
Away(n) == table[n] \in {"detached", "dropped"} /\ gone[n] <= day
Waiting(n) == row.part = n /\ row.status \in unpublished

RunOK(p) ==
    /\ manager[p].pc \in {"create", "list", "droplist"} => manager[p].todo = {}
    /\ manager[p].pc \in {"count", "detach", "logdetach"} => \A n \in manager[p].todo : Stale(n)
    /\ manager[p].pc = "detach" =>
         manager[p].name \in Names /\ Stale(manager[p].name) /\ ~Waiting(manager[p].name)
    /\ manager[p].pc = "logdetach" => manager[p].name \in Names /\ Away(manager[p].name)
    /\ manager[p].pc \in {"drop", "logdrop"} =>
         \A n \in manager[p].todo : Away(n) /\ gone[n] + 7 * DropAfter < day

LogOK == \A n \in Names : log[n].detach # Never => Away(n) /\ gone[n] <= log[n].detach

PInv ==
    /\ PType
    /\ \A p \in Processes : RunOK(p)
    /\ LogOK
    /\ UnpublishedStayVisible

-----------------------------------------------------------------------------
(* Days and names.                                                           *)
LEMMA Days ==
    ASSUME NEW d \in {dayOf(w) : w \in FirstWeek .. LastWeek}
    PROVE  /\ d \in Nat /\ d % 7 = 0 /\ weekStart(d) = d
           /\ weekEndFromName(partitionName(weekStart(d))) = d + 7
           /\ partitionName(weekStart(d)) \in Names
<1>1. PICK w \in FirstWeek .. LastWeek : d = dayOf(w)
  OBVIOUS
<1>2. w \in Nat /\ w \in Calendar /\ w \in Weeks
  <2>1. /\ FirstWeek \in Nat \ {0} /\ LastWeek \in Nat /\ WeeksAhead \in Nat
        /\ LastWeek + WeeksAhead + 2 <= 1900
    BY PartitionConstants
  <2>2. w \in Nat /\ FirstWeek <= w /\ w <= LastWeek
    BY <1>1, <2>1
  <2>3. QED
    BY <2>1, <2>2 DEF Weeks, Calendar
<1>3. d \in Nat /\ d % 7 = 0 /\ weekStart(d) = d
  <2>1. d = 7 * w
    BY <1>1 DEF dayOf
  <2>2. d \in Nat /\ d % 7 = 0
    BY <1>2, <2>1
  <2>3. QED
    BY <2>2 DEF weekStart
<1>4. weekEndFromName(partitionName(d)) = d + 7
  <2>1. weekEndFromName(partitionName(dayOf(w))) = dayOf(w) + 7
    BY <1>2, WeekOfName, Zenon
  <2>2. QED
    BY <1>1, <2>1, Zenon
<1> QED BY <1>1, <1>2, <1>3, <1>4 DEF Names

(* A partition's name gives a day, and is not the default partition's.       *)
LEMMA NameWeeks ==
    ASSUME NEW n \in Names
    PROVE  weekEndFromName(n) \in Nat /\ n # Default
<1>1. PICK w \in Weeks : n = partitionName(dayOf(w))
  BY DEF Names
<1>2. w \in Calendar
  BY PartitionConstants DEF Weeks, Calendar
<1>3. dayOf(w) \in Nat
  BY <1>2 DEF dayOf, Calendar
<1>4. weekEndFromName(partitionName(dayOf(w))) = dayOf(w) + 7 /\ partitionName(dayOf(w)) # Default
  BY <1>2, WeekOfName, Zenon
<1>5. dayOf(w) + 7 \in Nat
  BY <1>3
<1> QED BY <1>1, <1>4, <1>5, Zenon

(* The invariant holds at first.                                             *)
LEMMA InitPInv == PInit => PInv
<1> SUFFICES ASSUME PInit PROVE PInv
  OBVIOUS
<1>1. day \in {dayOf(w) : w \in FirstWeek .. LastWeek}
  BY PartitionConstants DEF PInit
<1>2. table \in [Names -> {"none", "attached", "detached", "dropped"}]
  BY DEF PInit
<1>3. row \in [week : FirstWeek .. LastWeek,
               status : {"none", "PENDING", "PUBLISHING", "PUBLISHED", "FAILED"},
               part : Names \cup {Default}] /\ row.status = "none"
  BY PartitionConstants DEF PInit
<1>4. manager \in [Processes -> Run]
  BY DEF PInit, NoRun, Run, Steps
<1>5. log \in [Names -> [detach : Nat, drop : Nat]] /\ gone \in [Names -> Nat]
  BY DEF PInit, Never
<1>6. \A p \in Processes : RunOK(p)
  BY DEF PInit, NoRun, RunOK
<1>7. LogOK
  BY DEF PInit, LogOK
<1> QED BY <1>1, <1>2, <1>3, <1>4, <1>5, <1>6, <1>7 DEF PInv, PType, UnpublishedStayVisible

(* Every step keeps the types.                                               *)
LEMMA NextPType == PType /\ [PNext]_partVars => PType'
<1> SUFFICES ASSUME PType, [PNext]_partVars PROVE PType'
  OBVIOUS
<1> USE DEF PType
<1>1. CASE UNCHANGED partVars
  BY <1>1 DEF partVars
<1>2. CASE NextWeek
  <2>1. day' \in {dayOf(w) : w \in FirstWeek .. LastWeek}
    <3>1. PICK w \in FirstWeek .. LastWeek : day = dayOf(w)
      OBVIOUS
    <3>2. w \in Nat /\ LastWeek \in Nat /\ FirstWeek \in Nat
      BY PartitionConstants
    <3>3. w + 1 \in FirstWeek .. LastWeek /\ day' = dayOf(w + 1)
      BY <1>2, <3>1, <3>2 DEF NextWeek, dayOf
    <3> QED BY <3>3
  <2> QED BY <1>2, <2>1 DEF NextWeek
<1>3. CASE WriteEvent
  <2>1. holding(day) # {} => (CHOOSE n \in holding(day) : TRUE) \in Names
    BY DEF holding
  <2> QED BY Zenon, <1>3, <2>1 DEF WriteEvent
<1>4. CASE RelayStep
  <2>1. row' \in [week : FirstWeek .. LastWeek,
                  status : {"none", "PENDING", "PUBLISHING", "PUBLISHED", "FAILED"},
                  part : Names \cup {Default}]
    BY <1>4 DEF RelayStep
  <2> QED BY <1>4, <2>1 DEF RelayStep
<1>5. ASSUME NEW p \in Processes, AcquireLock(p) PROVE PType'
  <2>1. weekStart(day) \in Nat
    BY Days
  <2>2. manager' \in [Processes -> Run]
    BY Zenon, <1>5, <2>1 DEF AcquireLock, NoRun, Run, Steps
  <2> QED BY <1>5, <2>2 DEF AcquireLock
<1>6. ASSUME NEW p \in Processes, ManagerStep(p) PROVE PType'
  <2> USE DEF Run, Steps
  <2>0. manager[p] \in Run
    OBVIOUS
  <2>1. CASE PreCreate(p)
    <3>1. manager' \in [Processes -> Run]
      <4>1. manager' = [manager EXCEPT ![p].i = @ + 1,
                          ![p].pc = IF manager[p].i = lastToCreate THEN "list" ELSE "create"]
        BY <2>1 DEF PreCreate
      <4> DEFINE next == IF manager[p].i = lastToCreate THEN "list" ELSE "create"
                 i == manager[p].i + 1
      <4>2. next \in Steps /\ i \in Nat
        BY <2>0
      <4>3. manager' = [manager EXCEPT ![p] = [manager[p] EXCEPT !.i = i, !.pc = next]]
        BY Zenon, <4>1
      <4> HIDE DEF next, i
      <4> QED BY Zenon, <4>2, <4>3, <2>0
    <3>2. table' \in [Names -> {"none", "attached", "detached", "dropped"}]
      BY <2>1 DEF PreCreate
    <3> QED BY <2>1, <3>1, <3>2 DEF PreCreate
  <2>2. CASE ListPartitions(p)
    <3>1. manager' \in [Processes -> Run]
      BY Zenon, <2>2, <2>0 DEF ListPartitions
    <3> QED BY Zenon, <2>2, <3>1 DEF ListPartitions, store
  <2>3. CASE CountUnpublished(p)
    <3>1. manager' \in [Processes -> Run]
      <4>1. CASE manager' = [manager EXCEPT ![p].pc = "droplist"]
        BY Zenon, <4>1, <2>0
      <4>2. ASSUME NEW n \in manager[p].todo,
                   manager' = [manager EXCEPT ![p].todo = @ \ {n},
                                 ![p].name = IF countUnpublished(n) > 0 THEN Default ELSE n,
                                 ![p].pc = IF countUnpublished(n) > 0 THEN "count" ELSE "detach"]
            PROVE  manager' \in [Processes -> Run]
        BY Zenon, <4>2, <2>0
      <4> QED BY <2>3, <4>1, <4>2 DEF CountUnpublished
    <3> QED BY Zenon, <2>3, <3>1 DEF CountUnpublished, store
  <2>4. CASE DetachPartition(p)
    <3>1. day \in Nat
      BY Days
    <3>2. CASE table[manager[p].name] = "attached"
      <4>1. manager' = [manager EXCEPT ![p].pc = "logdetach"]
        BY <2>4, <3>2 DEF DetachPartition
      <4>2. manager' \in [Processes -> Run]
        BY <4>1, <2>0
      <4>3. table' = [table EXCEPT ![manager[p].name] = "detached"]
            /\ gone' = [gone EXCEPT ![manager[p].name] = day]
        BY <2>4, <3>2 DEF DetachPartition
      <4>4. table' \in [Names -> {"none", "attached", "detached", "dropped"}] /\ gone' \in [Names -> Nat]
        BY Zenon, <4>3, <3>1
      <4> QED BY <2>4, <4>2, <4>4 DEF DetachPartition
    <3>3. CASE table[manager[p].name] # "attached"
      <4>1. manager' = [manager EXCEPT ![p].pc = "count", ![p].name = Default]
        BY Zenon, <2>4, <3>3 DEF DetachPartition
      <4>2. manager' \in [Processes -> Run]
        BY Zenon, <4>1, <2>0
      <4> QED BY <2>4, <3>3, <4>2 DEF DetachPartition
    <3> QED BY <3>2, <3>3
  <2>5. CASE LogDetach(p)
    <3>1. day \in Nat
      BY Days
    <3>2. log' \in [Names -> [detach : Nat, drop : Nat]]
      <4>1. log' = [log EXCEPT ![manager[p].name].detach = IF @ = Never THEN day ELSE @]
        BY <2>5 DEF LogDetach
      <4>2. log \in [Names -> [detach : Nat, drop : Nat]]
        OBVIOUS
      <4> QED BY Zenon, <3>1, <4>1, <4>2
    <3>3. manager' \in [Processes -> Run]
      <4>1. manager' = [manager EXCEPT ![p].pc = "count", ![p].name = Default]
        BY <2>5 DEF LogDetach
      <4> QED BY <4>1, <2>0
    <3> QED BY <2>5, <3>2, <3>3 DEF LogDetach, store
  <2>6. CASE PartitionsDetachedBefore(p)
    <3>1. manager' \in [Processes -> Run]
      BY Zenon, <2>6, <2>0 DEF PartitionsDetachedBefore
    <3> QED BY Zenon, <2>6, <3>1 DEF PartitionsDetachedBefore, store
  <2>7. CASE DropPartition(p)
    <3>1. PICK n \in manager[p].todo :
            /\ table' = [table EXCEPT ![n] = "dropped"]
            /\ manager' = [manager EXCEPT ![p].todo = @ \ {n}, ![p].name = n, ![p].pc = "logdrop"]
      BY Zenon, <2>7 DEF DropPartition
    <3>2. manager' \in [Processes -> Run]
      BY Zenon, <3>1, <2>0
    <3>3. table' \in [Names -> {"none", "attached", "detached", "dropped"}]
      BY <3>1
    <3> QED BY <2>7, <3>2, <3>3 DEF DropPartition, store
  <2>8. CASE LogDrop(p)
    <3>1. day \in Nat
      BY Days
    <3>2. log' \in [Names -> [detach : Nat, drop : Nat]]
      BY Zenon, <2>8, <3>1 DEF LogDrop
    <3>3. manager' \in [Processes -> Run]
      BY Zenon, <2>8, <2>0 DEF LogDrop
    <3> QED BY <2>8, <3>2, <3>3 DEF LogDrop, store
  <2>9. CASE ReleaseLock(p)
    <3>1. manager' \in [Processes -> Run]
      BY <2>9 DEF ReleaseLock, NoRun
    <3> QED BY <2>9, <3>1 DEF ReleaseLock
  <2>10. CASE StatementFails(p)
    <3>1. manager' \in [Processes -> Run]
      <4>1. CASE \E n \in manager[p].todo :
                   manager' = [manager EXCEPT ![p].todo = @ \ {n}, ![p].faults = @ + 1]
        BY <4>1, <2>0
      <4>2. ASSUME NEW here, NEW there \in Steps,
                   manager' = [manager EXCEPT ![p].pc = there, ![p].faults = @ + 1, ![p].name = Default,
                                 ![p].i = IF here = "create" THEN @ + 1 ELSE @]
            PROVE  manager' \in [Processes -> Run]
        BY <4>2, <2>0
      <4>3. CASE \E next \in {<<"create", IF manager[p].i = lastToCreate THEN "list" ELSE "create">>,
                       <<"list", "droplist">>, <<"detach", "count">>, <<"logdetach", "count">>,
                       <<"droplist", "drop">>, <<"logdrop", "drop">>} :
                   manager' = [manager EXCEPT ![p].pc = next[2], ![p].faults = @ + 1, ![p].name = Default,
                                 ![p].i = IF next[1] = "create" THEN @ + 1 ELSE @]
        <5>1. \E here, there \in Steps :
                manager' = [manager EXCEPT ![p].pc = there, ![p].faults = @ + 1, ![p].name = Default,
                              ![p].i = IF here = "create" THEN @ + 1 ELSE @]
          <6>1. PICK next \in {<<"create", IF manager[p].i = lastToCreate THEN "list" ELSE "create">>,
                       <<"list", "droplist">>, <<"detach", "count">>, <<"logdetach", "count">>,
                       <<"droplist", "drop">>, <<"logdrop", "drop">>} :
                   manager' = [manager EXCEPT ![p].pc = next[2], ![p].faults = @ + 1, ![p].name = Default,
                                 ![p].i = IF next[1] = "create" THEN @ + 1 ELSE @]
            BY <4>3
          <6>2. next[2] \in Steps
            BY <6>1
          <6> QED BY <6>1, <6>2, Zenon
        <5> QED BY <5>1, <4>2, Zenon
      <4> QED BY <2>10, <4>1, <4>3, Zenon DEF StatementFails
    <3> QED BY <2>10, <3>1 DEF StatementFails
  <2>11. CASE LoseLock(p)
    <3>1. manager' \in [Processes -> Run]
      <4>1. manager' = [manager EXCEPT ![p].faults = @ + 1]
        BY <2>11 DEF LoseLock
      <4> DEFINE faults == manager[p].faults + 1
      <4>2. faults \in Nat
        BY <2>0
      <4>3. manager' = [manager EXCEPT ![p] = [manager[p] EXCEPT !.faults = faults]]
        BY <4>1
      <4> HIDE DEF faults
      <4> QED BY <4>2, <4>3, <2>0
    <3> QED BY <2>11, <3>1 DEF LoseLock
  <2>12. CASE Crash(p)
    <3>1. manager' \in [Processes -> Run]
      BY <2>12 DEF Crash, NoRun
    <3> QED BY <2>12, <3>1 DEF Crash
  <2> QED BY <1>6, <2>1, <2>2, <2>3, <2>4, <2>5, <2>6, <2>7, <2>8, <2>9, <2>10, <2>11, <2>12
          DEF ManagerStep
<1> QED BY <1>1, <1>2, <1>3, <1>4, <1>5, <1>6 DEF PNext

-----------------------------------------------------------------------------
(* What no step takes back: time goes on, old partitions stay old, one that  *)
(* is not attached any more keeps its day, and an old one gets no event.     *)
Keeps ==
    /\ day <= day'
    /\ \A n \in Names : Stale(n) => Stale(n)'
    /\ \A n \in Names : Away(n) => Away(n)' /\ gone'[n] = gone[n]
    /\ \A n \in Names : Stale(n) /\ ~Waiting(n) => ~Waiting(n)'

(* No step does: tables go from none to attached, detached and dropped.      *)
LEMMA NextKeeps == PInv /\ [PNext]_partVars => Keeps
<1> SUFFICES ASSUME PInv, [PNext]_partVars PROVE Keeps
  OBVIOUS
<1>1. PType
  BY DEF PInv
<1>2. day \in Nat
  BY <1>1, Days DEF PType
<1>3. CASE UNCHANGED <<day, row, table, gone>>
  BY <1>2, <1>3 DEF Keeps, Stale, Away, Waiting
<1>4. CASE NextWeek
  <2>1. day' = day + 7 /\ UNCHANGED <<row, table, gone>>
    BY <1>4 DEF NextWeek
  <2>2. weekStart(day) = day /\ weekStart(day') = day'
    BY <1>1, NextPType, Days DEF PType
  <2>3. \A n \in Names : Stale(n) => Stale(n)'
    BY <1>2, <2>1, <2>2, NameWeeks, PartitionConstants DEF Stale
  <2>4. \A n \in Names : Away(n) => Away(n)' /\ gone'[n] = gone[n]
    BY <1>1, <1>2, <2>1 DEF Away, PType
  <2> QED BY <1>2, <2>1, <2>3, <2>4 DEF Keeps, Waiting
<1>5. CASE WriteEvent
  <2>1. UNCHANGED <<day, table, gone>>
    BY <1>5 DEF WriteEvent
  <2>2. row'.part = Default \/ row'.part = partitionName(weekStart(day))
    BY <1>1, <1>5 DEF WriteEvent, holding, PType
  <2>3. \A n \in Names : Stale(n) => n # partitionName(weekStart(day))
    BY <1>1, <1>2, Days, PartitionConstants DEF Stale, PType
  <2>4. \A n \in Names : Stale(n) => ~Waiting(n)'
    BY <2>2, <2>3, NameWeeks DEF Waiting
  <2> QED BY <1>2, <2>1, <2>4 DEF Keeps, Stale, Away
<1>6. CASE RelayStep
  <2>1. UNCHANGED <<day, table, gone>>
    BY <1>6 DEF RelayStep
  <2>2. row'.part = row.part /\ (row'.status \in unpublished => row.status \in unpublished)
    BY <1>1, <1>6 DEF RelayStep, PType, unpublished
  <2> QED BY <1>2, <2>1, <2>2 DEF Keeps, Stale, Away, Waiting
<1>7. ASSUME NEW p \in Processes, AcquireLock(p) \/ ManagerStep(p) PROVE Keeps
  <2>1. UNCHANGED <<day, row>>
    BY Zenon, <1>7 DEF AcquireLock, ManagerStep, PreCreate, ListPartitions, CountUnpublished, DetachPartition,
                LogDetach, PartitionsDetachedBefore, DropPartition, LogDrop, ReleaseLock, StatementFails,
                LoseLock, Crash, store
  <2> SUFFICES \A n \in Names : Away(n) => Away(n)' /\ gone'[n] = gone[n]
    BY <1>2, <2>1 DEF Keeps, Stale, Waiting
  <2>2. CASE PreCreate(p)
    <3>1. gone' = gone /\ \A n \in Names : table'[n] = table[n] \/ table[n] = "none"
      BY <1>1, <2>2 DEF PreCreate, PType
    <3> QED BY <2>1, <3>1 DEF Away
  <2>3. CASE DetachPartition(p)
    <3>1. \A n \in Names : table[n] # "attached" => table'[n] = table[n] /\ gone'[n] = gone[n]
      BY <1>1, <2>3 DEF DetachPartition, PType
    <3> QED BY <2>1, <3>1 DEF Away
  <2>4. CASE DropPartition(p)
    <3>1. gone' = gone /\ \A n \in Names : table'[n] = table[n] \/ table'[n] = "dropped"
      BY <1>1, <2>4 DEF DropPartition, store, PType
    <3> QED BY <2>1, <3>1 DEF Away
  <2>5. CASE UNCHANGED <<table, gone>>
    BY <2>1, <2>5 DEF Away
  <2> QED BY Zenon, <1>7, <2>2, <2>3, <2>4, <2>5
          DEF AcquireLock, ManagerStep, ListPartitions, CountUnpublished, LogDetach,
              PartitionsDetachedBefore, LogDrop, ReleaseLock, StatementFails, LoseLock, Crash, store
<1> QED BY <1>3, <1>4, <1>5, <1>6, <1>7 DEF PNext, partVars

(* A run that does not move keeps what it knows.                             *)
LEMMA OthersKeep ==
    ASSUME PType, PType', Keeps, NEW q \in Processes, RunOK(q), manager'[q] = manager[q]
    PROVE  RunOK(q)'
<1>1. manager[q].todo \subseteq Names
  BY DEF PType, Run
<1>2. day \in Nat /\ day' \in Nat
  BY Days DEF PType
<1>3. \A n \in Names : gone[n] \in Nat
  BY DEF PType
<1>4. \A n \in manager[q].todo : Stale(n) => Stale(n)'
  BY <1>1 DEF Keeps
<1>5. \A n \in manager[q].todo : Away(n) /\ gone[n] + 7 * DropAfter < day =>
        Away(n)' /\ gone'[n] + 7 * DropAfter < day'
  BY <1>1, <1>2, <1>3, PartitionConstants DEF Keeps
<1>6. manager[q].name \in Names =>
        /\ Away(manager[q].name) => Away(manager[q].name)'
        /\ Stale(manager[q].name) /\ ~Waiting(manager[q].name) =>
             Stale(manager[q].name)' /\ ~Waiting(manager[q].name)'
  BY DEF Keeps
<1> QED BY <1>4, <1>5, <1>6 DEF RunOK, Stale, Away, Waiting

(* What a log entry lets a run drop.                                         *)
LEMMA Droppable ==
    ASSUME PType, LogOK, NEW n \in Names, detachedBefore(n)
    PROVE  Away(n) /\ gone[n] + 7 * DropAfter < day
<1>1. Away(n) /\ gone[n] <= log[n].detach /\ log[n].detach + 7 * DropAfter < day
  BY DEF LogOK, detachedBefore
<1>2. gone[n] \in Nat /\ log[n].detach \in Nat /\ DropAfter \in Nat /\ day \in Nat
  BY PartitionConstants, Days DEF PType
<1> QED BY <1>1, <1>2

(* A run that moves knows what its next step assumes.                        *)
LEMMA MoverKeeps ==
    ASSUME PInv, PType', Keeps, NEW p \in Processes, AcquireLock(p) \/ ManagerStep(p)
    PROVE  RunOK(p)'
<1>1. PType /\ RunOK(p) /\ LogOK
  BY DEF PInv
<1>2. manager[p] \in Run /\ manager[p].todo \subseteq Names /\ p \in DOMAIN manager
  BY <1>1 DEF PType, Run
<1>3. CASE AcquireLock(p)
  <2>1. manager'[p].pc = "create" /\ manager'[p].todo = {}
    BY Zenon, <1>2, <1>3 DEF AcquireLock, NoRun
  <2> QED BY <2>1 DEF RunOK
<1>4. CASE PreCreate(p)
  <2>1. manager[p].pc = "create" /\ manager'[p].pc \in {"create", "list"}
        /\ manager'[p].todo = manager[p].todo
    BY <1>2, <1>4 DEF PreCreate, Run
  <2> QED BY <1>1, <2>1 DEF RunOK
<1>5. CASE ListPartitions(p)
  <2>1. manager'[p].pc = "count" /\ day' = day
        /\ manager'[p].todo = {n \in Names : table[n] = "attached" /\
                                 weekEndFromName(n) < weekStart(day) - 7 * RetentionWeeks}
    BY Zenon, <1>2, <1>5 DEF ListPartitions, store, Run
  <2>2. \A n \in manager'[p].todo : Stale(n)'
    BY <2>1 DEF Stale
  <2> QED BY <2>1, <2>2 DEF RunOK, Stale
<1>6. CASE CountUnpublished(p)
  <2>0. UNCHANGED <<day, row>> /\ manager[p].pc = "count" /\ \A n \in manager[p].todo : Stale(n)
    BY Zenon, <1>1, <1>6 DEF CountUnpublished, store, RunOK
  <2>1. CASE manager[p].todo = {} /\ manager' = [manager EXCEPT ![p].pc = "droplist"]
    <3>1. manager'[p].pc = "droplist" /\ manager'[p].todo = {}
      BY <1>2, <2>1 DEF Run
    <3> QED BY <3>1 DEF RunOK
  <2>2. ASSUME NEW n \in manager[p].todo,
               manager' = [manager EXCEPT ![p].todo = @ \ {n},
                             ![p].name = IF countUnpublished(n) > 0 THEN Default ELSE n,
                             ![p].pc = IF countUnpublished(n) > 0 THEN "count" ELSE "detach"]
        PROVE  RunOK(p)'
    <3>1. manager'[p].todo \subseteq manager[p].todo
      BY <1>2, <2>2 DEF Run
    <3>2. \A m \in manager'[p].todo : Stale(m)'
      BY <2>0, <3>1 DEF Stale
    <3>3. CASE manager'[p].pc = "count"
      BY <3>2, <3>3 DEF RunOK, Stale
    <3>4. CASE manager'[p].pc = "detach" /\ manager'[p].name = n /\ ~Waiting(n)
      <4>1. n \in Names /\ Stale(n)
        BY <1>2, <2>0
      <4>2. Stale(manager[p].name)' /\ ~Waiting(manager[p].name)'
        BY <2>0, <3>4, <4>1 DEF Stale, Waiting
      <4> QED BY <3>2, <3>4, <4>1, <4>2 DEF RunOK, Stale
    <3>5. CASE countUnpublished(n) > 0
      BY Zenon, <1>2, <2>2, <3>3, <3>5 DEF Run
    <3>6. CASE ~(countUnpublished(n) > 0)
      <4>1. ~Waiting(n)
        BY <3>6 DEF countUnpublished, Waiting
      <4>2. manager'[p].pc = "detach" /\ manager'[p].name = n
        BY Zenon, <1>2, <2>2, <3>6 DEF Run
      <4> QED BY <3>4, <4>1, <4>2
    <3> QED BY <3>5, <3>6
  <2> QED BY Zenon, <1>6, <2>1, <2>2 DEF CountUnpublished
<1>7. CASE DetachPartition(p)
  <2>0. manager[p].pc = "detach" /\ manager[p].name \in Names /\ day' = day
        /\ \A n \in manager[p].todo : Stale(n)
    BY <1>1, <1>7 DEF DetachPartition, RunOK
  <2>1. \A n \in manager[p].todo : Stale(n)'
    BY <2>0 DEF Stale
  <2>2. CASE table[manager[p].name] = "attached"
    <3>1. manager'[p].pc = "logdetach" /\ manager'[p].name = manager[p].name
          /\ manager'[p].todo = manager[p].todo
      BY <1>2, <1>7, <2>2 DEF DetachPartition, Run
    <3>2. day \in Nat /\ table'[manager[p].name] = "detached" /\ gone'[manager[p].name] = day
      BY <1>1, <1>7, <2>0, <2>2, Days DEF DetachPartition, PType
    <3>3. Away(manager[p].name)'
      BY <2>0, <3>1, <3>2 DEF Away
    <3> QED BY <2>0, <2>1, <3>1, <3>3 DEF RunOK, Stale
  <2>3. CASE table[manager[p].name] # "attached"
    <3>1. manager'[p].pc = "count" /\ manager'[p].todo = manager[p].todo
      BY <1>2, <1>7, <2>3 DEF DetachPartition, Run
    <3> QED BY <2>1, <3>1 DEF RunOK, Stale
  <2> QED BY <2>2, <2>3
<1>8. CASE LogDetach(p)
  <2>1. manager'[p].pc = "count" /\ manager'[p].todo = manager[p].todo /\ manager[p].pc = "logdetach"
        /\ day' = day
    BY <1>2, <1>8 DEF LogDetach, store, Run
  <2>2. \A n \in manager[p].todo : Stale(n)'
    BY <1>1, <2>1 DEF RunOK, Stale
  <2> QED BY <2>1, <2>2 DEF RunOK, Stale
<1>9. CASE PartitionsDetachedBefore(p)
  <2>1. manager'[p].pc = "drop" /\ manager'[p].todo = {n \in Names : detachedBefore(n)}
        /\ UNCHANGED <<day, table, gone>>
    BY Zenon, <1>2, <1>9 DEF PartitionsDetachedBefore, store, Run
  <2>2. \A n \in manager'[p].todo : Away(n)' /\ gone'[n] + 7 * DropAfter < day'
    BY <1>1, <2>1, Droppable DEF Away
  <2> QED BY <2>1, <2>2 DEF RunOK, Away
<1>10. CASE DropPartition(p)
  <2>1. PICK n \in manager[p].todo :
          manager' = [manager EXCEPT ![p].todo = @ \ {n}, ![p].name = n, ![p].pc = "logdrop"]
    BY <1>10 DEF DropPartition
  <2>2. manager'[p].pc = "logdrop" /\ manager'[p].todo \subseteq manager[p].todo
    BY Zenon, <1>2, <2>1 DEF Run
  <2>3. day' = day /\ \A m \in manager[p].todo : Away(m) /\ gone[m] + 7 * DropAfter < day
    BY <1>1, <1>10 DEF RunOK, DropPartition, store
  <2>4. \A m \in manager'[p].todo : Away(m)' /\ gone'[m] + 7 * DropAfter < day'
    BY <1>2, <2>2, <2>3 DEF Keeps
  <2> QED BY <2>2, <2>4 DEF RunOK, Away
<1>11. CASE LogDrop(p)
  <2>1. manager'[p].pc = "drop" /\ manager'[p].todo = manager[p].todo
        /\ UNCHANGED <<day, table, gone>>
    BY <1>2, <1>11 DEF LogDrop, store, Run
  <2>2. \A m \in manager[p].todo : Away(m) /\ gone[m] + 7 * DropAfter < day
    BY <1>1, <1>11 DEF RunOK, LogDrop
  <2> QED BY <2>1, <2>2 DEF RunOK, Away
<1>12. CASE ReleaseLock(p) \/ Crash(p)
  <2>1. manager'[p].pc = "idle"
    BY <1>2, <1>12 DEF ReleaseLock, Crash, NoRun
  <2> QED BY <2>1 DEF RunOK
<1>13. CASE StatementFails(p)
  <2>0. UNCHANGED <<day, table, gone>>
    BY <1>13 DEF StatementFails
  <2> DEFINE Moves == {<<"create", IF manager[p].i = lastToCreate THEN "list" ELSE "create">>,
                       <<"list", "droplist">>, <<"detach", "count">>, <<"logdetach", "count">>,
                       <<"droplist", "drop">>, <<"logdrop", "drop">>}
             Onward ==
               \/ manager'[p].pc \in {"create", "list"} /\ manager[p].pc = "create"
               \/ manager'[p].pc = "droplist" /\ manager[p].pc = "list"
               \/ manager'[p].pc = "count" /\ manager[p].pc \in {"count", "detach", "logdetach"}
               \/ manager'[p].pc = "drop" /\ manager[p].pc \in {"droplist", "drop", "logdrop"}
  <2>a. ASSUME NEW next \in Moves, manager[p].pc = next[1],
               manager' = [manager EXCEPT ![p].pc = next[2], ![p].faults = @ + 1, ![p].name = Default,
                             ![p].i = IF next[1] = "create" THEN @ + 1 ELSE @]
        PROVE  manager'[p].todo \subseteq manager[p].todo /\ Onward
    <3>1. manager'[p].pc = next[2] /\ manager'[p].todo = manager[p].todo
      BY <1>2, <2>a DEF Run
    <3>2. manager[p].pc = next[1]
      BY <2>a
    <3> QED BY <3>1, <3>2
  <2>b. ASSUME NEW n \in manager[p].todo, manager[p].pc \in {"count", "drop"},
               manager' = [manager EXCEPT ![p].todo = @ \ {n}, ![p].faults = @ + 1]
        PROVE  manager'[p].todo \subseteq manager[p].todo /\ Onward
    <3>1. manager'[p].pc = manager[p].pc /\ manager'[p].todo = manager[p].todo \ {n}
      BY <1>2, <2>b DEF Run
    <3>2. manager[p].pc \in {"count", "drop"}
      BY <2>b
    <3> QED BY <3>1, <3>2
  <2>c. manager'[p].todo \subseteq manager[p].todo /\ Onward
    <3> HIDE DEF Onward
    <3> QED BY <1>13, <2>a, <2>b, Zenon DEF StatementFails
  <2>1. manager'[p].todo \subseteq manager[p].todo
    BY <2>c
  <2>2. Onward
    BY <2>c
  <2>3. CASE manager'[p].pc \in {"create", "list", "droplist"}
    BY <1>1, <2>1, <2>2, <2>3 DEF RunOK
  <2>4. CASE manager'[p].pc = "count"
    <3>1. \A n \in manager'[p].todo : Stale(n)'
      BY <1>1, <2>0, <2>1, <2>2, <2>4 DEF RunOK, Stale
    <3> QED BY <2>4, <3>1 DEF RunOK, Stale
  <2>5. CASE manager'[p].pc = "drop"
    <3>1. \A n \in manager'[p].todo : Away(n)' /\ gone'[n] + 7 * DropAfter < day'
      BY <1>1, <2>0, <2>1, <2>2, <2>5 DEF RunOK, Away
    <3> QED BY <2>5, <3>1 DEF RunOK, Away
  <2> QED BY <2>2, <2>3, <2>4, <2>5
<1>14. CASE LoseLock(p)
  <2>1. manager'[p].pc = manager[p].pc /\ manager'[p].todo = manager[p].todo
        /\ manager'[p].name = manager[p].name /\ UNCHANGED <<day, table, gone, row>>
    BY <1>2, <1>14 DEF LoseLock, Run
  <2> QED BY <1>1, <2>1 DEF RunOK, Stale, Away, Waiting
<1> QED BY <1>3, <1>4, <1>5, <1>6, <1>7, <1>8, <1>9, <1>10, <1>11, <1>12, <1>13, <1>14 DEF ManagerStep

(* The log only names partitions that have left the outbox.                  *)
LEMMA NextLog == PInv /\ Keeps /\ [PNext]_partVars /\ PType' => LogOK'
<1> SUFFICES ASSUME PInv, Keeps, [PNext]_partVars, PType', NEW n \in Names, log'[n].detach # Never
             PROVE  Away(n)' /\ gone'[n] <= log'[n].detach
  BY DEF LogOK, Away
<1>1. PType /\ LogOK
  BY DEF PInv
<1>2. CASE log'[n].detach = log[n].detach
  BY <1>1, <1>2 DEF LogOK, Keeps
<1>3. CASE log'[n].detach # log[n].detach
  <2>1. PICK p \in Processes : LogDetach(p) \/ LogDrop(p)
    BY Zenon, <1>3 DEF PNext, partVars, NextWeek, WriteEvent, RelayStep, AcquireLock, ManagerStep, PreCreate,
                ListPartitions, CountUnpublished, DetachPartition, PartitionsDetachedBefore,
                DropPartition, ReleaseLock, StatementFails, LoseLock, Crash
  <2>2. log[n] \in [detach : Nat, drop : Nat]
    BY <1>1 DEF PType
  <2>3. ~LogDrop(p)
    BY <1>1, <1>3, <2>2 DEF LogDrop, PType
  <2>4. LogDetach(p)
    BY <2>1, <2>3
  <2>5. manager[p].name = n /\ log'[n].detach = day
    BY <1>1, <1>3, <2>2, <2>4 DEF LogDetach, PType
  <2>6. Away(n)
    BY <2>4, <2>5 DEF PInv, RunOK, LogDetach
  <2> QED BY <2>5, <2>6 DEF Keeps, Away
<1> QED BY <1>2, <1>3

(* An event that is to be published is in a partition that stays attached:   *)
(* a run detaches only one it found empty, and drops only detached ones.     *)
LEMMA NextVisible == PInv /\ [PNext]_partVars /\ PType' => UnpublishedStayVisible'
<1> SUFFICES ASSUME PInv, [PNext]_partVars, PType', row'.status \in unpublished
             PROVE  visible'
  BY DEF UnpublishedStayVisible, unpublished
<1>1. PType /\ row.part \in Names \cup {Default} /\ row'.part \in Names \cup {Default}
  BY DEF PInv, PType
<1>2. CASE WriteEvent
  <2>1. row'.part = Default \/ row'.part \in holding(day)
    BY <1>1, <1>2 DEF WriteEvent, PType
  <2> QED BY <1>2, <2>1 DEF visible, holding, WriteEvent
<1>3. CASE ~WriteEvent
  <2>1. row'.part = row.part /\ row.status \in unpublished
    <3>1. CASE RelayStep
      BY <1>1, <3>1 DEF RelayStep, PType, unpublished
    <3>2. CASE row' = row
      BY <3>2
    <3>3. ASSUME NEW p \in Processes, AcquireLock(p) \/ ManagerStep(p) PROVE row' = row
      <4>1. CASE AcquireLock(p) \/ PreCreate(p) \/ ListPartitions(p) \/ CountUnpublished(p)
                 \/ DetachPartition(p) \/ LogDetach(p)
        BY Zenon, <4>1 DEF AcquireLock, PreCreate, ListPartitions, CountUnpublished, DetachPartition,
                    LogDetach, store
      <4>2. CASE PartitionsDetachedBefore(p) \/ DropPartition(p) \/ LogDrop(p) \/ ReleaseLock(p)
                 \/ StatementFails(p) \/ LoseLock(p) \/ Crash(p)
        BY Zenon, <4>2 DEF PartitionsDetachedBefore, DropPartition, LogDrop, ReleaseLock, StatementFails,
                    LoseLock, Crash, store
      <4> QED BY <3>3, <4>1, <4>2 DEF ManagerStep
    <3>4. CASE NextWeek \/ UNCHANGED partVars
      BY <3>4 DEF NextWeek, partVars, store
    <3> QED BY <1>3, <3>1, <3>2, <3>3, <3>4 DEF PNext
  <2>2. visible
    BY <2>1 DEF PInv, UnpublishedStayVisible, unpublished
  <2>3. CASE row.part = Default
    BY <2>1, <2>3 DEF visible
  <2>4. CASE row.part \in Names /\ table[row.part] = "attached"
    <3> SUFFICES table'[row.part] = "attached"
      BY <2>1, <2>4 DEF visible
    <3>1. CASE table' = table
      BY <2>4, <3>1
    <3>2. ASSUME NEW p \in Processes, PreCreate(p) PROVE table'[row.part] = "attached"
      BY <1>1, <2>4, <3>2 DEF PreCreate, PType
    <3>3. ASSUME NEW p \in Processes, DetachPartition(p) PROVE table'[row.part] = "attached"
      <4>1. row.part # manager[p].name
        BY <2>1, <3>3 DEF PInv, RunOK, DetachPartition, Waiting
      <4> QED BY <1>1, <2>4, <3>3, <4>1 DEF DetachPartition, PType
    <3>4. ASSUME NEW p \in Processes, DropPartition(p) PROVE table'[row.part] = "attached"
      <4>1. PICK n \in manager[p].todo : table' = [table EXCEPT ![n] = "dropped"]
        BY Zenon, <3>4 DEF DropPartition
      <4>2. Away(n)
        BY <3>4 DEF PInv, RunOK, DropPartition
      <4>3. n # row.part
        BY <2>4, <4>2 DEF Away
      <4> QED BY <1>1, <2>4, <4>1, <4>3 DEF PType
    <3> QED BY Zenon, <3>1, <3>2, <3>3, <3>4 DEF PNext, partVars, NextWeek, WriteEvent, RelayStep, AcquireLock,
                ManagerStep, ListPartitions, CountUnpublished, LogDetach, PartitionsDetachedBefore,
                LogDrop, ReleaseLock, StatementFails, LoseLock, Crash, store
  <2> QED BY <2>2, <2>3, <2>4 DEF visible
<1> QED BY <1>2, <1>3

(* A step of one run leaves the others as they are.                          *)
LEMMA OneRunMoves ==
    ASSUME PType, NEW p \in Processes, AcquireLock(p) \/ ManagerStep(p), NEW q \in Processes, p # q
    PROVE  manager'[q] = manager[q]
<1>1. manager \in [Processes -> Run]
  BY DEF PType
<1>2. CASE AcquireLock(p) \/ PreCreate(p) \/ ListPartitions(p) \/ CountUnpublished(p)
  BY Zenon, <1>1, <1>2 DEF AcquireLock, PreCreate, ListPartitions, CountUnpublished
<1>3. CASE DetachPartition(p) \/ LogDetach(p) \/ PartitionsDetachedBefore(p)
  BY <1>1, <1>3 DEF DetachPartition, LogDetach, PartitionsDetachedBefore
<1>4. CASE DropPartition(p) \/ LogDrop(p) \/ ReleaseLock(p)
  BY Zenon, <1>1, <1>4 DEF DropPartition, LogDrop, ReleaseLock
<1>5. CASE StatementFails(p)
  BY Zenon, <1>1, <1>5 DEF StatementFails
<1>6. CASE LoseLock(p) \/ Crash(p)
  BY <1>1, <1>6 DEF LoseLock, Crash
<1>7. QED
  BY <1>2, <1>3, <1>4, <1>5, <1>6 DEF ManagerStep

(* Every step keeps the invariant: the run that moves by its own step, the   *)
(* others because no step takes back what they know.                         *)
LEMMA NextPInv == PInv /\ [PNext]_partVars => PInv'
<1> SUFFICES ASSUME PInv, [PNext]_partVars PROVE PInv'
  OBVIOUS
<1>1. PType /\ PType' /\ Keeps
  BY NextPType, NextKeeps DEF PInv
<1>2. ASSUME NEW q \in Processes PROVE RunOK(q)'
  <2>1. RunOK(q)
    BY DEF PInv
  <2>2. CASE AcquireLock(q) \/ ManagerStep(q)
    BY <1>1, <2>2, MoverKeeps
  <2>3. CASE ~(AcquireLock(q) \/ ManagerStep(q))
    <3>1. ASSUME NEW p \in Processes, p # q, AcquireLock(p) \/ ManagerStep(p)
          PROVE  manager'[q] = manager[q]
      BY <1>1, <3>1, OneRunMoves
    <3>2. manager'[q] = manager[q]
      BY <2>3, <3>1 DEF PNext, partVars, NextWeek, WriteEvent, RelayStep
    <3> QED BY <1>1, <2>1, <3>2, OthersKeep
  <2> QED BY <2>2, <2>3
<1>3. LogOK' /\ UnpublishedStayVisible'
  BY <1>1, NextLog, NextVisible
<1> QED BY <1>1, <1>2, <1>3 DEF PInv

(* So the invariant always holds.                                            *)
LEMMA PInvAlways == PSpec => []PInv
BY InitPInv, NextPInv, PTL DEF PSpec

(* No event that is still to be published is ever in a partition the relay   *)
(* cannot see, for any number of processes, weeks and faults: counting,      *)
(* detaching and dropping may interleave with writers, the relay and other   *)
(* runs of the manager.                                                      *)
THEOREM UnpublishedNeverHidden == PSpec => []UnpublishedStayVisible
<1>1. PInv => UnpublishedStayVisible
  BY DEF PInv
<1> QED BY <1>1, PInvAlways, PTL

(* dropDetached never drops a partition that has not been detached for the   *)
(* whole grace period, for any number of processes, weeks and faults.        *)
THEOREM GraceBeforeDrop == PSpec => DroppedAfterGrace
<1>1. PInv /\ [PNext]_partVars =>
        [\A n \in Names : table'[n] = "dropped" /\ table[n] # "dropped" =>
           table[n] = "detached" /\ gone[n] + 7 * DropAfter < day]_partVars
  <2> SUFFICES ASSUME PInv, [PNext]_partVars, NEW n \in Names, table'[n] = "dropped", table[n] # "dropped"
               PROVE  table[n] = "detached" /\ gone[n] + 7 * DropAfter < day
    OBVIOUS
  <2>1. PType
    BY DEF PInv
  <2>2. table' # table
    OBVIOUS
  <2>3. PICK p \in Processes : PreCreate(p) \/ DetachPartition(p) \/ DropPartition(p)
    BY Zenon, <2>2 DEF PNext, partVars, NextWeek, WriteEvent, RelayStep, AcquireLock, ManagerStep,
                ListPartitions, CountUnpublished, LogDetach, PartitionsDetachedBefore, LogDrop,
                ReleaseLock, StatementFails, LoseLock, Crash
  <2>4. ~PreCreate(p) /\ ~DetachPartition(p)
    BY <2>1 DEF PreCreate, DetachPartition, PType
  <2>5. PICK m \in manager[p].todo : table' = [table EXCEPT ![m] = "dropped"]
    BY Zenon, <2>3, <2>4 DEF DropPartition
  <2>6. m = n
    BY <2>1, <2>5 DEF PType
  <2>7. Away(n) /\ gone[n] + 7 * DropAfter < day
    BY Zenon, <2>3, <2>4, <2>5, <2>6 DEF PInv, RunOK, DropPartition
  <2> QED BY <2>7 DEF Away
<1> QED BY <1>1, PInvAlways, PTL DEF PSpec, DroppedAfterGrace

-----------------------------------------------------------------------------
(* Partitions ahead of time. The inductive invariant says that the partition *)
(* of a week that is not over is never detached, that a run without a fault  *)
(* leaves the weeks behind it created, and that the last run that ended      *)
(* without one still serves the weeks it created. A partition whose event is *)
(* already in the default one is not created, so all this is said as long as *)
(* the event has not been written.                                           *)
nameOf(w) == partitionName(dayOf(w))
Attached(w) == table[nameOf(w)] = "attached"

NotYetAway == \A w \in Weeks : day <= dayOf(w) => table[nameOf(w)] \in {"none", "attached"}

BaseOK(p) == \E b \in Nat : manager[p].base = dayOf(b)

CreatedAhead(p) ==
    manager[p].pc # "idle" /\ manager[p].faults = 0 =>
        \A w \in Weeks :
            /\ manager[p].base <= dayOf(w) /\ dayOf(w) <= manager[p].base + 7 * WeeksAhead
            /\ manager[p].pc = "create" => dayOf(w) < manager[p].base + 7 * manager[p].i
            /\ day <= dayOf(w)
            => Attached(w)

Served ==
    lastRun # Never =>
        /\ lastRun \in Nat /\ dayOf(lastRun) <= day
        /\ \A w \in Weeks : lastRun <= w /\ w <= lastRun + WeeksAhead /\ day <= dayOf(w) => Attached(w)

Ahead ==
    /\ NotYetAway
    /\ \A p \in Processes : BaseOK(p)
    /\ row.status = "none" => Served /\ \A p \in Processes : CreatedAhead(p)

(* The weeks' names: each has its own, which ends with its week.             *)
LEMMA WeekNames ==
    ASSUME NEW w \in Weeks
    PROVE  w \in Nat /\ dayOf(w) = 7 * w /\ nameOf(w) \in Names /\ weekEndFromName(nameOf(w)) = 7 * w + 7
<1>1. w \in Nat /\ w \in Calendar /\ dayOf(w) = 7 * w
  BY PartitionConstants DEF Weeks, Calendar, dayOf
<1>2. weekEndFromName(nameOf(w)) = dayOf(w) + 7
  BY <1>1, WeekOfName, Zenon DEF nameOf
<1>3. nameOf(w) \in Names
  BY DEF nameOf, Names
<1>4. QED
  BY <1>1, <1>2, <1>3

(* The partition of a week that is not over stays attached once it is, and   *)
(* is never anything but missing or attached.                                *)
LEMMA CurrentStays ==
    ASSUME PInv, NotYetAway, [PNext]_partVars, NEW w \in Weeks, day <= dayOf(w)
    PROVE  table'[nameOf(w)] \in {"none", "attached"} /\ (Attached(w) => Attached(w)')
<1> DEFINE n == nameOf(w)
<1>1. PType /\ n \in Names /\ table[n] \in {"none", "attached"} /\ ~Stale(n) /\ ~Away(n)
  <2>1. PType /\ n \in Names /\ table[n] \in {"none", "attached"}
    BY WeekNames DEF PInv, NotYetAway
  <2>2. day \in Nat /\ weekStart(day) = day
    BY <2>1, Days DEF PType
  <2>3. w \in Nat /\ dayOf(w) = 7 * w /\ weekEndFromName(n) = 7 * w + 7
    BY WeekNames
  <2>4. ~Stale(n)
    BY <2>2, <2>3, PartitionConstants DEF Stale
  <2>5. QED
    BY <2>1, <2>4 DEF Away
<1>2. table \in [Names -> {"none", "attached", "detached", "dropped"}]
  BY <1>1 DEF PType
<1> SUFFICES table'[n] = table[n] \/ table'[n] = "attached"
  BY <1>1 DEF Attached
<1> HIDE DEF n
<1>3. CASE table' = table
  BY <1>3
<1>4. ASSUME NEW p \in Processes, PreCreate(p) PROVE table'[n] = table[n] \/ table'[n] = "attached"
  BY <1>1, <1>2, <1>4 DEF PreCreate
<1>5. ASSUME NEW p \in Processes, DetachPartition(p) PROVE table'[n] = table[n]
  <2>1. Stale(manager[p].name)
    BY <1>5 DEF PInv, RunOK, DetachPartition
  <2>2. manager[p].name # n
    BY <1>1, <2>1
  <2>3. QED
    BY <1>1, <1>2, <1>5, <2>2 DEF DetachPartition
<1>6. ASSUME NEW p \in Processes, DropPartition(p) PROVE table'[n] = table[n]
  <2>1. PICK m \in manager[p].todo : table' = [table EXCEPT ![m] = "dropped"]
    BY Zenon, <1>6 DEF DropPartition
  <2>2. Away(m)
    BY <1>6 DEF PInv, RunOK, DropPartition
  <2>3. m # n
    BY <1>1, <2>2
  <2>4. QED
    BY <1>1, <1>2, <2>1, <2>3
<1>7. QED
  BY Zenon, <1>3, <1>4, <1>5, <1>6 DEF PNext, partVars, NextWeek, WriteEvent, RelayStep, AcquireLock,
      ManagerStep, ListPartitions, CountUnpublished, LogDetach, PartitionsDetachedBefore,
      LogDrop, ReleaseLock, StatementFails, LoseLock, Crash, store

(* What a step does to the run it belongs to, as far as its weeks go: it     *)
(* ends or starts, goes on creating, or goes on after that; a step that      *)
(* fails leaves a mark.                                                      *)
Created(p) ==
    /\ manager[p].pc = "create" /\ manager'[p].i = manager[p].i + 1
    /\ manager'[p].pc = IF manager[p].i = WeeksAhead THEN "list" ELSE "create"

RunMoves(p) ==
    \/ manager'[p] = NoRun
    \/ AcquireLock(p) /\ manager'[p].pc = "create" /\ manager'[p].i = 0 /\ manager'[p].base = day
    \/ /\ manager'[p].base = manager[p].base
       /\ \/ manager'[p].faults > 0
          \/ manager'[p].faults = manager[p].faults /\ PreCreate(p) /\ Created(p)
          \/ /\ manager'[p].faults = manager[p].faults
             /\ manager[p].pc \notin {"idle", "create"} /\ manager'[p].pc # "create"

(* Every step of a run is one of these.                                      *)
LEMMA ManagerMoves ==
    ASSUME PType, NEW p \in Processes, AcquireLock(p) \/ ManagerStep(p)
    PROVE  RunMoves(p)
<1>1. manager \in [Processes -> Run] /\ manager[p] \in Run /\ weekStart(day) = day
  BY Days DEF PType
<1>2. CASE AcquireLock(p)
  <2>1. manager'[p] = [NoRun EXCEPT !.pc = "create", !.base = day]
    BY <1>1, <1>2 DEF AcquireLock
  <2>2. manager'[p].pc = "create" /\ manager'[p].i = 0 /\ manager'[p].base = day
    BY <2>1 DEF NoRun
  <2>3. QED
    BY <1>2, <2>2 DEF RunMoves
<1>3. CASE PreCreate(p)
  <2>1. /\ manager[p].pc = "create" /\ manager'[p].i = manager[p].i + 1
        /\ manager'[p].pc = IF manager[p].i = WeeksAhead THEN "list" ELSE "create"
        /\ manager'[p].base = manager[p].base /\ manager'[p].faults = manager[p].faults
    BY <1>1, <1>3 DEF PreCreate, Run, lastToCreate
  <2>2. QED
    BY <1>3, <2>1 DEF RunMoves, Created
<1>4. CASE ListPartitions(p) \/ LogDetach(p) \/ PartitionsDetachedBefore(p) \/ LogDrop(p)
  <2>1. /\ manager'[p].base = manager[p].base /\ manager'[p].faults = manager[p].faults
        /\ manager[p].pc \notin {"idle", "create"} /\ manager'[p].pc # "create"
    BY <1>1, <1>4 DEF ListPartitions, LogDetach, PartitionsDetachedBefore, LogDrop, Run
  <2>2. QED
    BY <2>1 DEF RunMoves
<1>5. CASE CountUnpublished(p)
  <2>1. /\ manager'[p].base = manager[p].base /\ manager'[p].faults = manager[p].faults
        /\ manager[p].pc \notin {"idle", "create"} /\ manager'[p].pc # "create"
    <3>1. CASE manager' = [manager EXCEPT ![p].pc = "droplist"]
      BY Zenon, <1>1, <1>5, <3>1 DEF CountUnpublished, Run
    <3>2. ASSUME NEW n \in manager[p].todo,
                 manager' = [manager EXCEPT ![p].todo = @ \ {n},
                               ![p].name = IF countUnpublished(n) > 0 THEN Default ELSE n,
                               ![p].pc = IF countUnpublished(n) > 0 THEN "count" ELSE "detach"]
          PROVE  /\ manager'[p].base = manager[p].base /\ manager'[p].faults = manager[p].faults
                 /\ manager'[p].pc # "create"
      BY <1>1, <3>2 DEF Run
    <3>3. manager[p].pc = "count"
      BY Zenon, <1>5 DEF CountUnpublished
    <3>4. QED
      BY Zenon, <1>5, <3>1, <3>2, <3>3 DEF CountUnpublished
  <2>2. QED
    BY <2>1 DEF RunMoves
<1>6. CASE DetachPartition(p) \/ DropPartition(p)
  <2>1. /\ manager'[p].base = manager[p].base /\ manager'[p].faults = manager[p].faults
        /\ manager[p].pc \notin {"idle", "create"} /\ manager'[p].pc # "create"
    <3>1. CASE DetachPartition(p)
      <4>1. CASE manager' = [manager EXCEPT ![p].pc = "logdetach"]
        BY <1>1, <3>1, <4>1 DEF DetachPartition, Run
      <4>2. CASE manager' = [manager EXCEPT ![p].pc = "count", ![p].name = Default]
        BY <1>1, <3>1, <4>2 DEF DetachPartition, Run
      <4>3. QED
        BY <3>1, <4>1, <4>2 DEF DetachPartition
    <3>2. CASE DropPartition(p)
      <4>1. PICK n \in manager[p].todo :
              manager' = [manager EXCEPT ![p].todo = @ \ {n}, ![p].name = n, ![p].pc = "logdrop"]
        BY <3>2 DEF DropPartition
      <4>2. QED
        BY <1>1, <3>2, <4>1 DEF DropPartition, Run
    <3>3. QED
      BY <1>6, <3>1, <3>2
  <2>2. QED
    BY <2>1 DEF RunMoves
<1>7. CASE ReleaseLock(p) \/ Crash(p)
  BY <1>1, <1>7 DEF ReleaseLock, Crash, RunMoves
<1>8. CASE LoseLock(p)
  <2>1. manager'[p].base = manager[p].base /\ manager'[p].faults > 0
    BY <1>1, <1>8 DEF LoseLock, Run
  <2>2. QED
    BY <2>1 DEF RunMoves
<1>9. CASE StatementFails(p)
  <2>1. manager'[p].base = manager[p].base /\ manager'[p].faults > 0
    <3>1. ASSUME NEW here, NEW there,
                 manager' = [manager EXCEPT ![p].pc = there, ![p].faults = @ + 1, ![p].name = Default,
                               ![p].i = IF here = "create" THEN @ + 1 ELSE @]
          PROVE  manager'[p].base = manager[p].base /\ manager'[p].faults > 0
      BY <1>1, <3>1 DEF Run
    <3>2. ASSUME NEW n, manager' = [manager EXCEPT ![p].todo = @ \ {n}, ![p].faults = @ + 1]
          PROVE  manager'[p].base = manager[p].base /\ manager'[p].faults > 0
      BY <1>1, <3>2 DEF Run
    <3>3. QED
      BY <1>9, <3>1, <3>2, Zenon DEF StatementFails
  <2>2. QED
    BY <2>1 DEF RunMoves
<1>10. QED
  BY <1>2, <1>3, <1>4, <1>5, <1>6, <1>7, <1>8, <1>9 DEF ManagerStep

(* The invariant holds at first.                                             *)
LEMMA InitAhead == PInit => Ahead
<1> SUFFICES ASSUME PInit PROVE Ahead
  OBVIOUS
<1>1. NotYetAway
  <2>1. \A n \in Names : table[n] \in {"none", "attached"}
    BY DEF PInit
  <2>2. QED
    BY <2>1, WeekNames DEF NotYetAway
<1>2. ASSUME NEW p \in Processes PROVE BaseOK(p) /\ manager[p].pc = "idle"
  <2>1. manager[p].base = 0 /\ manager[p].pc = "idle"
    BY DEF PInit, NoRun
  <2>2. manager[p].base = dayOf(0)
    BY <2>1 DEF dayOf
  <2>3. QED
    BY <2>1, <2>2 DEF BaseOK
<1>3. \A p \in Processes : CreatedAhead(p)
  BY <1>2 DEF CreatedAhead
<1>4. Served
  BY DEF PInit, Served
<1>5. QED
  BY <1>1, <1>2, <1>3, <1>4 DEF Ahead

(* Every run starts on the first day of a week.                              *)
LEMMA BasesKept ==
    ASSUME PType, NEW p \in Processes, BaseOK(p), RunMoves(p) \/ manager'[p] = manager[p]
    PROVE  BaseOK(p)'
<1>1. CASE manager'[p].base = manager[p].base
  BY <1>1 DEF BaseOK
<1>2. CASE manager'[p] = NoRun
  <2>1. manager'[p].base = 0
    BY <1>2 DEF NoRun
  <2>2. manager'[p].base = dayOf(0)
    BY <2>1 DEF dayOf
  <2>3. QED
    BY <2>2 DEF BaseOK
<1>3. CASE manager'[p].base = day
  <2>1. PICK w \in FirstWeek .. LastWeek : day = dayOf(w)
    BY DEF PType
  <2>2. w \in Nat
    BY PartitionConstants
  <2>3. QED
    BY <1>3, <2>1, <2>2 DEF BaseOK
<1>4. QED
  BY <1>1, <1>2, <1>3 DEF RunMoves

(* A run that goes on without a fault has created the weeks behind it: what  *)
(* preCreate finds missing it creates, for the event is not written yet.     *)
LEMMA CreatedKept ==
    ASSUME PInv, NotYetAway, [PNext]_partVars, day <= day', row.status = "none",
           NEW p \in Processes, BaseOK(p), CreatedAhead(p), RunMoves(p) \/ manager'[p] = manager[p]
    PROVE  CreatedAhead(p)'
<1> SUFFICES ASSUME manager'[p].pc # "idle", manager'[p].faults = 0, NEW w \in Weeks,
                    manager'[p].base <= dayOf(w), dayOf(w) <= manager'[p].base + 7 * WeeksAhead,
                    manager'[p].pc = "create" => dayOf(w) < manager'[p].base + 7 * manager'[p].i,
                    day' <= dayOf(w)
             PROVE  Attached(w)'
  BY DEF CreatedAhead, Attached
<1>0. PType /\ PType'
  BY NextPType DEF PInv
<1>1. day \in Nat /\ day' \in Nat /\ WeeksAhead \in Nat
  <2>1. day \in {dayOf(v) : v \in FirstWeek .. LastWeek} /\ day' \in {dayOf(v) : v \in FirstWeek .. LastWeek}
    BY <1>0 DEF PType
  <2>2. QED
    BY <2>1, Days, PartitionConstants
<1>2. w \in Nat /\ dayOf(w) = 7 * w /\ nameOf(w) \in Names
  BY WeekNames
<1>3. day <= dayOf(w)
  BY <1>1, <1>2
<1>4. table[nameOf(w)] \in {"none", "attached"} /\ (Attached(w) => Attached(w)')
  BY <1>3, CurrentStays DEF NotYetAway
<1>5. CASE manager'[p] = manager[p]
  BY <1>3, <1>4, <1>5 DEF CreatedAhead
<1>6. CASE AcquireLock(p) /\ manager'[p].pc = "create" /\ manager'[p].i = 0 /\ manager'[p].base = day
  BY <1>1, <1>2, <1>6
<1>7. CASE /\ manager'[p].base = manager[p].base
           /\ manager'[p].faults = manager[p].faults
           /\ manager[p].pc \notin {"idle", "create"} /\ manager'[p].pc # "create"
  BY <1>3, <1>4, <1>7 DEF CreatedAhead
<1>8. CASE /\ manager'[p].base = manager[p].base
           /\ manager'[p].faults = manager[p].faults /\ PreCreate(p) /\ Created(p)
  <2>1. PICK b \in Nat : manager[p].base = dayOf(b)
    BY DEF BaseOK
  <2> DEFINE i == manager[p].i
  <2>2. i \in Nat /\ manager[p].base = 7 * b
    BY <1>0, <2>1 DEF PType, Run, dayOf
  <2>3. manager[p].pc = "create" /\ manager[p].faults = 0
        /\ (manager'[p].pc = "create" => manager'[p].i = i + 1)
        /\ (manager'[p].pc = "create" \/ i = WeeksAhead)
    BY <1>8 DEF Created
  <2>4. manager[p].base <= dayOf(w) /\ dayOf(w) <= manager[p].base + 7 * WeeksAhead
    BY <1>8
  <2> HIDE DEF i
  <2>5. w <= b + i
    <3>1. CASE manager'[p].pc = "create"
      <4>1. dayOf(w) < manager[p].base + 7 * (i + 1)
        BY <1>8, <2>3, <3>1
      <4>2. QED
        BY <1>2, <2>2, <4>1
    <3>2. CASE i = WeeksAhead
      <4>1. 7 * w <= 7 * b + 7 * i
        BY <1>2, <2>2, <2>4, <3>2
      <4>2. QED
        BY <1>2, <2>2, <4>1
    <3>3. QED
      BY <2>3, <3>1, <3>2
  <2>6. CASE w < b + i
    <3>1. dayOf(w) < manager[p].base + 7 * i
      BY <1>2, <2>2, <2>6
    <3>2. Attached(w)
      BY <1>3, <2>3, <2>4, <3>1 DEF CreatedAhead, i
    <3>3. QED
      BY <1>4, <3>2
  <2>7. CASE w = b + i
    <3>1. manager[p].base + 7 * manager[p].i = dayOf(w)
      BY <1>2, <2>2, <2>7 DEF i
    <3>2. \/ table[nameOf(w)] = "none" /\ table' = [table EXCEPT ![nameOf(w)] = "attached"]
          \/ table[nameOf(w)] # "none" /\ UNCHANGED table
      BY <1>8, <3>1 DEF PreCreate, nameOf
    <3>3. table \in [Names -> {"none", "attached", "detached", "dropped"}]
      BY <1>0 DEF PType
    <3>4. QED
      BY <1>2, <1>4, <3>2, <3>3 DEF Attached
  <2>8. QED
    BY <1>2, <2>2, <2>5, <2>6, <2>7
<1>9. manager'[p] # NoRun /\ ~(manager'[p].faults > 0)
  BY DEF NoRun
<1>10. QED
  BY <1>5, <1>6, <1>7, <1>8, <1>9 DEF RunMoves

(* The last run without a fault still serves its weeks: a run counts as one  *)
(* only when it ends in the week it started in.                              *)
LEMMA ServedKept ==
    ASSUME PInv, NotYetAway, [PNext]_partVars, day <= day', Served,
           \A p \in Processes : CreatedAhead(p)
    PROVE  Served'
<1> SUFFICES ASSUME lastRun' # Never
             PROVE  /\ lastRun' \in Nat /\ dayOf(lastRun') <= day'
                    /\ \A w \in Weeks : lastRun' <= w /\ w <= lastRun' + WeeksAhead /\ day' <= dayOf(w)
                                           => Attached(w)'
  BY DEF Served, Attached
<1>1. PType /\ PType' /\ day \in Nat /\ day' \in Nat /\ WeeksAhead \in Nat
  BY NextPType, Days, PartitionConstants DEF PInv, PType
<1>2. \A w \in Weeks : day' <= dayOf(w) => day <= dayOf(w) /\ (Attached(w) => Attached(w)')
  <2>1. ASSUME NEW w \in Weeks, day' <= dayOf(w)
        PROVE  day <= dayOf(w) /\ (Attached(w) => Attached(w)')
    <3>1. w \in Nat /\ dayOf(w) = 7 * w
      BY WeekNames
    <3>2. day <= dayOf(w)
      BY <1>1, <2>1, <3>1
    <3>3. QED
      BY <3>2, CurrentStays
  <2>2. QED
    BY <2>1
<1>3. CASE lastRun' = lastRun
  <2>1. lastRun \in Nat /\ dayOf(lastRun) <= day
    BY <1>3 DEF Served
  <2>2. dayOf(lastRun') <= day'
    BY <1>1, <1>3, <2>1 DEF dayOf
  <2>3. QED
    BY <1>2, <1>3, <2>1, <2>2 DEF Served
<1>4. ASSUME NEW p \in Processes, ReleaseLock(p), lastRun' # lastRun
      PROVE  /\ lastRun' \in Nat /\ dayOf(lastRun') <= day'
             /\ \A w \in Weeks : lastRun' <= w /\ w <= lastRun' + WeeksAhead /\ day' <= dayOf(w)
                                    => Attached(w)'
  <2>1. /\ manager[p].pc = "drop" /\ manager[p].faults = 0 /\ manager[p].base = day
        /\ lastRun' = day \div 7 /\ day' = day
    BY <1>4 DEF ReleaseLock
  <2>2. PICK t \in FirstWeek .. LastWeek : day = dayOf(t)
    BY <1>1 DEF PType
  <2>3. t \in Nat /\ day = 7 * t
    BY <2>2, PartitionConstants DEF dayOf
  <2>4. lastRun' = t
    BY <2>1, <2>3
  <2>5. ASSUME NEW w \in Weeks, t <= w, w <= t + WeeksAhead, day' <= dayOf(w)
        PROVE  Attached(w)'
    <3>1. w \in Nat /\ dayOf(w) = 7 * w
      BY WeekNames
    <3>2. manager[p].base <= dayOf(w) /\ dayOf(w) <= manager[p].base + 7 * WeeksAhead
      BY <1>1, <2>1, <2>3, <2>5, <3>1
    <3>3. Attached(w)
      BY <1>2, <2>1, <2>5, <3>2 DEF CreatedAhead
    <3>4. QED
      BY <1>2, <2>5, <3>3
  <2>6. dayOf(t) <= day'
    BY <2>1, <2>2, <2>3
  <2>7. QED
    BY <2>3, <2>4, <2>5, <2>6
<1>5. QED
  BY Zenon, <1>3, <1>4 DEF PNext, partVars, NextWeek, WriteEvent, RelayStep, AcquireLock, ManagerStep, PreCreate,
      ListPartitions, CountUnpublished, DetachPartition, LogDetach, PartitionsDetachedBefore,
      DropPartition, LogDrop, StatementFails, LoseLock, Crash, store

(* Only the service's write and the relay touch the event.                   *)
LEMMA RowWriters == [PNext]_partVars => WriteEvent \/ RelayStep \/ row' = row
<1>1. ASSUME NEW p \in Processes, AcquireLock(p) \/ ManagerStep(p) PROVE row' = row
  <2>1. CASE AcquireLock(p) \/ PreCreate(p) \/ ListPartitions(p) \/ CountUnpublished(p)
    BY Zenon, <2>1 DEF AcquireLock, PreCreate, ListPartitions, CountUnpublished, store
  <2>2. CASE DetachPartition(p) \/ LogDetach(p) \/ PartitionsDetachedBefore(p)
    BY <2>2 DEF DetachPartition, LogDetach, PartitionsDetachedBefore, store
  <2>3. CASE DropPartition(p) \/ LogDrop(p) \/ ReleaseLock(p)
    BY Zenon, <2>3 DEF DropPartition, LogDrop, ReleaseLock, store
  <2>4. CASE StatementFails(p)
    BY <2>4 DEF StatementFails
  <2>5. CASE LoseLock(p) \/ Crash(p)
    BY <2>5 DEF LoseLock, Crash
  <2>6. QED
    BY <1>1, <2>1, <2>2, <2>3, <2>4, <2>5 DEF ManagerStep
<1>2. CASE NextWeek \/ UNCHANGED partVars
  BY <1>2 DEF NextWeek, partVars
<1>3. QED
  BY <1>1, <1>2 DEF PNext

(* Every step keeps the invariant.                                           *)
LEMMA NextAhead == PInv /\ Ahead /\ [PNext]_partVars => Ahead'
<1> SUFFICES ASSUME PInv, Ahead, [PNext]_partVars PROVE Ahead'
  OBVIOUS
<1>1. PType /\ PType' /\ day <= day' /\ day \in Nat /\ day' \in Nat /\ NotYetAway
  BY NextPType, NextKeeps, Days DEF PInv, PType, Keeps, Ahead
<1>2. ASSUME NEW p \in Processes PROVE RunMoves(p) \/ manager'[p] = manager[p]
  <2>1. ASSUME NEW q \in Processes, AcquireLock(q) \/ ManagerStep(q)
        PROVE  RunMoves(p) \/ manager'[p] = manager[p]
    <3>1. CASE p = q
      BY <1>1, <2>1, <3>1, ManagerMoves
    <3>2. CASE p # q
      BY <1>1, <2>1, <3>2, OneRunMoves
    <3>3. QED
      BY <3>1, <3>2
  <2>2. CASE NextWeek \/ WriteEvent \/ RelayStep \/ UNCHANGED partVars
    BY <2>2 DEF NextWeek, WriteEvent, RelayStep, partVars
  <2>3. QED
    BY <2>1, <2>2 DEF PNext
<1>3. NotYetAway'
  <2>1. ASSUME NEW w \in Weeks, day' <= dayOf(w) PROVE table'[nameOf(w)] \in {"none", "attached"}
    <3>1. day <= dayOf(w)
      BY <1>1, <2>1, WeekNames
    <3>2. QED
      BY <1>1, <3>1, CurrentStays
  <2>2. QED
    BY <2>1 DEF NotYetAway
<1>4. \A p \in Processes : BaseOK(p)'
  BY <1>1, <1>2, BasesKept DEF Ahead
<1>5. row'.status = "none" => row.status = "none"
  <2>1. CASE WriteEvent
    BY <2>1 DEF WriteEvent
  <2>2. CASE RelayStep
    BY <1>1, <2>2 DEF RelayStep, PType
  <2>3. CASE row' = row
    BY <2>3
  <2>4. QED
    BY <2>1, <2>2, <2>3, RowWriters
<1>6. ASSUME row.status = "none" PROVE Served' /\ \A p \in Processes : CreatedAhead(p)'
  <2>1. Served /\ \A p \in Processes : CreatedAhead(p) /\ BaseOK(p)
    BY <1>6 DEF Ahead
  <2>2. Served'
    BY <1>1, <2>1, ServedKept
  <2>3. \A p \in Processes : CreatedAhead(p)'
    BY <1>1, <1>2, <1>6, <2>1, CreatedKept
  <2>4. QED
    BY <2>2, <2>3
<1>7. QED
  BY <1>3, <1>4, <1>5, <1>6 DEF Ahead

(* An event falls into the default partition only if no run went through     *)
(* without a fault in its week or in any of the WeeksAhead weeks before it,  *)
(* for any number of processes, weeks and faults (manager.go:72-89).         *)
THEOREM RunsServeTheirWeeks == PSpec => DefaultOnlyAfterOutage
<1>1. PInv /\ Ahead /\ [PNext]_partVars =>
        [row.status = "none" /\ row'.status # "none" /\ row'.part = Default =>
           lastRun = Never \/ lastRun + WeeksAhead < row.week]_row
  <2> SUFFICES ASSUME PInv, Ahead, [PNext]_partVars, row.status = "none", row'.status # "none",
                      row'.part = Default, lastRun # Never
               PROVE  lastRun + WeeksAhead < row.week
    OBVIOUS
  <2>1. PType
    BY DEF PInv
  <2>2. WriteEvent
    <3>1. ~RelayStep
      BY <2>1 DEF RelayStep, PType
    <3>2. row' # row
      OBVIOUS
    <3>3. QED
      BY <3>1, <3>2, RowWriters
  <2>3. day = dayOf(row.week) /\ row.week \in FirstWeek .. LastWeek /\ weekStart(day) = day /\ day \in Nat
    BY <2>1, <2>2, Days DEF WriteEvent, PType
  <2>4. row.week \in Weeks /\ WeeksAhead \in Nat
    BY <2>3, PartitionConstants DEF Weeks
  <2>5. holding(day) = {}
    <3>1. row'.part = IF holding(day) = {} THEN Default ELSE CHOOSE n \in holding(day) : TRUE
      BY <2>1, <2>2 DEF WriteEvent, PType
    <3>2. Default \notin holding(day)
      BY NameWeeks DEF holding
    <3>3. QED
      BY <3>1, <3>2
  <2>6. ~Attached(row.week)
    BY <2>3, <2>4, <2>5, WeekNames DEF holding, Attached, nameOf
  <2>7. lastRun \in Nat /\ dayOf(lastRun) <= day
        /\ (lastRun <= row.week /\ row.week <= lastRun + WeeksAhead /\ day <= dayOf(row.week)
            => Attached(row.week))
    BY <2>4 DEF Ahead, Served
  <2>8. row.week \in Nat /\ lastRun <= row.week /\ day <= dayOf(row.week)
    BY <2>3, <2>4, <2>7, WeekNames DEF dayOf
  <2>9. QED
    BY <2>4, <2>6, <2>7, <2>8
<1>2. PSpec => []Ahead
  BY InitAhead, NextAhead, PInvAlways, PTL DEF PSpec
<1>3. QED
  BY <1>1, <1>2, PInvAlways, PTL DEF PSpec, DefaultOnlyAfterOutage

=============================================================================
