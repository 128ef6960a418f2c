-------------------------- MODULE PartitionManager --------------------------
(***************************************************************************)
(* The partition manager: every process runs it; under an advisory lock it *)
(* creates the weekly partitions of outbox_events ahead of time, detaches  *)
(* old ones in which no event is left to publish, and drops the detached   *)
(* ones after a grace period. Its steps are single statements; between     *)
(* them the relay works on the same rows, time passes, the lock's          *)
(* connection may be lost and a process may die.                           *)
(*                                                                         *)
(* A day is its number since Monday, 1 January 2024.                       *)
(***************************************************************************)
EXTENDS Naturals, FiniteSets

CONSTANTS
    Processes,
    WeeksAhead, RetentionWeeks,
    DropAfter,      \* in weeks
    FirstWeek,      \* the week in which the schema is installed
    LastWeek,       \* bound on time
    RowWeeks,       \* the weeks in which the event considered may be written
    MaxFaults       \* bound: crashes, failed statements, lost lock connections

ASSUME PartitionConstants ==
    /\ WeeksAhead \in Nat \ {0} /\ RetentionWeeks \in Nat \ {0} /\ DropAfter \in Nat \ {0}
    /\ FirstWeek \in Nat \ {0} /\ LastWeek \in Nat /\ FirstWeek <= LastWeek
    /\ RowWeeks \subseteq FirstWeek .. LastWeek /\ MaxFaults \in Nat
    /\ LastWeek + WeeksAhead + 2 <= 1900         \* the calendar below ends in 2060

-----------------------------------------------------------------------------
(* The calendar (Go's time package): the first day of a year, ISOWeek.       *)
yearStart(y) == 365 * (y - 2024) + (y - 2024 + 3) \div 4

Years == 2024 .. 2060
yearOf(d) == CHOOSE y \in Years : yearStart(y) <= d /\ d < yearStart(y + 1)

ISOWeek(d) ==
    LET thursday == d - (d % 7) + 3
        y == yearOf(thursday)
    IN <<y, (thursday - yearStart(y)) \div 7 + 1>>

weekStart(d) == d - (d % 7)

partitionName(d) == ISOWeek(d)

isoWeekStart(year, week) ==
    LET jan4 == yearStart(year) + 3 IN jan4 - (jan4 % 7) + (week - 1) * 7

weekEndFromName(name) == isoWeekStart(name[1], name[2]) + 7

-----------------------------------------------------------------------------
VARIABLES
    day,       \* today, the first day of a week
    table,     \* the partitions, by name: none, attached, detached, dropped
    row,       \* one event: its week, its status, and the partition it went to
    log,       \* partition_management_log: the days of detach and drop, by name
    lock,      \* the process that holds the advisory lock
    manager,   \* the processes' runs
    lastRun,   \* history: the latest week in which a run went through without a fault
    gone,      \* history: the day a partition was detached
    partFaults

partVars == <<day, table, row, log, lock, manager, lastRun, gone, partFaults>>

Weeks == FirstWeek - 1 .. LastWeek + WeeksAhead + 2
dayOf(w) == 7 * w
Calendar == 0 .. 1900         \* the weeks up to 2060
Names == {partitionName(dayOf(w)) : w \in Weeks}
Default == <<0, 0>>           \* outbox_default
Never == 0
NoProcess == "none"

NoRun == [pc |-> "idle", i |-> 0, base |-> 0, todo |-> {}, name |-> Default, faults |-> 0]

(* The migration creates last week's partition, this week's and two more.    *)
PInit ==
    /\ day = dayOf(FirstWeek)
    /\ LET seeded == {partitionName(dayOf(w)) : w \in FirstWeek - 1 .. FirstWeek + 2}
       IN table = [n \in Names |-> IF n \in seeded THEN "attached" ELSE "none"]
    /\ \E w \in RowWeeks : row = [week |-> w, status |-> "none", part |-> Default]
    /\ log = [n \in Names |-> [detach |-> Never, drop |-> Never]]
    /\ lock = NoProcess
    /\ manager = [p \in Processes |-> NoRun]
    /\ lastRun = Never /\ gone = [n \in Names |-> Never]
    /\ partFaults = 0

-----------------------------------------------------------------------------
(* Time, the service writing an event, and the relay publishing it. A run    *)
(* sees at most one turn of the week.                                        *)
NextWeek ==
    /\ day < dayOf(LastWeek) /\ day' = day + 7
    /\ \A p \in Processes : manager[p].pc # "idle" => manager[p].base = day
    /\ UNCHANGED <<table, row, log, lock, manager, lastRun, gone, partFaults>>

holding(d) == {n \in Names : table[n] = "attached" /\ n = partitionName(weekStart(d))}

WriteEvent ==
    /\ day = dayOf(row.week) /\ row.status = "none"
    /\ row' = [row EXCEPT !.status = "PENDING",
                 !.part = IF holding(day) = {} THEN Default ELSE CHOOSE n \in holding(day) : TRUE]
    /\ UNCHANGED <<day, table, log, lock, manager, lastRun, gone, partFaults>>

(* The relay sees the rows of attached partitions and of the default one.    *)
visible == row.part \in {Default} \cup {n \in Names : table[n] = "attached"}

RelayStep ==
    /\ visible
    /\ \E s \in {<<"PENDING", "PUBLISHING">>, <<"PUBLISHING", "PUBLISHED">>,
                 <<"PUBLISHING", "FAILED">>, <<"FAILED", "PUBLISHING">>} :
         row.status = s[1] /\ row' = [row EXCEPT !.status = s[2]]
    /\ UNCHANGED <<day, table, log, lock, manager, lastRun, gone, partFaults>>

-----------------------------------------------------------------------------
store == UNCHANGED <<day, row, lock, lastRun, gone, partFaults>>

(* RunOnce: pg_try_advisory_lock, and the week the run starts from.          *)
AcquireLock(p) ==
    /\ manager[p].pc = "idle" /\ lock = NoProcess
    /\ lock' = p
    /\ manager' = [manager EXCEPT ![p] = [NoRun EXCEPT !.pc = "create", !.base = weekStart(day)]]
    /\ UNCHANGED <<day, table, row, log, lastRun, gone, partFaults>>

(* preCreate, a statement a step. An existing table is left as it is;        *)
(* Postgres refuses a partition whose rows are already in the default one.   *)
lastToCreateShort == WeeksAhead - 1

lastToCreate == WeeksAhead

PreCreate(p) ==
    /\ manager[p].pc = "create"
    /\ LET start == manager[p].base + 7 * manager[p].i
           name == partitionName(start)
           blocked == row.status # "none" /\ row.part = Default /\ dayOf(row.week) = start
       IN \/ /\ table[name] = "none" /\ ~blocked
             /\ table' = [table EXCEPT ![name] = "attached"]
          \/ /\ table[name] # "none" \/ blocked
             /\ UNCHANGED table
    /\ manager' = [manager EXCEPT ![p].i = @ + 1,
                     ![p].pc = IF manager[p].i = lastToCreate THEN "list" ELSE "create"]
    /\ UNCHANGED <<day, row, log, lock, lastRun, gone, partFaults>>

(* detachStale: the old partitions of the list ...                           *)
ListPartitions(p) ==
    /\ manager[p].pc = "list"
    /\ LET cutoff == weekStart(day) - 7 * RetentionWeeks
           stale == {n \in Names : table[n] = "attached" /\ weekEndFromName(n) < cutoff}
       IN manager' = [manager EXCEPT ![p].pc = "count", ![p].todo = stale]
    /\ UNCHANGED <<table, log>> /\ store

(* ... each counted, detached and logged, one statement after the other.     *)
unpublishedPending == {"PENDING", "FAILED"}

unpublished == {"PENDING", "FAILED", "PUBLISHING"}

countUnpublished(n) == IF row.part = n /\ row.status \in unpublished THEN 1 ELSE 0

CountUnpublished(p) ==
    /\ manager[p].pc = "count"
    /\ \/ /\ manager[p].todo = {}
          /\ manager' = [manager EXCEPT ![p].pc = "droplist"]
       \/ \E n \in manager[p].todo :
            manager' = [manager EXCEPT ![p].todo = @ \ {n},
                          ![p].name = IF countUnpublished(n) > 0 THEN Default ELSE n,
                          ![p].pc = IF countUnpublished(n) > 0 THEN "count" ELSE "detach"]
    /\ UNCHANGED <<table, log>> /\ store

(* Postgres refuses to detach what is not attached.                          *)
DetachPartition(p) ==
    /\ manager[p].pc = "detach"
    /\ \/ /\ table[manager[p].name] = "attached"
          /\ table' = [table EXCEPT ![manager[p].name] = "detached"]
          /\ gone' = [gone EXCEPT ![manager[p].name] = day]
          /\ manager' = [manager EXCEPT ![p].pc = "logdetach"]
       \/ /\ table[manager[p].name] # "attached"
          /\ manager' = [manager EXCEPT ![p].pc = "count", ![p].name = Default]
          /\ UNCHANGED <<table, gone>>
    /\ UNCHANGED <<day, row, log, lock, lastRun, partFaults>>

LogDetach(p) ==
    /\ manager[p].pc = "logdetach"
    /\ log' = [log EXCEPT ![manager[p].name].detach = IF @ = Never THEN day ELSE @]
    /\ manager' = [manager EXCEPT ![p].pc = "count", ![p].name = Default]
    /\ UNCHANGED table /\ store

(* dropDetached: logged as detached before the cutoff and not as dropped.    *)
detachedBeforeAny(n) == log[n].detach # Never /\ log[n].drop = Never

detachedBefore(n) ==
    log[n].detach # Never /\ log[n].detach + 7 * DropAfter < day /\ log[n].drop = Never

PartitionsDetachedBefore(p) ==
    /\ manager[p].pc = "droplist"
    /\ manager' = [manager EXCEPT ![p].pc = "drop", ![p].todo = {n \in Names : detachedBefore(n)}]
    /\ UNCHANGED <<table, log>> /\ store

DropPartition(p) ==
    /\ manager[p].pc = "drop"
    /\ \E n \in manager[p].todo :
         /\ table' = [table EXCEPT ![n] = "dropped"]          \* IF EXISTS
         /\ manager' = [manager EXCEPT ![p].todo = @ \ {n}, ![p].name = n, ![p].pc = "logdrop"]
    /\ UNCHANGED log /\ store

LogDrop(p) ==
    /\ manager[p].pc = "logdrop"
    /\ log' = [log EXCEPT ![manager[p].name].drop = day]
    /\ manager' = [manager EXCEPT ![p].pc = "drop", ![p].name = Default]
    /\ UNCHANGED table /\ store

(* ReleaseLock: without effect when the connection and its lock are gone.    *)
ReleaseLock(p) ==
    /\ manager[p].pc = "drop" /\ manager[p].todo = {}
    /\ lock' = IF lock = p THEN NoProcess ELSE lock
    /\ lastRun' = IF manager[p].faults = 0 /\ manager[p].base = day THEN day \div 7 ELSE lastRun
    /\ manager' = [manager EXCEPT ![p] = NoRun]
    /\ UNCHANGED <<day, table, row, log, gone, partFaults>>

-----------------------------------------------------------------------------
(* A failed statement is logged and the run goes on after it: with the next  *)
(* partition, or with the next part of the run if a list could not be read.  *)
StatementFails(p) ==
    /\ partFaults < MaxFaults /\ partFaults' = partFaults + 1
    /\ \/ \E next \in {<<"create", IF manager[p].i = lastToCreate THEN "list" ELSE "create">>,
                       <<"list", "droplist">>, <<"detach", "count">>, <<"logdetach", "count">>,
                       <<"droplist", "drop">>, <<"logdrop", "drop">>} :
            /\ manager[p].pc = next[1]
            /\ manager' = [manager EXCEPT ![p].pc = next[2], ![p].faults = @ + 1, ![p].name = Default,
                             ![p].i = IF next[1] = "create" THEN @ + 1 ELSE @]
       \/ /\ manager[p].pc \in {"count", "drop"}
          /\ \E n \in manager[p].todo :
               manager' = [manager EXCEPT ![p].todo = @ \ {n}, ![p].faults = @ + 1]
    /\ UNCHANGED <<day, table, row, log, lock, lastRun, gone>>

(* The connection of the lock is lost, and the lock with it; the run goes on. *)
LoseLock(p) ==
    /\ lock = p /\ partFaults < MaxFaults
    /\ partFaults' = partFaults + 1 /\ lock' = NoProcess
    /\ manager' = [manager EXCEPT ![p].faults = @ + 1]
    /\ UNCHANGED <<day, table, row, log, lastRun, gone>>

Crash(p) ==
    /\ manager[p].pc # "idle" /\ partFaults < MaxFaults
    /\ partFaults' = partFaults + 1
    /\ lock' = IF lock = p THEN NoProcess ELSE lock
    /\ manager' = [manager EXCEPT ![p] = NoRun]
    /\ UNCHANGED <<day, table, row, log, lastRun, gone>>

-----------------------------------------------------------------------------
ManagerStep(p) ==
    \/ PreCreate(p) \/ ListPartitions(p) \/ CountUnpublished(p) \/ DetachPartition(p)
    \/ LogDetach(p) \/ PartitionsDetachedBefore(p) \/ DropPartition(p) \/ LogDrop(p)
    \/ ReleaseLock(p) \/ StatementFails(p) \/ LoseLock(p) \/ Crash(p)

PNext ==
    \/ NextWeek \/ WriteEvent \/ RelayStep
    \/ \E p \in Processes : AcquireLock(p) \/ ManagerStep(p)

PSpec == PInit /\ [][PNext]_partVars

-----------------------------------------------------------------------------
(* The week a partition's name is made from is the week read back from it,   *)
(* over every turn of the year, 53-week years included (manager.go:158-183,  *)
(* used by detachStale); so no two weeks share a partition.                  *)
NameRoundTrip ==
    \A w \in Calendar : weekEndFromName(partitionName(dayOf(w))) = dayOf(w) + 7

(* No event that is still to be published is ever in a partition the relay   *)
(* cannot see: rows may change state between the count and the detach, and   *)
(* two runs may overlap once a lock's connection is lost (manager.go:107).   *)
UnpublishedStayVisible == row.status \in {"PENDING", "PUBLISHING", "FAILED"} => visible

(* One run without faults in the week, or in any of the WeeksAhead weeks     *)
(* before it, is enough for an event not to fall into the default partition, *)
(* which is never detached and blocks the creation of the week's own         *)
(* (manager.go:72-89).                                                       *)
DefaultOnlyAfterOutage ==
    [][row.status = "none" /\ row'.status # "none" /\ row'.part = Default =>
         lastRun = Never \/ lastRun + WeeksAhead < row.week]_row

(* A partition is dropped only after it has been detached for more than      *)
(* DropAfter, however runs overlap or break off between a statement and its  *)
(* log entry (manager.go:127-147).                                           *)
DroppedAfterGrace ==
    [][\A n \in Names : table'[n] = "dropped" /\ table[n] # "dropped" =>
         table[n] = "detached" /\ gone[n] + 7 * DropAfter < day]_partVars
=============================================================================
