---------------------------- MODULE SqliteStorage ----------------------------
(***************************************************************************)
(* The events table and the queries of SqliteStorage.  Rows are never      *)
(* deleted or updated, so the table is the sequence of the saved events    *)
(* and the row with AUTOINCREMENT id k is its k-th element.                *)
(***************************************************************************)
EXTENDS Naturals, Sequences

CONSTANT LAST_EVENT_NUMBER   \* std::numeric_limits<uint64_t>::max()

ASSUME LastEventNumberAssumption == LAST_EVENT_NUMBER \in Nat \ {0}

\* Addition of two uint64_t.
Uint64(n) == n % (LAST_EVENT_NUMBER + 1)

\* Mutant: the SQL id is taken for the number of the event.
FirstIdFromZero(first) == first

\* Events are counted from 0, SQL ids from 1.
FirstId(first) == Uint64(first + 1)
LastId(last) == IF last = LAST_EVENT_NUMBER THEN last ELSE last + 1

\* SELECT ... WHERE id >= ? AND id <= ?, in the order of the ids.
Rows(table, firstId, lastId) ==
    SubSeq(table, IF firstId = 0 THEN 1 ELSE firstId,
                  IF lastId < Len(table) THEN lastId ELSE Len(table))

\* getSavedEvents(): an empty sequence also stands for std::nullopt, the
\* result when first > last, because its only caller treats both alike.
GetSavedEvents(table, first, last) ==
    IF first > last THEN <<>> ELSE Rows(table, FirstId(first), LastId(last))

\* Mutants: the insert is rolled back; the newest row comes first.
InsertLost(table, event) == table
InsertInFront(table, event) == <<event>> \o table

\* INSERT INTO events.
Insert(table, event) == Append(table, event)

\* Mutant: the number of the last event instead of the number of events.
LastEventNumber(table) == IF table = <<>> THEN 0 ELSE Len(table) - 1

\* SELECT COUNT(id).
GetNumberOfEvents(table) == Len(table)
==============================================================================
