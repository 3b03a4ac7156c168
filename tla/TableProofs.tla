----------------------------- MODULE TableProofs -----------------------------
(***************************************************************************)
(* Proof about the tables of a block (MemoryTable), for any number of      *)
(* rows, changes and nested calls: a query and a commit see the table as   *)
(* its operations left it, undone calls included.  What a rollback         *)
(* restores is in the change log: every savepoint's table is what undoing  *)
(* the changes since would leave, row by row.                              *)
(***************************************************************************)
EXTENDS MemoryTable, FiniteSetTheorems, TLAPS

\* A leaf that names no prover is for the SMT solver, with a minute of time.
USE SMTT(60)

\* The entry of a row.
Entries == [value: TableValues, removed: BOOLEAN, deleted: BOOLEAN]

\* The names that rows can have.
RowNames == Nat \X Nat

\* A record of the change log.
Changes == [kind: {"update", "insert", "remove"},
            was: UNION { [S -> Entries] : S \in SUBSET RowNames }]

\* A table without overlay.
PlainTables == UNION { [S -> TableValues] : S \in SUBSET RowNames }

\* The rows of the table, removed and undone ones included.
Rows == {StoredRow(id) : id \in DOMAIN dbRows} \cup {NewRow(i) : i \in DOMAIN newEntries}

\* The entry that undoing a change leaves.
Undo(change, r) ==
    IF change.kind = "insert" THEN [change.was[r] EXCEPT !.deleted = TRUE] ELSE change.was[r]

\* The change at k of the log touches the row.
Touched(log, k, r) == r \in DOMAIN log[k].was

\* The oldest change after `at' that touches the row: the one undone last.
FirstAfter(log, k, at, r) ==
    /\ k \in at + 1 .. Len(log)
    /\ Touched(log, k, r)
    /\ \A j \in at + 1 .. k - 1 : ~Touched(log, j, r)

\* An entry is what a table without overlay has.
Agree(e, ref, r) ==
    /\ r \in DOMAIN ref <=> ~e.removed /\ ~e.deleted
    /\ r \in DOMAIN ref => ref[r] = e.value

\* Undoing the changes after `at' takes the row from entry e to the table ref.
Back(log, at, e, ref, r) ==
    /\ (\A j \in at + 1 .. Len(log) : ~Touched(log, j, r)) => Agree(e, ref, r)
    /\ \A k \in at + 1 .. Len(log) : FirstAfter(log, k, at, r) => Agree(Undo(log[k], r), ref, r)

\* The types of the overlay: dirty entries are of stored rows, and only new
\* rows are ever deleted.
Overlay ==
    /\ lastId \in Nat
    /\ DOMAIN dbRows \subseteq Nat \ {0}
    /\ \A id \in DOMAIN dbRows : dbRows[id] \in TableValues
    /\ DOMAIN tableDirty \subseteq DOMAIN dbRows
    /\ \A id \in DOMAIN tableDirty : tableDirty[id] \in Entries /\ ~tableDirty[id].deleted
    /\ dirtyUpdated \subseteq DOMAIN tableDirty
    /\ newEntries \in Seq(Entries)

\* A stored row that a query does not look for has been removed.
FoundAgain ==
    \A id \in DOMAIN tableDirty \ dirtyUpdated : tableDirty[id].removed \/ StoredRow(id) \in restored

\* A change of the log is of rows of the table; a stored row among them is
\* dirty, and it is looked for if it was updated.
ChangeKept(c) ==
    \A r \in DOMAIN c.was :
        /\ r \in Rows
        /\ c.was[r] \in Entries
        /\ r[1] # 0 =>
              /\ c.kind # "insert" /\ ~c.was[r].deleted
              /\ r[1] \in DOMAIN tableDirty
              /\ c.kind = "update" => r[1] \in dirtyUpdated \/ r \in restored

LogKept == changeLog \in Seq(Changes) /\ \A k \in 1 .. Len(changeLog) : ChangeKept(changeLog[k])

\* The table as its operations left it.
Current ==
    /\ reference \in PlainTables /\ DOMAIN reference \subseteq Rows
    /\ \A r \in Rows \ restored : Agree(EntryOf(r), reference, r)

\* A savepoint can be gone back to.
Restorable(s) ==
    /\ s.at <= Len(changeLog)
    /\ DOMAIN s.reference \subseteq Rows
    /\ \A r \in Rows \ restored : Back(changeLog, s.at, EntryOf(r), s.reference, r)

Nested ==
    /\ savepoints \in Seq([at: Nat, reference: PlainTables])
    /\ \A i \in 1 .. Len(savepoints) : Restorable(savepoints[i])
    /\ \A i, j \in 1 .. Len(savepoints) : i <= j => savepoints[i].at <= savepoints[j].at

\* What a dump collects.
Collected ==
    {StoredRow(id) : id \in DOMAIN tableDirty}
        \cup {NewRow(i) : i \in {j \in DOMAIN newEntries : ~newEntries[j].deleted}}

\* A dump that is not stale is still right.
DumpKept ==
    /\ changeLog # <<>> => tableData = Stale
    /\ tableData # Stale => tableData = Collected

\* The inductive invariant.
TableInv == Overlay /\ FoundAgain /\ LogKept /\ Current /\ Nested /\ DumpKept

-----------------------------------------------------------------------------
\* A row is a stored one or a new one, and its name says which.
LEMMA RowKinds ==
    ASSUME Overlay, NEW r \in Rows
    PROVE  /\ r \in RowNames /\ r[1] \in Nat /\ r[2] \in Nat
           /\ r[1] # 0 => r = StoredRow(r[1]) /\ r[1] \in DOMAIN dbRows
           /\ r[1] = 0 => r = NewRow(r[2]) /\ r[2] \in DOMAIN newEntries
<1>1. DOMAIN newEntries \subseteq Nat /\ DOMAIN dbRows \subseteq Nat \ {0}
  BY DEF Overlay
<1>2. CASE \E id \in DOMAIN dbRows : r = StoredRow(id)
  BY <1>1, <1>2 DEF StoredRow, RowNames
<1>3. CASE \E i \in DOMAIN newEntries : r = NewRow(i)
  BY <1>1, <1>3 DEF NewRow, RowNames
<1> QED
  BY <1>2, <1>3 DEF Rows

\* The name of a stored row and that of a new one.
LEMMA NamedRows ==
    ASSUME Overlay
    PROVE  /\ \A id \in DOMAIN dbRows : StoredRow(id) \in Rows /\ StoredRow(id)[1] = id /\ id # 0
           /\ \A i \in DOMAIN newEntries : NewRow(i) \in Rows /\ NewRow(i)[1] = 0 /\ NewRow(i)[2] = i
BY DEF Overlay, Rows, StoredRow, NewRow

\* Every row has an entry.
LEMMA EntryTyped ==
    ASSUME Overlay, NEW r \in Rows
    PROVE  EntryOf(r) \in Entries /\ (r[1] # 0 => ~EntryOf(r).deleted)
<1>1. CASE r[1] = 0
  BY <1>1, RowKinds DEF EntryOf, Overlay
<1>2. CASE r[1] # 0 /\ r[1] \in DOMAIN tableDirty
  BY <1>2 DEF EntryOf, Overlay
<1>3. CASE r[1] # 0 /\ r[1] \notin DOMAIN tableDirty
  BY <1>3, RowKinds DEF EntryOf, Overlay, Entries
<1> QED
  BY <1>1, <1>2, <1>3

\* selectNoLock finds only rows that meet the condition, and all of those that
\* were not restored.
LEMMA Selection ==
    ASSUME Overlay, FoundAgain, NEW condition
    PROVE  \A r : /\ r \in SelectNoLock(condition) => r \in Rows /\ Process(EntryOf(r), condition)
                  /\ r \in Rows \ restored /\ Process(EntryOf(r), condition)
                        => r \in SelectNoLock(condition)
<1> DEFINE found == {id \in DOMAIN dbRows : dbRows[id] \in condition}
           clean == {j \in found : j \in DOMAIN tableDirty => Process(tableDirty[j], condition)}
           again == {j \in dirtyUpdated \ found : Process(tableDirty[j], condition)}
           fresh == {j \in DOMAIN newEntries : Process(newEntries[j], condition)}
<1>1. SelectNoLock(condition) = {StoredRow(id) : id \in clean} \cup {StoredRow(id) : id \in again}
                                   \cup {NewRow(i) : i \in fresh}
  BY DEF SelectNoLock
<1>2. \A id \in DOMAIN dbRows : EntryOf(StoredRow(id)) =
          IF id \in DOMAIN tableDirty THEN tableDirty[id]
          ELSE [value |-> dbRows[id], removed |-> FALSE, deleted |-> FALSE]
  BY NamedRows, ZenonT(60) DEF EntryOf
<1>3. \A i \in DOMAIN newEntries : EntryOf(NewRow(i)) = newEntries[i]
  BY NamedRows DEF EntryOf
<1>4. ASSUME NEW id \in clean PROVE StoredRow(id) \in Rows /\ Process(EntryOf(StoredRow(id)), condition)
  BY <1>2, <1>4, NamedRows DEF Process
<1>5. ASSUME NEW id \in again PROVE StoredRow(id) \in Rows /\ Process(EntryOf(StoredRow(id)), condition)
  BY <1>2, <1>5, NamedRows DEF Process, Overlay
<1>6. ASSUME NEW i \in fresh PROVE NewRow(i) \in Rows /\ Process(EntryOf(NewRow(i)), condition)
  BY <1>3, <1>6, NamedRows
<1>7. ASSUME NEW r \in Rows \ restored, Process(EntryOf(r), condition), r[1] # 0
      PROVE  r[1] \in clean \cup again
  <2>1. r = StoredRow(r[1]) /\ r[1] \in DOMAIN dbRows
    BY <1>7, RowKinds
  <2>2. CASE r[1] \in DOMAIN tableDirty
    <3>1. Process(tableDirty[r[1]], condition)
      BY <1>2, <1>7, <2>1, <2>2
    <3>2. r[1] \in dirtyUpdated
      BY <1>7, <2>1, <2>2, <3>1 DEF FoundAgain, Process
    <3> QED
      BY <2>1, <3>1, <3>2
  <2>3. CASE r[1] \notin DOMAIN tableDirty
    BY <1>2, <1>7, <2>1, <2>3 DEF Process
  <2> QED
    BY <2>2, <2>3
<1>8. ASSUME NEW r \in Rows, Process(EntryOf(r), condition), r[1] = 0
      PROVE  r[2] \in fresh /\ r = NewRow(r[2])
  BY <1>3, <1>8, RowKinds
<1>9. ASSUME NEW r \in SelectNoLock(condition)
      PROVE  r \in Rows /\ Process(EntryOf(r), condition)
  BY <1>1, <1>4, <1>5, <1>6, <1>9
<1>10. ASSUME NEW r \in Rows \ restored, Process(EntryOf(r), condition)
       PROVE  r \in SelectNoLock(condition)
  <2>1. CASE r[1] = 0
    BY <1>1, <1>8, <1>10, <2>1
  <2>2. CASE r[1] # 0
    BY <1>1, <1>7, <1>10, <2>2, RowKinds
  <2> QED
    BY <2>1, <2>2
<1> QED
  BY <1>9, <1>10

\* SetEntries gives exactly the rows it is called with their entries.
LEMMA EntriesSet ==
    ASSUME Overlay, dbRows' = dbRows, NEW E,
           \A r \in DOMAIN E : /\ r \in Rows /\ E[r] \in Entries
                               /\ r[1] # 0 => ~E[r].deleted,
           SetEntries(E)
    PROVE  /\ newEntries' \in Seq(Entries) /\ Len(newEntries') = Len(newEntries)
           /\ Rows' = Rows
           /\ DOMAIN tableDirty \subseteq DOMAIN tableDirty'
           /\ \A id \in DOMAIN tableDirty' :
                 /\ id \in DOMAIN dbRows
                 /\ id \notin DOMAIN tableDirty => StoredRow(id) \in DOMAIN E
                 /\ tableDirty'[id] = IF StoredRow(id) \in DOMAIN E THEN E[StoredRow(id)] ELSE tableDirty[id]
                 /\ tableDirty'[id] \in Entries /\ ~tableDirty'[id].deleted
           /\ \A r \in DOMAIN E : r[1] # 0 => r[1] \in DOMAIN tableDirty'
           /\ \A r \in Rows : EntryOf(r)' = IF r \in DOMAIN E THEN E[r] ELSE EntryOf(r)
<1> DEFINE ids == {r[1] : r \in {s \in DOMAIN E : s[1] # 0}}
<1>1. tableDirty' = [id \in DOMAIN tableDirty \cup ids |->
                        IF id \in ids THEN E[StoredRow(id)] ELSE tableDirty[id]]
  BY DEF SetEntries
<1>2. newEntries' = [i \in DOMAIN newEntries |->
                        IF NewRow(i) \in DOMAIN E THEN E[NewRow(i)] ELSE newEntries[i]]
  BY DEF SetEntries
<1>3. DOMAIN newEntries = 1 .. Len(newEntries) /\ Len(newEntries) \in Nat
  BY DEF Overlay
<1>4. \A i \in DOMAIN newEntries : newEntries'[i] \in Entries
  BY <1>2 DEF Overlay
<1>5. newEntries' \in Seq(Entries) /\ Len(newEntries') = Len(newEntries)
  <2>1. newEntries' \in [1 .. Len(newEntries) -> Entries]
    BY <1>2, <1>3, <1>4
  <2> QED
    BY <2>1, <1>3
<1>6. DOMAIN newEntries' = DOMAIN newEntries
  BY <1>2
<1>7. Rows' = Rows
  BY <1>6 DEF Rows
<1>8. \A id \in DOMAIN dbRows : id \in ids <=> StoredRow(id) \in DOMAIN E
  <2>1. ASSUME NEW id \in DOMAIN dbRows, StoredRow(id) \in DOMAIN E PROVE id \in ids
    BY <2>1, NamedRows
  <2>2. ASSUME NEW id \in DOMAIN dbRows, NEW r \in DOMAIN E, r[1] # 0, r[1] = id
        PROVE  StoredRow(id) \in DOMAIN E
    BY <2>2, RowKinds
  <2> QED
    BY <2>1, <2>2
<1>9. ids \subseteq DOMAIN dbRows
  BY RowKinds
<1>10. DOMAIN tableDirty' = DOMAIN tableDirty \cup ids
  BY <1>1
<1>11. ASSUME NEW id \in DOMAIN tableDirty'
       PROVE  /\ id \in DOMAIN dbRows
              /\ id \notin DOMAIN tableDirty => StoredRow(id) \in DOMAIN E
              /\ tableDirty'[id] = IF StoredRow(id) \in DOMAIN E THEN E[StoredRow(id)] ELSE tableDirty[id]
              /\ tableDirty'[id] \in Entries /\ ~tableDirty'[id].deleted
  <2>1. id \in DOMAIN dbRows
    BY <1>9, <1>10, <1>11 DEF Overlay
  <2>2. tableDirty'[id] = IF StoredRow(id) \in DOMAIN E THEN E[StoredRow(id)] ELSE tableDirty[id]
    BY <1>1, <1>8, <1>11, <2>1
  <2>3. id \notin DOMAIN tableDirty => StoredRow(id) \in DOMAIN E
    BY <1>8, <1>10, <1>11, <2>1
  <2>4. CASE StoredRow(id) \in DOMAIN E
    BY <2>1, <2>2, <2>4, NamedRows
  <2>5. CASE StoredRow(id) \notin DOMAIN E
    BY <2>2, <2>3, <2>5 DEF Overlay
  <2> QED
    BY <2>1, <2>2, <2>3, <2>4, <2>5
<1>12. \A r \in DOMAIN E : r[1] # 0 => r[1] \in DOMAIN tableDirty'
  BY <1>10
<1>13. ASSUME NEW r \in Rows
       PROVE  EntryOf(r)' = IF r \in DOMAIN E THEN E[r] ELSE EntryOf(r)
  <2>1. CASE r[1] = 0
    <3>1. r = NewRow(r[2]) /\ r[2] \in DOMAIN newEntries
      BY <2>1, RowKinds
    <3>2. EntryOf(r)' = newEntries'[r[2]] /\ EntryOf(r) = newEntries[r[2]]
      BY <2>1 DEF EntryOf
    <3> QED
      BY <1>2, <3>1, <3>2
  <2>2. CASE r[1] # 0
    <3>1. r = StoredRow(r[1]) /\ r[1] \in DOMAIN dbRows
      BY <2>2, RowKinds
    <3>2. EntryOf(r)' = IF r[1] \in DOMAIN tableDirty' THEN tableDirty'[r[1]]
                        ELSE [value |-> dbRows[r[1]], removed |-> FALSE, deleted |-> FALSE]
      BY <2>2 DEF EntryOf
    <3>3. EntryOf(r) = IF r[1] \in DOMAIN tableDirty THEN tableDirty[r[1]]
                       ELSE [value |-> dbRows[r[1]], removed |-> FALSE, deleted |-> FALSE]
      BY <2>2 DEF EntryOf
    <3>4. CASE r[1] \in DOMAIN tableDirty'
      BY <1>11, <3>1, <3>2, <3>3, <3>4
    <3>5. CASE r[1] \notin DOMAIN tableDirty'
      BY <1>8, <1>10, <3>1, <3>2, <3>3, <3>5
    <3> QED
      BY <3>4, <3>5
  <2> QED
    BY <2>1, <2>2
<1> QED
  BY <1>5, <1>7, <1>10, <1>11, <1>12, <1>13

\* A savepoint survives a change that finds the row as it is.
LEMMA AppendedBack ==
    ASSUME NEW log \in Seq(Changes), NEW c \in Changes, NEW at \in Nat, at <= Len(log),
           NEW e, NEW f, NEW ref, NEW r,
           Back(log, at, e, ref, r),
           r \in DOMAIN c.was => Undo(c, r) = e,
           r \notin DOMAIN c.was => f = e
    PROVE  Back(Append(log, c), at, f, ref, r)
<1> DEFINE new == Append(log, c)
           n == Len(log)
<1>1. n \in Nat /\ Len(new) = n + 1 /\ new[n + 1] = c /\ \A k \in 1 .. n : new[k] = log[k]
  OBVIOUS
<1> HIDE DEF new, n
<1>2. \A k \in at + 1 .. n : Touched(new, k, r) <=> Touched(log, k, r)
  BY <1>1 DEF Touched
<1>3. Touched(new, n + 1, r) <=> r \in DOMAIN c.was
  BY <1>1 DEF Touched
<1>4. ASSUME \A j \in at + 1 .. Len(new) : ~Touched(new, j, r)
      PROVE  Agree(f, ref, r)
  <2>1. \A j \in at + 1 .. n : ~Touched(log, j, r)
    BY <1>1, <1>2, <1>4
  <2>2. n + 1 \in at + 1 .. Len(new)
    BY <1>1 DEF n
  <2>3. f = e
    BY <1>3, <1>4, <2>2
  <2> QED
    BY <2>1, <2>3 DEF Back, n
<1>5. ASSUME NEW k \in at + 1 .. Len(new), FirstAfter(new, k, at, r)
      PROVE  Agree(Undo(new[k], r), ref, r)
  <2>1. CASE k = n + 1
    <3>1. \A j \in at + 1 .. n : ~Touched(log, j, r)
      BY <1>1, <1>2, <1>5, <2>1 DEF FirstAfter
    <3>2. Undo(new[k], r) = e
      BY <1>1, <1>3, <1>5, <2>1 DEF FirstAfter
    <3> QED
      BY <3>1, <3>2 DEF Back, n
  <2>2. CASE k # n + 1
    <3>1. k \in at + 1 .. n
      BY <1>1, <1>5, <2>2
    <3>2. FirstAfter(log, k, at, r)
      BY <1>1, <1>2, <1>5, <3>1 DEF FirstAfter, n
    <3>3. new[k] = log[k]
      BY <1>1, <3>1
    <3> QED
      BY <3>1, <3>2, <3>3 DEF Back, n
  <2> QED
    BY <2>1, <2>2
<1> QED
  BY <1>4, <1>5 DEF Back, new

\* And the insertion of a row that the savepoint's table does not have.
LEMMA InsertedBack ==
    ASSUME NEW log \in Seq(Changes), NEW c \in Changes, NEW at \in Nat, at <= Len(log),
           NEW f, NEW ref, NEW r,
           r \notin DOMAIN ref, r \in DOMAIN c.was, Undo(c, r).deleted,
           \A k \in 1 .. Len(log) : ~Touched(log, k, r)
    PROVE  Back(Append(log, c), at, f, ref, r)
<1> DEFINE new == Append(log, c)
           n == Len(log)
<1>1. n \in Nat /\ Len(new) = n + 1 /\ new[n + 1] = c /\ \A k \in 1 .. n : new[k] = log[k]
  OBVIOUS
<1> HIDE DEF new, n
<1>2. n + 1 \in at + 1 .. Len(new)
  BY <1>1 DEF n
<1>3. Touched(new, n + 1, r)
  BY <1>1 DEF Touched
<1>4. ASSUME NEW k \in at + 1 .. Len(new), FirstAfter(new, k, at, r)
      PROVE  Agree(Undo(new[k], r), ref, r)
  <2>1. k = n + 1
    BY <1>1, <1>4 DEF FirstAfter, Touched, n
  <2> QED
    BY <1>1, <2>1 DEF Agree
<1> QED
  BY <1>2, <1>3, <1>4 DEF Back, new

\* A savepoint outlives the rollback to a later one.
LEMMA TruncatedBack ==
    ASSUME NEW log \in Seq(Changes), NEW at \in Nat, NEW to \in Nat, at <= to, to <= Len(log),
           NEW e, NEW f, NEW ref, NEW r,
           Back(log, at, e, ref, r),
           \/ f = e /\ \A j \in to + 1 .. Len(log) : ~Touched(log, j, r)
           \/ \E k \in to + 1 .. Len(log) : FirstAfter(log, k, to, r) /\ f = Undo(log[k], r)
    PROVE  Back(SubSeq(log, 1, to), at, f, ref, r)
<1> DEFINE new == SubSeq(log, 1, to)
<1>1. Len(new) = to /\ Len(log) \in Nat /\ \A k \in 1 .. to : new[k] = log[k]
  OBVIOUS
<1> HIDE DEF new
<1>2. \A k \in at + 1 .. to : Touched(new, k, r) <=> Touched(log, k, r)
  BY <1>1 DEF Touched
<1>3. ASSUME \A j \in at + 1 .. Len(new) : ~Touched(new, j, r)
      PROVE  Agree(f, ref, r)
  <2>1. \A j \in at + 1 .. to : ~Touched(log, j, r)
    BY <1>1, <1>2, <1>3
  <2>2. CASE f = e /\ \A j \in to + 1 .. Len(log) : ~Touched(log, j, r)
    <3>1. \A j \in at + 1 .. Len(log) : j \in at + 1 .. to \/ j \in to + 1 .. Len(log)
      BY <1>1
    <3>2. \A j \in at + 1 .. Len(log) : ~Touched(log, j, r)
      BY <2>1, <2>2, <3>1
    <3> QED
      BY <2>2, <3>2 DEF Back
  <2>3. ASSUME NEW k \in to + 1 .. Len(log), FirstAfter(log, k, to, r), f = Undo(log[k], r)
        PROVE  Agree(f, ref, r)
    <3>1. \A j \in at + 1 .. k - 1 : j \in at + 1 .. to \/ j \in to + 1 .. k - 1
      BY <1>1
    <3>2. k \in at + 1 .. Len(log)
      BY <1>1
    <3>3. FirstAfter(log, k, at, r)
      BY <2>1, <2>3, <3>1, <3>2 DEF FirstAfter
    <3> QED
      BY <2>3, <3>2, <3>3 DEF Back
  <2> QED
    BY <2>2, <2>3
<1>4. ASSUME NEW k \in at + 1 .. Len(new), FirstAfter(new, k, at, r)
      PROVE  Agree(Undo(new[k], r), ref, r)
  <2>1. k \in at + 1 .. Len(log) /\ k \in at + 1 .. to /\ new[k] = log[k]
    BY <1>1, <1>4
  <2>2. FirstAfter(log, k, at, r)
    BY <1>1, <1>2, <1>4, <2>1 DEF FirstAfter
  <2> QED
    BY <2>1, <2>2 DEF Back
<1> QED
  BY <1>3, <1>4 DEF Back, new

\* A row that a rollback restores has an oldest undone change, which
\* LastUndone finds.
LEMMA OldestUndone ==
    ASSUME changeLog \in Seq(Changes), NEW at \in Nat, NEW r,
           NEW m \in at + 1 .. Len(changeLog), Touched(changeLog, m, r)
    PROVE  \E k \in at + 1 .. Len(changeLog) :
              FirstAfter(changeLog, k, at, r) /\ LastUndone(r, at) = changeLog[k]
<1> DEFINE K == {k \in at + 1 .. Len(changeLog) : Touched(changeLog, k, r)}
<1>1. K \subseteq Nat /\ m \in K
  OBVIOUS
<1>2. PICK k \in K : \A j \in K : ~(<<j, k>> \in OpToRel(<, Nat))
  BY <1>1, NatLessThanWellFounded, WFMin, ZenonT(60)
<1>3. \A j \in K : ~(j < k)
  BY <1>1, <1>2, ZenonT(60) DEF OpToRel
<1>a. \A j \in at + 1 .. k - 1 : ~Touched(changeLog, j, r)
  <2>1. \A j \in at + 1 .. k - 1 : j \in at + 1 .. Len(changeLog) /\ j < k
    OBVIOUS
  <2> QED
    BY <1>3, <2>1
<1>4. FirstAfter(changeLog, k, at, r)
  BY <1>a DEF FirstAfter
<1> DEFINE P(l) == /\ r \in DOMAIN changeLog[l].was
                   /\ \A j \in at + 1 .. l - 1 : r \notin DOMAIN changeLog[j].was
           l == CHOOSE x \in at + 1 .. Len(changeLog) : P(x)
<1>5. \E x \in at + 1 .. Len(changeLog) : P(x)
  BY <1>4 DEF FirstAfter, Touched
<1>6. l \in at + 1 .. Len(changeLog) /\ P(l)
  BY <1>5
<1>7. LastUndone(r, at) = changeLog[l]
  BY DEF LastUndone
<1> HIDE DEF l
<1> QED
  BY <1>6, <1>7 DEF FirstAfter, Touched

\* What is known of one savepoint.
LEMMA SavepointTyped ==
    ASSUME Nested, NEW i \in 1 .. Len(savepoints)
    PROVE  /\ savepoints[i].at \in Nat /\ savepoints[i].at <= Len(changeLog)
           /\ savepoints[i].reference \in PlainTables
           /\ DOMAIN savepoints[i].reference \subseteq Rows
           /\ Len(savepoints) \in Nat
<1> DEFINE S == [at: Nat, reference: PlainTables]
<1>1. savepoints \in Seq(S)
  BY ZenonT(60) DEF Nested
<1> HIDE DEF S
<1>2. savepoints[i] \in S /\ Len(savepoints) \in Nat
  BY <1>1
<1>3. savepoints[i].at \in Nat /\ savepoints[i].reference \in PlainTables
  BY <1>2 DEF S
<1>4. Restorable(savepoints[i])
  BY ZenonT(60) DEF Nested
<1> QED
  BY <1>2, <1>3, <1>4, ZenonT(60) DEF Restorable

-----------------------------------------------------------------------------
\* What an update or a removal does, apart from the new values.
LEMMA ChangeLogged ==
    ASSUME TableInv, NEW rows, rows \subseteq Rows, NEW E, DOMAIN E = rows,
           \A r \in rows : E[r] \in Entries /\ (r[1] # 0 => ~E[r].deleted),
           SetEntries(E), NEW kind \in {"update", "remove"},
           Record(kind, [r \in rows |-> EntryOf(r)]),
           dbRows' = dbRows, lastId' = lastId, savepoints' = savepoints, restored' = restored,
           dirtyUpdated \subseteq dirtyUpdated',
           \A id \in dirtyUpdated' : id \in dirtyUpdated \/ StoredRow(id) \in rows,
           \A r \in rows : kind = "update" /\ r[1] # 0 => r[1] \in dirtyUpdated' \/ r \in restored
    PROVE  Overlay' /\ LogKept' /\ Nested' /\ Rows' = Rows
<1> DEFINE c == [kind |-> kind, was |-> [r \in rows |-> EntryOf(r)]]
<1>1. Overlay /\ LogKept /\ Nested
  BY DEF TableInv
<1>2. /\ newEntries' \in Seq(Entries) /\ Len(newEntries') = Len(newEntries)
      /\ Rows' = Rows
      /\ DOMAIN tableDirty \subseteq DOMAIN tableDirty'
      /\ \A id \in DOMAIN tableDirty' :
            /\ id \in DOMAIN dbRows
            /\ tableDirty'[id] \in Entries /\ ~tableDirty'[id].deleted
      /\ \A r \in rows : r[1] # 0 => r[1] \in DOMAIN tableDirty'
      /\ \A r \in Rows : EntryOf(r)' = IF r \in rows THEN E[r] ELSE EntryOf(r)
  <2>1. \A r \in DOMAIN E : r \in Rows /\ E[r] \in Entries /\ (r[1] # 0 => ~E[r].deleted)
    OBVIOUS
  <2> QED
    BY <1>1, <2>1, EntriesSet
<1>3. \A r \in rows : EntryOf(r) \in Entries /\ (r[1] # 0 => ~EntryOf(r).deleted)
  BY <1>1, EntryTyped
<1>4. c \in Changes /\ DOMAIN c.was = rows /\ c.kind = kind /\ \A r \in rows : c.was[r] = EntryOf(r)
  <2>1. rows \in SUBSET RowNames
    BY <1>1, RowKinds
  <2>2. c.was \in [rows -> Entries]
    BY <1>3
  <2> QED
    BY <2>1, <2>2 DEF Changes
<1>5. changeLog' = Append(changeLog, c)
  BY DEF Record
<1> HIDE DEF c
<1>6. changeLog \in Seq(Changes) /\ Len(changeLog) \in Nat /\ changeLog' \in Seq(Changes)
      /\ Len(changeLog') = Len(changeLog) + 1
      /\ changeLog'[Len(changeLog) + 1] = c
      /\ \A k \in 1 .. Len(changeLog) : changeLog'[k] = changeLog[k]
  BY <1>1, <1>4, <1>5 DEF LogKept
<1>7. Overlay'
  <2>1. \A id \in dirtyUpdated' : id \in DOMAIN tableDirty'
    <3>1. ASSUME NEW id, StoredRow(id) \in rows PROVE id \in DOMAIN tableDirty'
      <4>1. StoredRow(id)[1] = id /\ StoredRow(id)[2] = 0
        BY DEF StoredRow
      <4>2. id # 0
        BY <1>1, <3>1, <4>1, RowKinds DEF Overlay
      <4> QED
        BY <1>2, <3>1, <4>1, <4>2
    <3> QED
      BY <1>1, <1>2, <3>1 DEF Overlay
  <2> QED
    BY <1>1, <1>2, <2>1 DEF Overlay
<1>8. LogKept'
  <2>1. ASSUME NEW k \in 1 .. Len(changeLog), NEW r \in DOMAIN changeLog[k].was
        PROVE  /\ r \in Rows'
               /\ changeLog[k].was[r] \in Entries
               /\ r[1] # 0 =>
                    /\ changeLog[k].kind # "insert" /\ ~changeLog[k].was[r].deleted
                    /\ r[1] \in DOMAIN tableDirty'
                    /\ changeLog[k].kind = "update" => r[1] \in dirtyUpdated' \/ r \in restored'
    BY <1>1, <1>2, <2>1 DEF LogKept, ChangeKept
  <2>2. ASSUME NEW r \in DOMAIN c.was
        PROVE  /\ r \in Rows'
               /\ c.was[r] \in Entries
               /\ r[1] # 0 =>
                    /\ c.kind # "insert" /\ ~c.was[r].deleted
                    /\ r[1] \in DOMAIN tableDirty'
                    /\ c.kind = "update" => r[1] \in dirtyUpdated' \/ r \in restored'
    BY <1>2, <1>3, <1>4, <2>2
  <2>3. ASSUME NEW k \in 1 .. Len(changeLog') PROVE ChangeKept(changeLog[k])'
    <3>1. CASE k \in 1 .. Len(changeLog)
      BY <1>6, <2>1, <3>1 DEF ChangeKept
    <3>2. CASE k = Len(changeLog) + 1
      BY <1>6, <2>2, <3>2 DEF ChangeKept
    <3> QED
      BY <1>6, <3>1, <3>2
  <2> QED
    BY <1>6, <2>3 DEF LogKept
<1>9. Nested'
  <2>1. ASSUME NEW i \in 1 .. Len(savepoints) PROVE Restorable(savepoints[i])'
    <3> DEFINE s == savepoints[i]
    <3>1. s.at \in Nat /\ s.at <= Len(changeLog) /\ DOMAIN s.reference \subseteq Rows
      BY <1>1, SavepointTyped
    <3>2. ASSUME NEW r \in Rows \ restored
          PROVE  Back(Append(changeLog, c), s.at, EntryOf(r)', s.reference, r)
      <4>1. Back(changeLog, s.at, EntryOf(r), s.reference, r)
        BY <1>1 DEF Nested, Restorable
      <4>2. r \in DOMAIN c.was => Undo(c, r) = EntryOf(r)
        BY <1>4 DEF Undo
      <4>3. r \notin DOMAIN c.was => EntryOf(r)' = EntryOf(r)
        BY <1>2, <1>4
      <4> HIDE DEF s
      <4> QED
        BY <1>4, <1>6, <3>1, <4>1, <4>2, <4>3, AppendedBack
    <3>3. s.at <= Len(changeLog')
      BY <1>6, <3>1
    <3> QED
      BY <1>2, <1>5, <3>1, <3>2, <3>3 DEF Restorable
  <2> QED
    BY <1>1, <2>1 DEF Nested
<1> QED
  BY <1>2, <1>7, <1>8, <1>9

\* update.
LEMMA UpdateKeeps ==
    ASSUME TableInv, TableUpdate
    PROVE  TableInv'
<1>1. PICK condition \in Conditions, v \in TableValues :
          LET rows == SelectNoLock(condition)
          IN  /\ SetEntries([r \in rows |-> [EntryOf(r) EXCEPT !.value = v]])
              /\ dirtyUpdated' = dirtyUpdated \cup
                    {r[1] : r \in {s \in rows : s[1] # 0 /\ s[1] \notin DOMAIN tableDirty}}
              /\ Record("update", [r \in rows |-> EntryOf(r)])
              /\ reference' = [r \in DOMAIN reference |->
                                  IF reference[r] \in condition THEN v ELSE reference[r]]
  BY DEF TableUpdate
<1> DEFINE rows == SelectNoLock(condition)
           E == [r \in rows |-> [EntryOf(r) EXCEPT !.value = v]]
<1>2. dbRows' = dbRows /\ lastId' = lastId /\ savepoints' = savepoints /\ restored' = restored
      /\ tableData' = Stale
  BY DEF TableUpdate
<1>3. Overlay /\ FoundAgain /\ Current
  BY DEF TableInv
<1>4. /\ \A r \in rows : r \in Rows /\ Process(EntryOf(r), condition)
      /\ \A r \in Rows \ restored : Process(EntryOf(r), condition) => r \in rows
  BY <1>3, Selection
<1> HIDE DEF rows
<1>5. \A r \in rows : E[r] \in Entries /\ E[r].value = v /\ E[r].removed = EntryOf(r).removed
                      /\ E[r].deleted = EntryOf(r).deleted
  BY <1>3, <1>4, EntryTyped DEF Entries
<1>6. \A r \in rows : r[1] # 0 => ~E[r].deleted
  BY <1>3, <1>4, <1>5, EntryTyped
<1>7. SetEntries(E) /\ DOMAIN E = rows
  BY <1>1 DEF rows
<1>8. \A r \in rows : r[1] # 0 => r[1] \in dirtyUpdated' \/ r \in restored
  <2>1. ASSUME NEW r \in rows, r[1] # 0, r[1] \in DOMAIN tableDirty
        PROVE  r[1] \in dirtyUpdated \/ r \in restored
    <3>1. ~tableDirty[r[1]].removed
      BY <1>4, <2>1 DEF Process, EntryOf
    <3>2. r = StoredRow(r[1])
      BY <1>3, <1>4, <2>1, RowKinds
    <3> QED
      BY <1>3, <2>1, <3>1, <3>2 DEF FoundAgain
  <2> QED
    BY <1>1, <2>1 DEF rows
<1>9. \A id \in dirtyUpdated' : id \in dirtyUpdated \/ (StoredRow(id) \in rows /\ id \notin DOMAIN tableDirty)
  <2>1. ASSUME NEW r \in rows, r[1] # 0 PROVE StoredRow(r[1]) = r
    BY <1>3, <1>4, <2>1, RowKinds
  <2> QED
    BY <1>1, <2>1 DEF rows
<1>10. Record("update", [r \in rows |-> EntryOf(r)]) /\ dirtyUpdated \subseteq dirtyUpdated'
  BY <1>1 DEF rows
<1> HIDE DEF E
<1>11. Overlay' /\ LogKept' /\ Nested' /\ Rows' = Rows
  BY <1>2, <1>4, <1>5, <1>6, <1>7, <1>8, <1>9, <1>10, ChangeLogged, ZenonT(60)
<1>12. /\ \A id \in DOMAIN tableDirty' :
            /\ id \notin DOMAIN tableDirty => StoredRow(id) \in rows
            /\ tableDirty'[id] = IF StoredRow(id) \in rows THEN E[StoredRow(id)] ELSE tableDirty[id]
       /\ \A r \in Rows : EntryOf(r)' = IF r \in rows THEN E[r] ELSE EntryOf(r)
  BY <1>2, <1>3, <1>4, <1>5, <1>6, <1>7, EntriesSet
<1>13. FoundAgain'
  <2>1. ASSUME NEW id \in DOMAIN tableDirty' \ dirtyUpdated'
        PROVE  tableDirty'[id].removed \/ StoredRow(id) \in restored
    <3>1. CASE StoredRow(id) \in rows
      <4>1. StoredRow(id)[1] = id
        BY DEF StoredRow
      <4>2. id # 0
        BY <1>11, <2>1 DEF Overlay
      <4> QED
        BY <1>8, <2>1, <3>1, <4>1, <4>2
    <3>2. CASE StoredRow(id) \notin rows
      BY <1>3, <1>10, <1>12, <2>1, <3>2 DEF FoundAgain
    <3> QED
      BY <3>1, <3>2
  <2> QED
    BY <1>2, <2>1 DEF FoundAgain
<1>14. Current'
  <2>1. reference' \in PlainTables /\ DOMAIN reference' = DOMAIN reference
    <3>1. PICK S \in SUBSET RowNames : reference \in [S -> TableValues]
      BY <1>3 DEF Current, PlainTables
    <3>2. reference' \in [S -> TableValues] /\ DOMAIN reference' = S
      BY <1>1, <3>1
    <3> QED
      BY <3>1, <3>2 DEF PlainTables
  <2>2. ASSUME NEW r \in Rows \ restored PROVE Agree(EntryOf(r)', reference', r)
    <3>1. Agree(EntryOf(r), reference, r)
      BY <1>3 DEF Current
    <3>2. r \in rows <=> r \in DOMAIN reference /\ reference[r] \in condition
      BY <1>4, <3>1 DEF Agree, Process
    <3>3. r \in DOMAIN reference => reference'[r] = IF reference[r] \in condition THEN v ELSE reference[r]
      BY <1>1
    <3> QED
      BY <1>5, <1>12, <2>1, <3>1, <3>2, <3>3 DEF Agree
  <2>3. DOMAIN reference' \subseteq Rows
    BY <1>3, <2>1 DEF Current
  <2> QED
    BY <1>2, <1>11, <2>1, <2>2, <2>3 DEF Current
<1>15. DumpKept'
  BY <1>2 DEF DumpKept, Stale
<1> QED
  BY <1>11, <1>13, <1>14, <1>15 DEF TableInv

\* remove.
LEMMA RemoveKeeps ==
    ASSUME TableInv, TableRemove
    PROVE  TableInv'
<1>1. PICK condition \in Conditions :
          LET rows == SelectNoLock(condition)
          IN  /\ SetEntries([r \in rows |-> [EntryOf(r) EXCEPT !.removed = TRUE]])
              /\ Record("remove", [r \in rows |-> EntryOf(r)])
              /\ reference' = [r \in {s \in DOMAIN reference : reference[s] \notin condition} |-> reference[r]]
  BY ZenonT(60) DEF TableRemove
<1> DEFINE rows == SelectNoLock(condition)
           E == [r \in rows |-> [EntryOf(r) EXCEPT !.removed = TRUE]]
<1>2. dbRows' = dbRows /\ lastId' = lastId /\ savepoints' = savepoints /\ restored' = restored
      /\ tableData' = Stale /\ dirtyUpdated' = dirtyUpdated
  BY DEF TableRemove
<1>3. Overlay /\ FoundAgain /\ Current
  BY DEF TableInv
<1>4. /\ \A r \in rows : r \in Rows /\ Process(EntryOf(r), condition)
      /\ \A r \in Rows \ restored : Process(EntryOf(r), condition) => r \in rows
  BY <1>3, Selection
<1> HIDE DEF rows
<1>5. \A r \in rows : E[r] \in Entries /\ E[r].removed /\ E[r].deleted = EntryOf(r).deleted
  BY <1>3, <1>4, EntryTyped, ZenonT(60) DEF Entries
<1>6. \A r \in rows : r[1] # 0 => ~E[r].deleted
  BY <1>3, <1>4, <1>5, EntryTyped
<1>7. SetEntries(E) /\ DOMAIN E = rows /\ Record("remove", [r \in rows |-> EntryOf(r)])
  BY <1>1 DEF rows
<1> HIDE DEF E
<1>8. Overlay' /\ LogKept' /\ Nested' /\ Rows' = Rows
  BY <1>2, <1>4, <1>5, <1>6, <1>7, ChangeLogged
<1>9. /\ \A id \in DOMAIN tableDirty' :
            /\ id \notin DOMAIN tableDirty => StoredRow(id) \in rows
            /\ tableDirty'[id] = IF StoredRow(id) \in rows THEN E[StoredRow(id)] ELSE tableDirty[id]
      /\ \A r \in Rows : EntryOf(r)' = IF r \in rows THEN E[r] ELSE EntryOf(r)
  BY <1>2, <1>3, <1>4, <1>5, <1>6, <1>7, EntriesSet
<1>10. FoundAgain'
  BY <1>2, <1>3, <1>5, <1>9 DEF FoundAgain
<1>11. Current'
  <2> DEFINE D == {s \in DOMAIN reference : reference[s] \notin condition}
  <2>1. reference' \in PlainTables /\ DOMAIN reference' = D
    <3>1. PICK S \in SUBSET RowNames : reference \in [S -> TableValues]
      BY <1>3 DEF Current, PlainTables
    <3>2. reference' \in [D -> TableValues] /\ DOMAIN reference' = D /\ D \in SUBSET RowNames
      BY <1>1, <3>1
    <3> QED
      BY <3>2 DEF PlainTables
  <2>2. ASSUME NEW r \in Rows \ restored PROVE Agree(EntryOf(r)', reference', r)
    <3>1. Agree(EntryOf(r), reference, r)
      BY <1>3 DEF Current
    <3>2. r \in rows <=> r \in DOMAIN reference /\ reference[r] \in condition
      BY <1>4, <3>1 DEF Agree, Process
    <3>3. r \in D => reference'[r] = reference[r]
      BY <1>1
    <3> QED
      BY <1>5, <1>9, <2>1, <3>1, <3>2, <3>3 DEF Agree
  <2>3. DOMAIN reference' \subseteq Rows
    BY <1>3, <2>1 DEF Current
  <2> QED
    BY <1>2, <1>8, <2>1, <2>2, <2>3 DEF Current
<1>12. DumpKept'
  BY <1>2 DEF DumpKept, Stale
<1> QED
  BY <1>8, <1>10, <1>11, <1>12 DEF TableInv

\* insert.
LEMMA InsertKeeps ==
    ASSUME TableInv, TableInsert
    PROVE  TableInv'
<1>1. PICK v \in TableValues :
          LET entry == [value |-> v, removed |-> FALSE, deleted |-> FALSE]
              row == NewRow(Len(newEntries) + 1)
          IN  /\ newEntries' = Append(newEntries, entry)
              /\ Record("insert", [r \in {row} |-> entry])
              /\ reference' = [r \in DOMAIN reference \cup {row} |-> IF r = row THEN v ELSE reference[r]]
  BY ZenonT(60) DEF TableInsert
<1> DEFINE entry == [value |-> v, removed |-> FALSE, deleted |-> FALSE]
<1>a. PICK row : row = NewRow(Len(newEntries) + 1)
  OBVIOUS
<1> DEFINE c == [kind |-> "insert", was |-> [r \in {row} |-> entry]]
<1>2. dbRows' = dbRows /\ lastId' = lastId /\ savepoints' = savepoints /\ restored' = restored
      /\ tableData' = Stale /\ dirtyUpdated' = dirtyUpdated /\ tableDirty' = tableDirty
  BY DEF TableInsert
<1>3. Overlay /\ FoundAgain /\ Current /\ LogKept /\ Nested
  BY DEF TableInv
<1>4. entry \in Entries /\ entry.value = v /\ ~entry.removed /\ ~entry.deleted
  BY DEF Entries
<1>5. newEntries \in Seq(Entries) /\ Len(newEntries) \in Nat
  BY <1>3 DEF Overlay
<1>6. /\ newEntries' \in Seq(Entries) /\ Len(newEntries') = Len(newEntries) + 1
      /\ newEntries'[Len(newEntries) + 1] = entry
      /\ \A i \in 1 .. Len(newEntries) : newEntries'[i] = newEntries[i]
      /\ DOMAIN newEntries = 1 .. Len(newEntries)
      /\ DOMAIN newEntries' = DOMAIN newEntries \cup {Len(newEntries) + 1}
  <2>1. newEntries' = Append(newEntries, entry)
    BY <1>1
  <2> HIDE DEF entry
  <2> QED
    BY <1>4, <1>5, <2>1
<1> HIDE DEF entry
<1>7. row[1] = 0 /\ row[2] = Len(newEntries) + 1 /\ row \in RowNames
  BY <1>5, <1>a DEF NewRow, RowNames
<1>8. row \notin Rows
  BY <1>3, <1>5, <1>6, <1>7, RowKinds
<1>9. Rows' = Rows \cup {row}
  BY <1>2, <1>6, <1>a DEF Rows
<1>10. EntryOf(row)' = entry /\ \A r \in Rows : EntryOf(r)' = EntryOf(r)
  <2>1. EntryOf(row)' = entry
    BY <1>6, <1>7 DEF EntryOf
  <2>2. ASSUME NEW r \in Rows PROVE EntryOf(r)' = EntryOf(r)
    <3>1. r[1] = 0 => r[2] \in 1 .. Len(newEntries)
      BY <1>3, <1>6, RowKinds
    <3> QED
      BY <1>2, <1>6, <3>1 DEF EntryOf
  <2> QED
    BY <2>1, <2>2
<1>11. c \in Changes /\ DOMAIN c.was = {row} /\ c.kind = "insert" /\ c.was[row] = entry
  <2>1. c.was \in [{row} -> Entries] /\ {row} \in SUBSET RowNames
    BY <1>4, <1>7
  <2> QED
    BY <2>1, ZenonT(60) DEF Changes
<1>12. changeLog' = Append(changeLog, c)
  BY <1>1, <1>a DEF Record, entry
<1>13. reference' = [r \in DOMAIN reference \cup {row} |-> IF r = row THEN v ELSE reference[r]]
  BY <1>1, <1>a
<1> HIDE DEF c
<1>14. changeLog \in Seq(Changes) /\ Len(changeLog) \in Nat /\ changeLog' \in Seq(Changes)
       /\ Len(changeLog') = Len(changeLog) + 1
       /\ changeLog'[Len(changeLog) + 1] = c
       /\ \A k \in 1 .. Len(changeLog) : changeLog'[k] = changeLog[k]
  BY <1>3, <1>11, <1>12 DEF LogKept
<1>15. Overlay'
  BY <1>2, <1>3, <1>6 DEF Overlay
<1>16. FoundAgain'
  BY <1>2, <1>3 DEF FoundAgain
<1>17. LogKept'
  <2>1. ASSUME NEW k \in 1 .. Len(changeLog), NEW r \in DOMAIN changeLog[k].was
        PROVE  /\ r \in Rows'
               /\ changeLog[k].was[r] \in Entries
               /\ r[1] # 0 =>
                    /\ changeLog[k].kind # "insert" /\ ~changeLog[k].was[r].deleted
                    /\ r[1] \in DOMAIN tableDirty'
                    /\ changeLog[k].kind = "update" => r[1] \in dirtyUpdated' \/ r \in restored'
    BY <1>2, <1>3, <1>9, <2>1 DEF LogKept, ChangeKept
  <2>2. ASSUME NEW k \in 1 .. Len(changeLog') PROVE ChangeKept(changeLog[k])'
    <3>1. CASE k \in 1 .. Len(changeLog)
      BY <1>14, <2>1, <3>1 DEF ChangeKept
    <3>2. CASE k = Len(changeLog) + 1
      BY <1>4, <1>7, <1>9, <1>11, <1>14, <3>2 DEF ChangeKept
    <3> QED
      BY <1>14, <3>1, <3>2
  <2> QED
    BY <1>14, <2>2 DEF LogKept
<1>18. Current'
  <2>1. reference' \in PlainTables /\ DOMAIN reference' = DOMAIN reference \cup {row}
    <3>1. PICK S \in SUBSET RowNames : reference \in [S -> TableValues]
      BY <1>3 DEF Current, PlainTables
    <3>2. reference' \in [S \cup {row} -> TableValues] /\ DOMAIN reference' = S \cup {row}
      BY <1>13, <3>1
    <3>3. S \cup {row} \in SUBSET RowNames
      BY <1>7
    <3> QED
      BY <3>1, <3>2, <3>3 DEF PlainTables
  <2>2. ASSUME NEW r \in Rows \ restored PROVE Agree(EntryOf(r)', reference', r)
    <3>1. Agree(EntryOf(r), reference, r)
      BY <1>3 DEF Current
    <3> QED
      BY <1>8, <1>10, <1>13, <2>1, <3>1 DEF Agree
  <2>3. Agree(EntryOf(row)', reference', row)
    BY <1>4, <1>10, <1>13, <2>1 DEF Agree
  <2>4. DOMAIN reference' \subseteq Rows'
    BY <1>3, <1>9, <2>1 DEF Current
  <2>5. \A r \in Rows' \ restored' : r = row \/ r \in Rows \ restored
    BY <1>2, <1>9
  <2>6. \A r \in Rows' \ restored' : Agree(EntryOf(r)', reference', r)
    BY <2>2, <2>3, <2>5
  <2> QED
    BY <2>1, <2>4, <2>6 DEF Current
<1>19. Nested'
  <2>1. ASSUME NEW i \in 1 .. Len(savepoints) PROVE Restorable(savepoints[i])'
    <3> DEFINE s == savepoints[i]
    <3>1. s.at \in Nat /\ s.at <= Len(changeLog) /\ DOMAIN s.reference \subseteq Rows
      BY <1>3, SavepointTyped
    <3>2. ASSUME NEW r \in Rows \ restored
          PROVE  Back(Append(changeLog, c), s.at, EntryOf(r)', s.reference, r)
      <4>1. Back(changeLog, s.at, EntryOf(r), s.reference, r)
        BY <1>3 DEF Nested, Restorable
      <4>2. r \notin DOMAIN c.was /\ EntryOf(r)' = EntryOf(r)
        BY <1>8, <1>10, <1>11
      <4> HIDE DEF s
      <4> QED
        BY <1>11, <1>14, <3>1, <4>1, <4>2, AppendedBack
    <3>3. Back(Append(changeLog, c), s.at, EntryOf(row)', s.reference, row)
      <4>1. row \notin DOMAIN s.reference
        BY <1>8, <3>1
      <4>2. Undo(c, row).deleted
        BY <1>4, <1>11 DEF Undo, Entries
      <4>3. \A k \in 1 .. Len(changeLog) : ~Touched(changeLog, k, row)
        BY <1>3, <1>8 DEF LogKept, ChangeKept, Touched
      <4> HIDE DEF s
      <4> QED
        BY <1>11, <1>14, <3>1, <4>1, <4>2, <4>3, InsertedBack
    <3>4. s.at <= Len(changeLog') /\ DOMAIN s.reference \subseteq Rows'
      BY <1>9, <1>14, <3>1
    <3>5. \A r \in Rows' \ restored' : Back(changeLog', s.at, EntryOf(r)', s.reference, r)
      BY <1>2, <1>9, <1>12, <3>2, <3>3
    <3> QED
      BY <1>2, <3>4, <3>5 DEF Restorable
  <2> QED
    BY <1>2, <1>3, <2>1 DEF Nested
<1>20. DumpKept'
  BY <1>2 DEF DumpKept, Stale
<1> QED
  BY <1>15, <1>16, <1>17, <1>18, <1>19, <1>20 DEF TableInv

\* A call begins: its savepoint is the table as it is.
LEMMA SavepointKeeps ==
    ASSUME TableInv, Savepoint
    PROVE  TableInv'
<1> DEFINE s == [at |-> Len(changeLog), reference |-> reference]
           S == [at: Nat, reference: PlainTables]
<1>1. savepoints' = Append(savepoints, s)
  BY DEF Savepoint
<1>2. /\ dbRows' = dbRows /\ lastId' = lastId /\ restored' = restored /\ tableData' = tableData
      /\ dirtyUpdated' = dirtyUpdated /\ tableDirty' = tableDirty /\ newEntries' = newEntries
      /\ changeLog' = changeLog /\ reference' = reference
  BY DEF Savepoint
<1>3. Overlay /\ FoundAgain /\ Current /\ LogKept /\ Nested /\ DumpKept
  BY DEF TableInv
<1>4. Len(changeLog) \in Nat
  BY <1>3 DEF LogKept
<1>5. s \in S /\ s.at = Len(changeLog) /\ s.reference = reference
  BY <1>3, <1>4 DEF Current
<1>6. Restorable(s)
  <2>1. \A r \in Rows \ restored : Back(changeLog, s.at, EntryOf(r), s.reference, r)
    <3>1. \A j : j \notin Len(changeLog) + 1 .. Len(changeLog)
      BY <1>4
    <3> QED
      BY <1>3, <1>5, <3>1 DEF Current, Back
  <2> QED
    BY <1>3, <1>4, <1>5, <2>1 DEF Restorable, Current
<1>7. savepoints \in Seq(S)
  BY <1>3, ZenonT(60) DEF Nested
<1> HIDE DEF s, S
<1>8. /\ savepoints' \in Seq(S) /\ Len(savepoints') = Len(savepoints) + 1 /\ Len(savepoints) \in Nat
      /\ savepoints'[Len(savepoints) + 1] = s
      /\ \A i \in 1 .. Len(savepoints) : savepoints'[i] = savepoints[i]
  BY <1>1, <1>5, <1>7
<1>9. \A t : Restorable(t)' <=> Restorable(t)
  BY <1>2 DEF Restorable, Rows, EntryOf
<1>10. \A i \in 1 .. Len(savepoints') : Restorable(savepoints'[i])
  <2>1. \A i \in 1 .. Len(savepoints) : Restorable(savepoints[i])
    BY <1>3, ZenonT(60) DEF Nested
  <2> QED
    BY <1>6, <1>8, <2>1
<1>11. \A i, j \in 1 .. Len(savepoints') : i <= j => savepoints'[i].at <= savepoints'[j].at
  <2>1. \A i \in 1 .. Len(savepoints) : savepoints[i].at <= Len(changeLog)
    BY <1>3, SavepointTyped
  <2>2. \A i, j \in 1 .. Len(savepoints) : i <= j => savepoints[i].at <= savepoints[j].at
    BY <1>3, ZenonT(60) DEF Nested
  <2>3. ASSUME NEW i \in 1 .. Len(savepoints'), NEW j \in 1 .. Len(savepoints'), i <= j
        PROVE  savepoints'[i].at <= savepoints'[j].at
    <3>1. CASE j \in 1 .. Len(savepoints)
      <4>1. i \in 1 .. Len(savepoints)
        BY <1>8, <2>3, <3>1
      <4> QED
        BY <1>8, <2>2, <2>3, <3>1, <4>1
    <3>2. CASE j = Len(savepoints) + 1 /\ i \in 1 .. Len(savepoints)
      BY <1>5, <1>8, <2>1, <3>2
    <3>3. CASE j = Len(savepoints) + 1 /\ i = j
      BY <1>4, <1>5, <1>8, <3>3
    <3> QED
      BY <1>8, <2>3, <3>1, <3>2, <3>3
  <2> QED
    BY <2>3
<1>12. Nested'
  <2>1. \A i \in 1 .. Len(savepoints') : Restorable(savepoints[i])'
    BY <1>2, <1>10 DEF Restorable, Rows, EntryOf
  <2> QED
    BY <1>8, <1>11, <2>1 DEF Nested, S
<1>13. Overlay' /\ FoundAgain' /\ Current' /\ LogKept' /\ DumpKept'
  BY <1>2, <1>3 DEF Overlay, FoundAgain, Current, LogKept, ChangeKept, DumpKept, Rows, EntryOf, Collected
<1> QED
  BY <1>12, <1>13 DEF TableInv

\* A sequence without its last element.
LEMMA Shortened ==
    ASSUME NEW S, NEW s \in Seq(S), s # <<>>
    PROVE  LET t == SubSeq(s, 1, Len(s) - 1)
           IN  /\ t \in Seq(S) /\ Len(t) = Len(s) - 1
               /\ \A i \in 1 .. Len(s) - 1 : t[i] = s[i]
<1>1. Len(s) \in Nat \ {0}
  OBVIOUS
<1> DEFINE n == Len(s) - 1
<1>2. n \in Nat /\ n <= Len(s)
  BY <1>1
<1> HIDE DEF n
<1>3. SubSeq(s, 1, n) \in Seq(S)
  BY <1>1, <1>2
<1>4. Len(SubSeq(s, 1, n)) = n
  BY <1>1, <1>2
<1>5. \A i \in 1 .. n : SubSeq(s, 1, n)[i] = s[i]
  BY <1>1, <1>2
<1> QED
  BY <1>3, <1>4, <1>5, ZenonT(60) DEF n

\* The savepoints below the newest one.
LEMMA OuterSavepoints ==
    ASSUME Nested, savepoints # <<>>, savepoints' = SubSeq(savepoints, 1, Len(savepoints) - 1)
    PROVE  /\ Len(savepoints) \in Nat \ {0}
           /\ savepoints' \in Seq([at: Nat, reference: PlainTables])
           /\ Len(savepoints') = Len(savepoints) - 1
           /\ \A i \in 1 .. Len(savepoints') :
                 /\ i \in 1 .. Len(savepoints)
                 /\ savepoints'[i] = savepoints[i]
                 /\ savepoints[i].at <= savepoints[Len(savepoints)].at
           /\ \A i, j \in 1 .. Len(savepoints') : i <= j => savepoints'[i].at <= savepoints'[j].at
<1> DEFINE S == [at: Nat, reference: PlainTables]
           n == Len(savepoints)
<1>1. savepoints \in Seq(S)
  BY ZenonT(60) DEF Nested
<1> HIDE DEF S
<1>2. n \in Nat \ {0}
  BY <1>1
<1>3. /\ savepoints' \in Seq(S) /\ Len(savepoints') = n - 1
      /\ \A i \in 1 .. n - 1 : savepoints'[i] = savepoints[i]
  BY <1>1, Shortened
<1> HIDE DEF n
<1>4. \A i, j \in 1 .. n : i <= j => savepoints[i].at <= savepoints[j].at
  BY ZenonT(60) DEF Nested, n
<1>5. \A i \in 1 .. n - 1 : i \in 1 .. n /\ i <= n /\ n \in 1 .. n
  BY <1>2
<1>6. \A i \in 1 .. n - 1 : savepoints[i].at <= savepoints[n].at
  BY <1>4, <1>5, ZenonT(60)
<1>7. \A i, j \in 1 .. n - 1 : i <= j => savepoints'[i].at <= savepoints'[j].at
  BY <1>3, <1>4, <1>5, ZenonT(60)
<1> QED
  BY <1>2, <1>3, <1>5, <1>6, <1>7, ZenonT(60) DEF S, n

\* A call ends well.
LEMMA ReturnKeeps ==
    ASSUME TableInv, CallReturns
    PROVE  TableInv'
<1>1. /\ dbRows' = dbRows /\ lastId' = lastId /\ restored' = restored /\ tableData' = tableData
      /\ dirtyUpdated' = dirtyUpdated /\ tableDirty' = tableDirty /\ newEntries' = newEntries
      /\ changeLog' = changeLog /\ reference' = reference
      /\ savepoints # <<>> /\ savepoints' = SubSeq(savepoints, 1, Len(savepoints) - 1)
  BY DEF CallReturns
<1>2. Overlay /\ FoundAgain /\ Current /\ LogKept /\ Nested /\ DumpKept
  BY DEF TableInv
<1>3. /\ savepoints' \in Seq([at: Nat, reference: PlainTables])
      /\ \A i \in 1 .. Len(savepoints') : i \in 1 .. Len(savepoints) /\ savepoints'[i] = savepoints[i]
      /\ \A i, j \in 1 .. Len(savepoints') : i <= j => savepoints'[i].at <= savepoints'[j].at
  BY <1>1, <1>2, OuterSavepoints, ZenonT(60)
<1>4. \A i \in 1 .. Len(savepoints') : Restorable(savepoints'[i])
  BY <1>2, <1>3, ZenonT(60) DEF Nested
<1>5. \A i \in 1 .. Len(savepoints') : Restorable(savepoints[i])'
  BY <1>1, <1>4 DEF Restorable, Rows, EntryOf
<1>6. Nested'
  BY <1>3, <1>5, ZenonT(60) DEF Nested
<1>7. Overlay' /\ FoundAgain' /\ Current' /\ LogKept' /\ DumpKept'
  BY <1>1, <1>2 DEF Overlay, FoundAgain, Current, LogKept, ChangeKept, DumpKept, Rows, EntryOf, Collected
<1> QED
  BY <1>6, <1>7 DEF TableInv

\* rollback.
LEMMA RollbackKeeps ==
    ASSUME TableInv, TableRollback
    PROVE  TableInv'
<1>a. PICK save : save = savepoints[Len(savepoints)]
  OBVIOUS
<1> DEFINE undone == UNION {DOMAIN changeLog[k].was : k \in save.at + 1 .. Len(changeLog)}
           removals == UNION {DOMAIN changeLog[k].was :
                                 k \in {j \in save.at + 1 .. Len(changeLog) : changeLog[j].kind = "remove"}}
           E == [r \in undone |->
                   LET change == LastUndone(r, save.at)
                   IN  IF change.kind = "insert" THEN [change.was[r] EXCEPT !.deleted = TRUE]
                       ELSE change.was[r]]
<1>1. /\ SetEntries(E) /\ DOMAIN E = undone
      /\ restored' = restored \cup {r \in removals : r[1] # 0}
      /\ changeLog' = SubSeq(changeLog, 1, save.at)
      /\ reference' = save.reference
  BY <1>a DEF TableRollback
<1>2. /\ dbRows' = dbRows /\ lastId' = lastId /\ tableData' = tableData
      /\ dirtyUpdated' = dirtyUpdated
      /\ savepoints # <<>> /\ savepoints' = SubSeq(savepoints, 1, Len(savepoints) - 1)
  BY DEF TableRollback
<1>3. Overlay /\ FoundAgain /\ Current /\ LogKept /\ Nested /\ DumpKept
  BY DEF TableInv
<1>4. /\ Len(savepoints) \in Nat \ {0}
      /\ savepoints' \in Seq([at: Nat, reference: PlainTables])
      /\ \A i \in 1 .. Len(savepoints') :
            /\ i \in 1 .. Len(savepoints)
            /\ savepoints'[i] = savepoints[i]
            /\ savepoints[i].at <= save.at
      /\ \A i, j \in 1 .. Len(savepoints') : i <= j => savepoints'[i].at <= savepoints'[j].at
  BY <1>2, <1>3, <1>a, OuterSavepoints, ZenonT(60)
<1>5. Len(savepoints) \in 1 .. Len(savepoints)
  BY <1>4
<1>6. /\ save.at \in Nat /\ save.at <= Len(changeLog)
      /\ save.reference \in PlainTables /\ DOMAIN save.reference \subseteq Rows
  BY <1>3, <1>5, <1>a, SavepointTyped
<1>7. Restorable(save)
  BY <1>3, <1>5, <1>a, ZenonT(60) DEF Nested
<1>8. changeLog \in Seq(Changes) /\ Len(changeLog) \in Nat
  BY <1>3 DEF LogKept
<1>9. /\ changeLog' \in Seq(Changes) /\ Len(changeLog') = save.at
      /\ \A k \in 1 .. save.at : changeLog'[k] = changeLog[k] /\ k \in 1 .. Len(changeLog)
  BY <1>1, <1>6, <1>8
<1>10. \A k \in save.at + 1 .. Len(changeLog) : k \in 1 .. Len(changeLog)
  BY <1>6, <1>8
<1>11. \A r \in undone : \E k \in save.at + 1 .. Len(changeLog) : Touched(changeLog, k, r)
  BY DEF Touched
<1>12. ASSUME NEW r \in undone
       PROVE  /\ r \in Rows
              /\ \E k \in save.at + 1 .. Len(changeLog) :
                    FirstAfter(changeLog, k, save.at, r) /\ E[r] = Undo(changeLog[k], r)
              /\ E[r] \in Entries /\ (r[1] # 0 => ~E[r].deleted)
  <2>1. PICK k \in save.at + 1 .. Len(changeLog) :
            FirstAfter(changeLog, k, save.at, r) /\ LastUndone(r, save.at) = changeLog[k]
    BY <1>6, <1>8, <1>11, <1>12, OldestUndone
  <2>2. E[r] = Undo(changeLog[k], r)
    BY <1>12, <2>1, ZenonT(60) DEF Undo
  <2>3. r \in DOMAIN changeLog[k].was /\ ChangeKept(changeLog[k])
    BY <1>3, <1>10, <2>1 DEF FirstAfter, Touched, LogKept
  <2>4. /\ r \in Rows /\ changeLog[k].was[r] \in Entries
        /\ r[1] # 0 => changeLog[k].kind # "insert" /\ ~changeLog[k].was[r].deleted
    BY <2>3 DEF ChangeKept
  <2>5. Undo(changeLog[k], r) \in Entries /\ (r[1] # 0 => ~Undo(changeLog[k], r).deleted)
    BY <2>4, ZenonT(60) DEF Undo, Entries
  <2> QED
    BY <2>1, <2>2, <2>4, <2>5
<1> HIDE DEF E
<1>13. /\ newEntries' \in Seq(Entries) /\ Len(newEntries') = Len(newEntries)
       /\ Rows' = Rows
       /\ DOMAIN tableDirty \subseteq DOMAIN tableDirty'
       /\ \A id \in DOMAIN tableDirty' :
             /\ id \in DOMAIN dbRows
             /\ id \notin DOMAIN tableDirty => StoredRow(id) \in undone
             /\ tableDirty'[id] = IF StoredRow(id) \in undone THEN E[StoredRow(id)] ELSE tableDirty[id]
             /\ tableDirty'[id] \in Entries /\ ~tableDirty'[id].deleted
       /\ \A r \in Rows : EntryOf(r)' = IF r \in undone THEN E[r] ELSE EntryOf(r)
  <2>1. \A r \in DOMAIN E : r \in Rows /\ E[r] \in Entries /\ (r[1] # 0 => ~E[r].deleted)
    BY <1>1, <1>12
  <2> QED
    BY <1>1, <1>2, <1>3, <2>1, EntriesSet, ZenonT(60)
<1>14. Overlay'
  BY <1>2, <1>3, <1>13 DEF Overlay
<1>15. FoundAgain'
  <2>1. ASSUME NEW id \in DOMAIN tableDirty' \ dirtyUpdated
        PROVE  tableDirty'[id].removed \/ StoredRow(id) \in restored'
    <3>1. CASE StoredRow(id) \in undone
      <4>1. PICK k \in save.at + 1 .. Len(changeLog) : StoredRow(id) \in DOMAIN changeLog[k].was
        BY <3>1
      <4>2. StoredRow(id)[1] = id /\ id # 0
        BY <1>3, <1>13, <2>1, NamedRows
      <4>3. ChangeKept(changeLog[k]) /\ changeLog[k].kind \in {"update", "insert", "remove"}
        <5>1. k \in 1 .. Len(changeLog) /\ changeLog[k] \in Changes
          BY <1>8, <1>10, <4>1
        <5>2. ChangeKept(changeLog[k])
          BY <1>3, <5>1 DEF LogKept
        <5> QED
          BY <5>1, <5>2 DEF Changes
      <4>4. /\ changeLog[k].kind # "insert"
            /\ changeLog[k].kind = "update" => id \in dirtyUpdated \/ StoredRow(id) \in restored
        BY <4>1, <4>2, <4>3 DEF ChangeKept
      <4>5. changeLog[k].kind = "remove" => StoredRow(id) \in removals
        BY <4>1
      <4> QED
        BY <1>1, <2>1, <4>2, <4>3, <4>4, <4>5
    <3>2. CASE StoredRow(id) \notin undone
      BY <1>1, <1>3, <1>13, <2>1, <3>2 DEF FoundAgain
    <3> QED
      BY <3>1, <3>2
  <2> QED
    BY <1>2, <2>1 DEF FoundAgain
<1>16. LogKept'
  <2>1. ASSUME NEW k \in 1 .. Len(changeLog') PROVE ChangeKept(changeLog[k])'
    <3>1. k \in 1 .. Len(changeLog) /\ changeLog'[k] = changeLog[k]
      BY <1>9, <2>1
    <3>2. ChangeKept(changeLog[k])
      BY <1>3, <3>1 DEF LogKept
    <3>3. Rows' = Rows /\ DOMAIN tableDirty \subseteq DOMAIN tableDirty' /\ restored \subseteq restored'
      BY <1>1, <1>13
    <3> QED
      BY <1>2, <3>1, <3>2, <3>3 DEF ChangeKept
  <2> QED
    BY <1>9, <2>1 DEF LogKept
<1>17. ASSUME NEW r \in Rows
       PROVE  \/ /\ EntryOf(r)' = EntryOf(r)
                 /\ \A j \in save.at + 1 .. Len(changeLog) : ~Touched(changeLog, j, r)
              \/ \E k \in save.at + 1 .. Len(changeLog) :
                    FirstAfter(changeLog, k, save.at, r) /\ EntryOf(r)' = Undo(changeLog[k], r)
  <2>1. CASE r \in undone
    BY <1>12, <1>13, <2>1
  <2>2. CASE r \notin undone
    BY <1>13, <2>2 DEF Touched
  <2> QED
    BY <2>1, <2>2
<1>18. ASSUME NEW at \in Nat, at <= save.at, NEW ref, NEW r \in Rows,
              Back(changeLog, at, EntryOf(r), ref, r)
       PROVE  Back(changeLog', at, EntryOf(r)', ref, r)
  BY <1>1, <1>6, <1>8, <1>17, <1>18, TruncatedBack, ZenonT(60)
<1>19. \A r \in Rows' \ restored' : r \in Rows \ restored
  BY <1>1, <1>13
<1> HIDE DEF undone, removals
<1>20. Current'
  <2>1. ASSUME NEW r \in Rows \ restored PROVE Agree(EntryOf(r)', save.reference, r)
    <3>1. Back(changeLog', save.at, EntryOf(r)', save.reference, r)
      BY <1>6, <1>7, <1>18 DEF Restorable
    <3>2. \A j : j \notin save.at + 1 .. Len(changeLog')
      BY <1>6, <1>9
    <3> QED
      BY <3>1, <3>2 DEF Back
  <2> QED
    BY <1>1, <1>6, <1>13, <1>19, <2>1 DEF Current
<1>21. Nested'
  <2>1. ASSUME NEW i \in 1 .. Len(savepoints') PROVE Restorable(savepoints[i])'
    <3>1. PICK s : s = savepoints[i]
      OBVIOUS
    <3>2. savepoints'[i] = s /\ i \in 1 .. Len(savepoints) /\ s.at <= save.at
      BY <1>4, <2>1, <3>1
    <3>3. s.at \in Nat /\ DOMAIN s.reference \subseteq Rows
      BY <1>3, <3>1, <3>2, SavepointTyped
    <3>4. Restorable(s)
      BY <1>3, <3>1, <3>2, ZenonT(60) DEF Nested
    <3>5. \A r \in Rows' \ restored' : Back(changeLog', s.at, EntryOf(r)', s.reference, r)
      BY <1>18, <1>19, <3>2, <3>3, <3>4 DEF Restorable
    <3> QED
      BY <1>9, <1>13, <3>2, <3>3, <3>5 DEF Restorable
  <2> QED
    BY <1>4, <2>1, ZenonT(60) DEF Nested
<1>22. DumpKept'
  <2>1. ASSUME changeLog' # <<>> PROVE tableData' = Stale
    <3>1. save.at # 0
      BY <1>9, <2>1
    <3>2. changeLog # <<>>
      BY <1>6, <3>1
    <3> QED
      BY <1>2, <1>3, <3>2 DEF DumpKept
  <2>2. ASSUME tableData' # Stale PROVE tableData' = Collected'
    <3>1. changeLog = <<>> /\ tableData = Collected
      BY <1>2, <1>3, <2>2 DEF DumpKept
    <3>2. undone = {}
      BY <1>6, <3>1 DEF undone
    <3>3. DOMAIN tableDirty' = DOMAIN tableDirty
      BY <1>13, <3>2
    <3>4. DOMAIN newEntries' = DOMAIN newEntries
      BY <1>3, <1>13 DEF Overlay
    <3>5. ASSUME NEW i \in DOMAIN newEntries PROVE newEntries'[i] = newEntries[i]
      <4>1. NewRow(i) \in Rows /\ NewRow(i)[1] = 0 /\ NewRow(i)[2] = i
        BY <1>3, NamedRows
      <4>2. EntryOf(NewRow(i))' = EntryOf(NewRow(i))
        BY <1>13, <3>2, <4>1
      <4> QED
        BY <4>1, <4>2 DEF EntryOf
    <3> QED
      BY <1>2, <3>1, <3>3, <3>4, <3>5 DEF Collected
  <2> QED
    BY <2>1, <2>2 DEF DumpKept
<1> QED
  BY <1>14, <1>15, <1>16, <1>20, <1>21, <1>22 DEF TableInv

\* The end of a transaction.
LEMMA EndKeeps ==
    ASSUME TableInv, CommitChanges
    PROVE  TableInv'
<1>1. /\ dbRows' = dbRows /\ lastId' = lastId /\ restored' = restored /\ tableData' = tableData
      /\ dirtyUpdated' = dirtyUpdated /\ tableDirty' = tableDirty /\ newEntries' = newEntries
      /\ changeLog' = <<>> /\ reference' = reference
      /\ savepoints = <<>> /\ savepoints' = <<>>
  BY DEF CommitChanges
<1>2. Overlay /\ FoundAgain /\ Current /\ DumpKept
  BY DEF TableInv
<1>3. LogKept' /\ Nested'
  BY <1>1 DEF LogKept, Nested
<1>4. Overlay' /\ FoundAgain' /\ Current' /\ DumpKept'
  BY <1>1, <1>2 DEF Overlay, FoundAgain, Current, DumpKept, Rows, EntryOf, Collected
<1> QED
  BY <1>3, <1>4 DEF TableInv

\* What dump returns is what it would collect now.
LEMMA DumpExact ==
    ASSUME DumpKept
    PROVE  Dumped = Collected
BY DEF DumpKept, Dumped, Collected

\* hash.
LEMMA HashKeeps ==
    ASSUME TableInv, HashTable
    PROVE  TableInv'
<1>1. /\ dbRows' = dbRows /\ lastId' = lastId /\ restored' = restored /\ tableData' = Dumped
      /\ dirtyUpdated' = dirtyUpdated /\ tableDirty' = tableDirty /\ newEntries' = newEntries
      /\ changeLog = <<>> /\ changeLog' = <<>> /\ reference' = reference
      /\ savepoints = <<>> /\ savepoints' = <<>>
  BY DEF HashTable
<1>2. Overlay /\ FoundAgain /\ Current /\ DumpKept
  BY DEF TableInv
<1>3. LogKept' /\ Nested'
  BY <1>1 DEF LogKept, Nested
<1>4. Overlay' /\ FoundAgain' /\ Current'
  BY <1>1, <1>2 DEF Overlay, FoundAgain, Current, Rows, EntryOf
<1>5. Collected' = Collected
  BY <1>1 DEF Collected
<1>6. DumpKept'
  BY <1>1, <1>2, <1>5, DumpExact DEF DumpKept
<1> QED
  BY <1>3, <1>4, <1>6 DEF TableInv

\* A table nothing has been read into for this block.
Untouched ==
    /\ lastId \in Nat
    /\ DOMAIN dbRows \subseteq Nat \ {0}
    /\ \A id \in DOMAIN dbRows : dbRows[id] \in TableValues
    /\ tableDirty = <<>> /\ dirtyUpdated = {} /\ newEntries = <<>> /\ changeLog = <<>>
    /\ savepoints = <<>> /\ tableData = {}
    /\ reference = [r \in {StoredRow(id) : id \in DOMAIN dbRows} |-> dbRows[r[1]]]

\* Such a table meets the invariant.
LEMMA UntouchedKeeps == Untouched => TableInv
<1> SUFFICES ASSUME Untouched PROVE TableInv
  OBVIOUS
<1>1. Overlay /\ FoundAgain /\ LogKept /\ Nested /\ DOMAIN tableDirty = {} /\ DOMAIN newEntries = {}
  BY DEF Untouched, Overlay, FoundAgain, LogKept, Nested
<1>2. Rows = {StoredRow(id) : id \in DOMAIN dbRows}
  BY <1>1 DEF Rows
<1>3. DOMAIN reference = Rows /\ \A r \in Rows : reference[r] = dbRows[r[1]]
  BY <1>2 DEF Untouched
<1>4. \A r \in Rows : r \in RowNames /\ r[1] # 0 /\ r[1] \in DOMAIN dbRows
  BY <1>1, <1>2, RowKinds, NamedRows
<1>5. reference \in [Rows -> TableValues] /\ Rows \in SUBSET RowNames
  BY <1>2, <1>3, <1>4 DEF Untouched
<1>6. reference \in PlainTables
  BY <1>5, ZenonT(60) DEF PlainTables
<1>7. \A r \in Rows : Agree(EntryOf(r), reference, r)
  BY <1>1, <1>3, <1>4 DEF Agree, EntryOf
<1>8. Current
  BY <1>3, <1>6, <1>7 DEF Current
<1>9. DumpKept
  BY <1>1 DEF Untouched, DumpKept, Collected
<1> QED
  BY <1>1, <1>8, <1>9 DEF TableInv

\* No row has been read yet.
LEMMA TableStart == TableInit => TableInv
<1> SUFFICES ASSUME TableInit PROVE Untouched
  BY UntouchedKeeps
<1>1. PICK ids \in {{}, {1}} : dbRows \in [ids -> TableValues]
  BY DEF TableInit
<1>2. DOMAIN dbRows = ids /\ ids \subseteq {1}
  BY <1>1
<1>3. Cardinality(ids) \in Nat
  <2>1. Cardinality({}) = 0 /\ Cardinality({1}) = 1
    BY FS_EmptySet, FS_Singleton, ZenonT(60)
  <2> QED
    BY <1>1, <2>1
<1> QED
  BY <1>1, <1>2, <1>3 DEF TableInit, Untouched

\* commitDB.
LEMMA CommitDBKeeps ==
    ASSUME TableInv, CommitDB
    PROVE  TableInv'
<1> DEFINE fresh == {r[2] : r \in {s \in Dumped : s[1] = 0}}
           id(r) == IF r[1] # 0 THEN r[1] ELSE lastId + Cardinality({i \in fresh : i <= r[2]})
           rows == [n \in {id(r) : r \in DOMAIN Written} |->
                       Written[CHOOSE r \in DOMAIN Written : id(r) = n]]
<1>1. /\ lastId' = lastId + Cardinality(fresh)
      /\ dbRows' = rows
      /\ reference' = [r \in {StoredRow(n) : n \in DOMAIN rows} |-> rows[r[1]]]
  BY DEF CommitDB
<1>2. /\ tableDirty' = <<>> /\ dirtyUpdated' = {} /\ newEntries' = <<>> /\ changeLog' = <<>>
      /\ savepoints' = <<>> /\ tableData' = {}
  BY DEF CommitDB
<1>3. Overlay /\ DumpKept
  BY DEF TableInv
<1>4. Dumped = Collected
  BY <1>3, DumpExact
<1>5. Dumped \subseteq Rows
  BY <1>3, <1>4 DEF Collected, Rows, Overlay
<1>6. Len(newEntries) \in Nat /\ DOMAIN newEntries = 1 .. Len(newEntries)
  BY <1>3 DEF Overlay
<1>7. fresh \subseteq 1 .. Len(newEntries)
  BY <1>3, <1>5, <1>6, RowKinds
<1>8. IsFiniteSet(fresh) /\ \A t : IsFiniteSet({i \in fresh : i <= t})
  <2>1. IsFiniteSet(1 .. Len(newEntries))
    BY <1>6, FS_Interval
  <2>2. IsFiniteSet(fresh)
    BY <1>7, <2>1, FS_Subset, ZenonT(60)
  <2> HIDE DEF fresh
  <2>3. \A t : {i \in fresh : i <= t} \in SUBSET fresh
    OBVIOUS
  <2> QED
    BY <2>2, <2>3, FS_Subset, ZenonT(60)
<1>9. DOMAIN Written \subseteq Rows /\ \A r \in DOMAIN Written : Written[r] = EntryOf(r).value
  BY <1>3, <1>5, NamedRows DEF Written
<1>10. \A r \in DOMAIN Written : r[1] = 0 => r \in Dumped
  BY <1>3, NamedRows DEF Written
<1>11. lastId \in Nat /\ Cardinality(fresh) \in Nat
  BY <1>3, <1>8, FS_CardinalityType DEF Overlay
<1>12. ASSUME NEW r \in DOMAIN Written PROVE id(r) \in Nat \ {0}
  <2>1. CASE r[1] # 0
    BY <1>3, <1>9, <1>12, <2>1, RowKinds
  <2>2. CASE r[1] = 0
    <3> DEFINE below == {i \in fresh : i <= r[2]}
    <3>1. r[2] \in fresh /\ r[2] \in Nat
      BY <1>3, <1>9, <1>10, <1>12, <2>2, RowKinds
    <3>2. below # {}
      BY <3>1
    <3>3. IsFiniteSet(below)
      BY <1>8, ZenonT(60)
    <3>4. id(r) = lastId + Cardinality(below)
      BY <2>2
    <3> HIDE DEF below, id
    <3>5. Cardinality(below) \in Nat /\ Cardinality(below) # 0
      BY <3>2, <3>3, FS_CardinalityType, FS_EmptySet
    <3> QED
      BY <1>11, <3>4, <3>5
  <2> QED
    BY <2>1, <2>2
<1>13. \A r \in DOMAIN Written : Written[r] \in TableValues
  BY <1>3, <1>9, EntryTyped DEF Entries
<1> HIDE DEF fresh, id
<1>14. ASSUME NEW n \in DOMAIN rows PROVE rows[n] \in TableValues
  <2>1. PICK r \in DOMAIN Written : id(r) = n
    BY <1>14
  <2>2. (CHOOSE s \in DOMAIN Written : id(s) = n) \in DOMAIN Written
    BY <2>1
  <2> QED
    BY <1>13, <1>14, <2>2
<1>15. DOMAIN rows \subseteq Nat \ {0}
  BY <1>12
<1> HIDE DEF rows
<1>16. Untouched'
  BY <1>1, <1>2, <1>11, <1>14, <1>15 DEF Untouched, StoredRow
<1>17. Untouched' => TableInv'
  BY UntouchedKeeps, PTL
<1> QED
  BY <1>16, <1>17

\* The invariant says that a query and a commit are exact.
LEMMA TableInvExact == TableInv => TableExact
<1> SUFFICES ASSUME TableInv PROVE TableExact
  OBVIOUS
<1>1. Overlay /\ FoundAgain /\ Current /\ DumpKept
  BY DEF TableInv
<1>2. \A r \in Rows \ restored : Agree(EntryOf(r), reference, r)
  BY <1>1 DEF Current
<1>3. DOMAIN reference \subseteq Rows
  BY <1>1 DEF Current
<1>4. ASSUME NEW condition \in Conditions
      PROVE  SelectNoLock(condition) \ restored
                 = {r \in DOMAIN reference : reference[r] \in condition} \ restored
  <2>1. \A r \in Rows \ restored : r \in SelectNoLock(condition) <=> Process(EntryOf(r), condition)
    BY <1>1, Selection
  <2>2. \A r \in Rows \ restored :
            Process(EntryOf(r), condition) <=> r \in DOMAIN reference /\ reference[r] \in condition
    BY <1>2 DEF Agree, Process
  <2>3. SelectNoLock(condition) \subseteq Rows
    BY <1>1, Selection
  <2> QED
    BY <1>3, <2>1, <2>2, <2>3
<1>5. Dumped = Collected
  BY <1>1, DumpExact
<1>6. Dumped \subseteq Rows
  BY <1>1, <1>5 DEF Collected, Rows, Overlay
<1>7. DOMAIN Written \subseteq Rows /\ \A r \in DOMAIN Written : Written[r] = EntryOf(r).value
  BY <1>1, <1>6, NamedRows DEF Written
<1>8. ASSUME NEW r \in Rows
      PROVE  r \in DOMAIN Written <=> ~EntryOf(r).removed /\ ~EntryOf(r).deleted
  <2>1. r \in DOMAIN Written <=> \/ r \in Dumped /\ ~EntryOf(r).removed
                                 \/ \E id \in DOMAIN dbRows : r = StoredRow(id) /\ r \notin Dumped
    BY DEF Written
  <2>2. CASE r[1] = 0
    <3>1. r = NewRow(r[2]) /\ r[2] \in DOMAIN newEntries /\ EntryOf(r) = newEntries[r[2]]
      BY <1>1, <1>8, <2>2, RowKinds DEF EntryOf
    <3>2. \A id \in DOMAIN dbRows : r # StoredRow(id)
      BY <1>1, <2>2, NamedRows
    <3>3. r \in Dumped <=> ~EntryOf(r).deleted
      <4>1. \A id \in DOMAIN tableDirty : r # StoredRow(id)
        BY <1>1, <3>2 DEF Overlay
      <4>2. \A i \in DOMAIN newEntries : r = NewRow(i) => i = r[2]
        BY <1>1, NamedRows
      <4> QED
        BY <1>5, <3>1, <4>1, <4>2 DEF Collected
    <3> QED
      BY <2>1, <3>2, <3>3
  <2>3. CASE r[1] # 0
    <3>1. r = StoredRow(r[1]) /\ r[1] \in DOMAIN dbRows /\ ~EntryOf(r).deleted
      BY <1>1, <1>8, <2>3, RowKinds, EntryTyped
    <3>2. r \in Dumped <=> r[1] \in DOMAIN tableDirty
      <4>1. \A i \in DOMAIN newEntries : r # NewRow(i)
        BY <1>1, <2>3, NamedRows
      <4>2. \A id \in DOMAIN tableDirty : r = StoredRow(id) => id = r[1]
        BY <1>1, NamedRows DEF Overlay
      <4> QED
        BY <1>5, <3>1, <4>1, <4>2 DEF Collected
    <3>3. r[1] \notin DOMAIN tableDirty => ~EntryOf(r).removed
      BY <2>3 DEF EntryOf
    <3> QED
      BY <2>1, <3>1, <3>2, <3>3
  <2> QED
    BY <2>2, <2>3
<1>9. \A r \in Rows \ restored : /\ r \in DOMAIN Written <=> r \in DOMAIN reference
                                 /\ r \in DOMAIN Written => Written[r] = reference[r]
  BY <1>2, <1>7, <1>8 DEF Agree
<1>10. /\ DOMAIN Written \ restored = DOMAIN reference \ restored
       /\ \A r \in DOMAIN Written \ restored : Written[r] = reference[r]
  BY <1>3, <1>7, <1>9
<1> QED
  BY <1>4, <1>10 DEF TableExact

\* A query of a block's table returns what the operations so far left, rows
\* undone by a rollback included, and commitDB writes that table, however
\* many rows, changes and nested calls there are.
THEOREM TableStaysExact == TableSpec => []TableExact
<1>1. TableInv /\ [TableNext]_tableVars => TableInv'
  <2> SUFFICES ASSUME TableInv, [TableNext]_tableVars PROVE TableInv'
    OBVIOUS
  <2>1. CASE TableUpdate
    BY <2>1, UpdateKeeps
  <2>2. CASE TableInsert
    BY <2>2, InsertKeeps
  <2>3. CASE TableRemove
    BY <2>3, RemoveKeeps
  <2>4. CASE Savepoint
    BY <2>4, SavepointKeeps
  <2>5. CASE CallReturns
    BY <2>5, ReturnKeeps
  <2>6. CASE TableRollback
    BY <2>6, RollbackKeeps
  <2>7. CASE CommitChanges
    BY <2>7, EndKeeps
  <2>8. CASE HashTable
    BY <2>8, HashKeeps
  <2>9. CASE CommitDB
    BY <2>9, CommitDBKeeps
  <2>10. CASE UNCHANGED tableVars
    BY <2>10, ZenonT(60) DEF tableVars, TableInv, Overlay, FoundAgain, LogKept, Current, Nested, DumpKept,
                 ChangeKept, Restorable, Collected, Rows, EntryOf
  <2> QED
    BY <2>1, <2>2, <2>3, <2>4, <2>5, <2>6, <2>7, <2>8, <2>9, <2>10 DEF TableNext
<1> QED
  BY <1>1, TableStart, TableInvExact, PTL DEF TableSpec
=============================================================================
