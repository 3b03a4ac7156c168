----------------------------- MODULE CachedStorage -----------------------------
(***************************************************************************)
(* CachedStorage: the cache of table rows in front of the database, the     *)
(* task thread that writes committed blocks behind it, and the thread that  *)
(* evicts what has been written.  A row is the set of the blocks that wrote *)
(* it.  Locks are held from step to step where the code holds them: the     *)
(* lock of one cache object, and m_cachesMutex when touchCache waits for a  *)
(* second object under it.                                                 *)
(*                                                                         *)
(* Whether m_capacity is above m_maxCapacity, and which key of m_mru comes  *)
(* first, are choices.  The backend is RocksDB, which takes complete rows   *)
(* of dirty entries.                                                       *)
(***************************************************************************)
EXTENDS Integers, Sequences, FiniteSets

CONSTANTS
  StoreKeys,    \* table and key of the rows
  ForceKeys,    \* the rows whose first entry is inserted with force
  Selectors,    \* threads that call select
  MaxForward,   \* m_maxForwardBlock
  MaxStored     \* bound: blocks committed

ASSUME StorageAssumption ==
  /\ ForceKeys \subseteq StoreKeys /\ MaxForward \in Nat \ {0} /\ MaxStored \in Nat
  /\ "clear" \notin StoreKeys \union Selectors /\ StoreKeys \intersect Selectors = {}

VARIABLES
  slots,    \* m_caches: per key the object, or NoObject
  objects,  \* the Cache objects that are referred to
  threads,  \* per thread: where it is in touchCache
  store, storedNum,  \* the database and its last block
  commitTasks,    \* m_taskThreadPool's queue
  committing,  \* the call of commit: its stage, block and kinds of write
  syncNum, written,  \* m_syncNum; the blocks whose write of each row was done
  touched, mru,  \* m_mruQueue with m_asyncThreadPool's queue; m_mru
  alive     \* "up", "failed" once the backend threw, "exited" after exit(1)

storeVars == <<slots, objects, threads, store, storedNum, commitTasks, committing, syncNum,
               written, touched, mru, alive>>

\* commit's entries of different rows run in parallel: a worker per key
Threads == StoreKeys \union Selectors \union {"clear"}

NoObject == 0

\* As many as the threads and the map can refer to at once
ObjectIds == 1 .. Cardinality(StoreKeys) + Cardinality(Threads)

NewCache == [num |-> 0, empty |-> TRUE, rows |-> {}, owner |-> "none"]

IdleThread == [pc |-> "idle", key |-> "none", object |-> NoObject, inserted |-> FALSE]

\* rows: what the task will write; sorted: the rows sortCaches is done with
NoCommit == [stage |-> "idle", num |-> 0, kind |-> [k \in StoreKeys |-> "none"],
             rows |-> [k \in StoreKeys |-> {}], sorted |-> {}]

StorageInit ==
  /\ slots = [k \in StoreKeys |-> NoObject]
  /\ objects = [o \in ObjectIds |-> NewCache]
  /\ threads = [t \in Threads |-> IdleThread]
  /\ store = [k \in StoreKeys |-> {}] /\ storedNum = 0
  /\ commitTasks = <<>> /\ committing = NoCommit
  /\ syncNum = 0 /\ written = [k \in StoreKeys |-> {}]
  /\ touched = {} /\ mru = {} /\ alive = "up"

-----------------------------------------------------------------------------
(* touchCache(k) by thread t: find or insert the object under               *)
(* m_cachesMutex, lock it, and look again unless this thread inserted it.   *)

Unused(o) == o \notin {slots[k] : k \in StoreKeys} \union {threads[t].object : t \in Threads}

FindCache(t, k) ==
  LET fresh == CHOOSE o \in ObjectIds : Unused(o) /\ \A q \in ObjectIds : Unused(q) => o <= q
      o == IF slots[k] = NoObject THEN fresh ELSE slots[k]
  IN  /\ slots' = [slots EXCEPT ![k] = o]
      /\ objects' = IF slots[k] = NoObject THEN [objects EXCEPT ![o] = NewCache] ELSE objects
      /\ threads' = [threads EXCEPT ![t] = [pc |-> "lock", key |-> k, object |-> o,
                                            inserted |-> slots[k] = NoObject]]

Held(o) == objects[o].owner # "none"

LockCache(t) ==
  /\ threads[t].pc = "lock" /\ ~Held(threads[t].object)
  /\ objects' = [objects EXCEPT ![threads[t].object].owner = t]
  /\ threads' = [threads EXCEPT ![t].pc = IF threads[t].inserted THEN "in" ELSE "recheck"]
  /\ UNCHANGED <<slots, store, storedNum, commitTasks, committing, syncNum, written, touched, mru, alive>>

\* Another object of the key is taken instead, waiting for it with
\* m_cachesMutex held
Recheck(t) ==
  LET o == threads[t].object
      now == slots[threads[t].key]
  IN  /\ threads[t].pc = "recheck"
      /\ slots' = [slots EXCEPT ![threads[t].key] = IF now = NoObject THEN o ELSE now]
      /\ IF now \in {NoObject, o}
         THEN /\ threads' = [threads EXCEPT ![t].pc = "in"]
              /\ UNCHANGED objects
         ELSE /\ threads' = [threads EXCEPT ![t].pc = "relock", ![t].object = now]
              /\ objects' = [objects EXCEPT ![o].owner = "none"]
      /\ UNCHANGED <<store, storedNum, commitTasks, committing, syncNum, written, touched, mru, alive>>

RelockCache(t) ==
  /\ threads[t].pc = "relock" /\ ~Held(threads[t].object)
  /\ objects' = [objects EXCEPT ![threads[t].object].owner = t]
  /\ threads' = [threads EXCEPT ![t].pc = "in"]
  /\ UNCHANGED <<slots, store, storedNum, commitTasks, committing, syncNum, written, touched, mru, alive>>

TouchCache(t) == LockCache(t) \/ Recheck(t) \/ RelockCache(t)

\* The caller is done with object o of thread t, left with contents c
ReleaseCache(t, c) ==
  /\ objects' = [objects EXCEPT ![threads[t].object] = [c EXCEPT !.owner = "none"]]
  /\ threads' = [threads EXCEPT ![t] = IdleThread]

\* A miss reads the backend
Loaded(c, k) == IF c.empty THEN [c EXCEPT !.rows = store[k]] ELSE c

-----------------------------------------------------------------------------
(* select                                                                   *)
StartSelect(t, k) ==
  /\ threads[t].pc = "idle"
  /\ FindCache(t, k)
  /\ UNCHANGED <<store, storedNum, commitTasks, committing, syncNum, written, touched, mru, alive>>

Select(t) ==
  LET k == threads[t].key
      c == Loaded(objects[threads[t].object], k)
  IN  /\ threads[t].pc = "in"
      /\ ReleaseCache(t, [c EXCEPT !.empty = FALSE])
      /\ touched' = touched \union {k}
      /\ UNCHANGED <<slots, store, storedNum, commitTasks, committing, syncNum, written, mru, alive>>

-----------------------------------------------------------------------------
(* commit(num, datas): dirty entries, then new entries, then the sort of    *)
(* the rows that got new entries, then the task.                            *)

\* A dirty entry updates an entry that exists.  A block may write rows that
\* are not modelled only.
Kinds(k) == CASE written[k] = {} /\ k \in ForceKeys -> {"none", "force"}
              [] written[k] = {} /\ k \notin ForceKeys -> {"none", "new"}
              [] OTHER -> {"none", "new", "dirty"}

StartCommit ==
  /\ committing.stage = "idle" /\ committing.num < MaxStored
  /\ \E kind \in [StoreKeys -> {"none", "dirty", "new", "force"}] :
       /\ \A k \in StoreKeys : kind[k] \in Kinds(k)
       /\ committing' = [NoCommit EXCEPT !.stage = "dirty", !.num = committing.num + 1, !.kind = kind]
  /\ UNCHANGED <<slots, objects, threads, store, storedNum, commitTasks, syncNum, written, touched, mru, alive>>

\* The rows the stage still has to process
Todo ==
  LET pending(kinds) == {k \in StoreKeys : committing.kind[k] \in kinds /\ committing.num \notin written[k]}
  IN  CASE committing.stage = "dirty" -> pending({"dirty"})
        [] committing.stage = "new" -> pending({"new", "force"})
        [] committing.stage = "sort" ->
             {k \in StoreKeys : committing.kind[k] \in {"new", "force"}} \ committing.sorted
        [] OTHER -> {}

StartEntry(k) ==
  /\ threads[k].pc = "idle" /\ k \in Todo
  /\ FindCache(k, k)
  /\ UNCHANGED <<store, storedNum, commitTasks, committing, syncNum, written, touched, mru, alive>>

\* restoreCache puts an object back that checkAndClear took out; exit(1) when
\* the key has another object by now
Misplaced(t) == slots[threads[t].key] \notin {NoObject, threads[t].object}

Exit ==
  /\ alive' = "exited"
  /\ UNCHANGED <<slots, objects, threads, store, storedNum, commitTasks, committing, syncNum, written, touched, mru>>

\* An entry of row k, with the object locked.  A dirty entry takes the whole
\* row into the task; an entry with force is added to whatever the object
\* holds, and the object is not put back.
WriteEntry(k) ==
  LET o == threads[k].object
      c == objects[o]
      n == committing.num
      force == committing.kind[k] = "force"
      base == IF force THEN c.rows ELSE Loaded(c, k).rows
      rows == base \union {n}
  IN  /\ threads[k].pc = "in" /\ committing.stage \in {"dirty", "new"}
      /\ IF ~force /\ c.empty /\ Misplaced(k) THEN Exit
         ELSE /\ slots' = IF ~force /\ c.empty THEN [slots EXCEPT ![k] = o] ELSE slots
              /\ ReleaseCache(k, [c EXCEPT !.num = n, !.empty = FALSE, !.rows = rows])
              /\ written' = [written EXCEPT ![k] = @ \union {n}]
              /\ committing' = [committing EXCEPT !.rows[k] = IF committing.stage = "dirty" THEN rows ELSE {n}]
              /\ touched' = touched \union {k}
              /\ UNCHANGED <<store, storedNum, commitTasks, syncNum, mru, alive>>

SortCache(k) ==
  /\ threads[k].pc = "in" /\ committing.stage = "sort"
  /\ ReleaseCache(k, objects[threads[k].object])
  /\ committing' = [committing EXCEPT !.sorted = @ \union {k}]
  /\ UNCHANGED <<slots, store, storedNum, commitTasks, syncNum, written, touched, mru, alive>>

NextStage ==
  /\ committing.stage \in {"dirty", "new", "sort"}
  /\ Todo = {} /\ \A k \in StoreKeys : threads[k].pc = "idle"
  /\ LET next == CASE committing.stage = "dirty" -> "new"
                   [] committing.stage = "new" -> "sort"
                   [] OTHER -> "wait"
     IN  /\ committing' = [committing EXCEPT !.stage = next]
         /\ commitTasks' = IF next = "wait"
                     THEN Append(commitTasks, [num |-> committing.num, kind |-> committing.kind,
                                         rows |-> committing.rows])
                     ELSE commitTasks
  /\ UNCHANGED <<slots, objects, threads, store, storedNum, syncNum, written, touched, mru, alive>>

\* commit returns once the backend is near enough
EndCommit ==
  /\ committing.stage = "wait"
  /\ committing.num - syncNum <= MaxForward \/ alive # "up"
  /\ committing' = [NoCommit EXCEPT !.num = committing.num]
  /\ UNCHANGED <<slots, objects, threads, store, storedNum, commitTasks, syncNum, written, touched, mru, alive>>

-----------------------------------------------------------------------------
(* The task thread.                                                         *)

\* RocksDBStorage::commit: dirty rows replace what is stored, so do rows
\* inserted with force; other new entries are appended to it
Flushed(k, task) ==
  CASE task.kind[k] \in {"dirty", "force"} -> task.rows[k]
    [] task.kind[k] = "new" -> store[k] \union task.rows[k]
    [] OTHER -> store[k]

\* The block is written in one batch, then setSyncNum
CommitBackend ==
  /\ alive = "up" /\ commitTasks # <<>>
  /\ LET task == Head(commitTasks)
     IN  IF storedNum < task.num
         THEN /\ store' = [k \in StoreKeys |-> Flushed(k, task)]
              /\ storedNum' = task.num
              /\ UNCHANGED <<syncNum, commitTasks>>
         ELSE /\ syncNum' = task.num
              /\ commitTasks' = Tail(commitTasks)
              /\ UNCHANGED <<store, storedNum>>
  /\ UNCHANGED <<slots, objects, threads, committing, written, touched, mru, alive>>

\* The backend throws: the pool is stopped and the node asked to terminate
BackendFails ==
  /\ alive = "up" /\ commitTasks # <<>> /\ storedNum < Head(commitTasks).num
  /\ commitTasks' = Tail(commitTasks)
  /\ alive' = "failed"
  /\ UNCHANGED <<slots, objects, threads, store, storedNum, committing, syncNum, written, touched, mru>>

-----------------------------------------------------------------------------
(* checkAndClear                                                            *)
DrainTouches ==
  /\ threads["clear"].pc = "idle" /\ touched # {}
  /\ mru' = mru \union touched
  /\ touched' = {}
  /\ UNCHANGED <<slots, objects, threads, store, storedNum, commitTasks, committing, syncNum, written, alive>>

PickVictim(k) ==
  /\ threads["clear"].pc = "idle" /\ alive = "up" /\ syncNum > 0 /\ k \in mru
  /\ FindCache("clear", k)
  /\ UNCHANGED <<store, storedNum, commitTasks, committing, syncNum, written, touched, mru, alive>>

\* Mutant: whatever is in the cache may go
EvictAny(o) == TRUE

\* Everything that wrote the object is in the backend
Evictable(o) == objects[o].num <= syncNum

CheckVictim ==
  LET o == threads["clear"].object
  IN  /\ threads["clear"].pc = "in"
      /\ IF Evictable(o)
         THEN /\ objects' = [objects EXCEPT ![o].empty = TRUE]
              /\ threads' = [threads EXCEPT !["clear"].pc = "erase"]
         ELSE ReleaseCache("clear", objects[o])
      /\ UNCHANGED <<slots, store, storedNum, commitTasks, committing, syncNum, written, touched, mru, alive>>

\* removeCache spins until nobody holds m_cachesMutex, the victim locked
RemoveCache ==
  LET k == threads["clear"].key
  IN  /\ threads["clear"].pc = "erase"
      /\ \A t \in Threads : threads[t].pc # "relock"
      /\ slots' = [slots EXCEPT ![k] = NoObject]
      /\ mru' = mru \ {k}
      /\ ReleaseCache("clear", objects[threads["clear"].object])
      /\ UNCHANGED <<store, storedNum, commitTasks, committing, syncNum, written, touched, alive>>

StorageNext ==
  /\ alive # "exited"
  /\ \/ \E t \in Threads : TouchCache(t)
     \/ \E t \in Selectors : Select(t) \/ \E k \in StoreKeys : StartSelect(t, k)
     \/ StartCommit \/ NextStage \/ EndCommit
     \/ \E k \in StoreKeys : StartEntry(k) \/ WriteEntry(k) \/ SortCache(k) \/ PickVictim(k)
     \/ CommitBackend \/ BackendFails
     \/ DrainTouches \/ CheckVictim \/ RemoveCache

StorageSpec == StorageInit /\ [][StorageNext]_storeVars

-----------------------------------------------------------------------------
\* Every variable has its type, and no more blocks wait for the task thread
\* than m_maxForwardBlock and the one being committed.
StorageTypeOK ==
  /\ slots \in [StoreKeys -> ObjectIds \union {NoObject}]
  /\ objects \in [ObjectIds -> [num : 0 .. MaxStored, empty : BOOLEAN, rows : SUBSET (1 .. MaxStored),
                                owner : Threads \union {"none"}]]
  /\ threads \in [Threads -> [pc : {"idle", "lock", "recheck", "relock", "in", "erase"},
                              key : StoreKeys \union {"none"},
                              object : ObjectIds \union {NoObject}, inserted : BOOLEAN]]
  /\ {syncNum, storedNum} \subseteq 0 .. MaxStored /\ touched \subseteq StoreKeys /\ mru \subseteq StoreKeys
  /\ alive \in {"up", "failed", "exited"}
  /\ alive # "up" \/ Len(commitTasks) <= MaxForward + (IF committing.stage = NoCommit.stage THEN 0 ELSE 1)

\* What the next reader of row k finds
Visible(k) ==
  IF slots[k] # NoObject /\ ~objects[slots[k]].empty THEN objects[slots[k]].rows ELSE store[k]

\* "to avoid this, re-insert the data into the m_caches": whatever select,
\* commit, the task thread and checkAndClear do at once, the next reader of a
\* row finds every block's write of it, in the cache or in the backend.  The
\* backend holds the blocks up to its last one and no other, whatever a task
\* took from the cache and wherever the backend failed; m_syncNum never runs
\* ahead of it.
NothingLost ==
  /\ \A k \in StoreKeys : Visible(k) = written[k]
  /\ \A k \in StoreKeys : store[k] = {n \in written[k] : n <= storedNum}
  /\ syncNum <= storedNum
===============================================================================
