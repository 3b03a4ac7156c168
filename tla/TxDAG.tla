-------------------------------- MODULE TxDAG ---------------------------------
(***************************************************************************)
(* Parallel execution of a block's transactions: TxDAG::init builds a graph *)
(* from the fields each transaction touches, and the threads of             *)
(* parallelExecuteBlock consume it.                                        *)
(***************************************************************************)
EXTENDS Integers, Sequences, FiniteSets, FiniteSetsExt, SequencesExt

CONSTANTS
  TxCount,    \* transactions in the block
  Fields,     \* critical fields
  DagThreads  \* m_threadNum threads

ASSUME DagAssumption == TxCount \in Nat \ {0} /\ DagThreads # {} /\ "normal" \notin Fields

VARIABLES
  criticals, \* getTxCriticals of each transaction
  inDegree,  \* of each vertex
  topLevel,  \* m_topLevel
  totalConsume,
  exeCnt,    \* m_exeCnt
  units,     \* executeUnit in each thread
  starts,    \* history: how often each transaction was started
  executed   \* history: the transactions that were executed

dagVars == <<criticals, inDegree, topLevel, totalConsume, exeCnt, units, starts, executed>>

Txs == 0 .. TxCount - 1
InvalidId == -1

\* A transaction without criticals conflicts with all
Normal == {"normal"}

-----------------------------------------------------------------------------
(* TxDAG::init, for criticals crit                                          *)

Latest(ids) == Max(ids \union {InvalidId})

\* CriticalField: the last normal transaction before id, and the last one
\* after that which has field c
CriticalAll(crit, id) == Latest({j \in 0 .. id - 1 : crit[j] = Normal})
LatestOf(crit, c, id) ==
  Latest({j \in CriticalAll(crit, id) + 1 .. id - 1 : c \in crit[j]})

Get(crit, c, id) ==
  IF LatestOf(crit, c, id) # InvalidId THEN LatestOf(crit, c, id) ELSE CriticalAll(crit, id)

\* How many edges addEdge puts from i to id
EdgeCount(crit, i, id) ==
  IF crit[id] # Normal THEN Cardinality({c \in crit[id] : Get(crit, c, id) = i})
  ELSE Cardinality({c \in Fields : LatestOf(crit, c, id) = i})
       + IF CriticalAll(crit, id) = i THEN 1 ELSE 0

InDegree(crit) ==
  [id \in Txs |-> MapThenSumSet(LAMBDA i : EdgeCount(crit, i, id), 0 .. id - 1)]

\* The vertices id releases, in the order in which addEdge appended them
OutEdge(crit, id) ==
  FlattenSeq([k \in 1 .. TxCount - 1 - id |->
                [e \in 1 .. EdgeCount(crit, id, id + k) |-> id + k]])

Unit == [pc |-> "loop", id |-> InvalidId, cnt |-> 0, out |-> <<>>, next |-> InvalidId]

\* generate pushes the vertices without a predecessor
DagInit ==
  /\ criticals \in [Txs -> (SUBSET Fields) \union {Normal}]
  /\ inDegree = InDegree(criticals)
  /\ topLevel = SetToSortSeq({id \in Txs : inDegree[id] = 0}, <)
  /\ totalConsume = 0 /\ exeCnt = 0
  /\ units = [w \in DagThreads |-> Unit]
  /\ starts = [id \in Txs |-> 0] /\ executed = {}

-----------------------------------------------------------------------------
(* A thread of parallelExecuteBlock                                         *)

HasFinished(w) ==
  /\ units[w].pc = "loop"
  /\ units' = [units EXCEPT ![w].pc = IF exeCnt >= TxCount THEN "done" ELSE "pop"]
  /\ UNCHANGED <<criticals, inDegree, topLevel, totalConsume, exeCnt, starts, executed>>

Begin(w, id) ==
  /\ units' = [units EXCEPT ![w].pc = "run", ![w].id = id, ![w].cnt = @ + 1]
  /\ starts' = [starts EXCEPT ![id] = @ + 1]

\* waitPop gives up after 10 milliseconds or when everything is consumed, and
\* executeUnit returns
WaitPop(w) ==
  /\ units[w].pc = "pop"
  /\ \/ /\ topLevel # <<>> /\ Begin(w, Head(topLevel))
        /\ topLevel' = Tail(topLevel) /\ UNCHANGED exeCnt
     \/ /\ topLevel = <<>>
        /\ exeCnt' = exeCnt + units[w].cnt
        /\ units' = [units EXCEPT ![w] = Unit]
        /\ UNCHANGED <<topLevel, starts>>
  /\ UNCHANGED <<criticals, inDegree, totalConsume, executed>>

Execute(w) ==
  /\ units[w].pc = "run"
  /\ executed' = executed \union {units[w].id}
  /\ units' = [units EXCEPT ![w].pc = "consume", ![w].next = InvalidId,
                            ![w].out = OutEdge(criticals, units[w].id)]
  /\ UNCHANGED <<criticals, inDegree, topLevel, totalConsume, exeCnt, starts>>

\* Mutant: the vertex the thread goes on with is queued as well
ReleaseTwice(w, id) ==
  /\ units' = [units EXCEPT ![w].out = Tail(@), ![w].next = IF @ = InvalidId THEN id ELSE @]
  /\ topLevel' = Append(topLevel, id)

\* Mutant: only one released vertex is kept
ReleaseLast(w, id) ==
  /\ units' = [units EXCEPT ![w].out = Tail(@), ![w].next = id]
  /\ UNCHANGED topLevel

\* The thread goes on with the first vertex it releases and queues the others
Release(w, id) ==
  IF units[w].next = InvalidId
  THEN units' = [units EXCEPT ![w].out = Tail(@), ![w].next = id] /\ UNCHANGED topLevel
  ELSE units' = [units EXCEPT ![w].out = Tail(@)] /\ topLevel' = Append(topLevel, id)

\* fetch_sub on the next edge of consume
ConsumeEdge(w) ==
  /\ units[w].pc = "consume" /\ units[w].out # <<>>
  /\ LET id == Head(units[w].out)
     IN  /\ inDegree' = [inDegree EXCEPT ![id] = @ - 1]
         /\ IF inDegree[id] = 1 THEN Release(w, id)
            ELSE units' = [units EXCEPT ![w].out = Tail(@)] /\ UNCHANGED topLevel
  /\ UNCHANGED <<criticals, totalConsume, exeCnt, starts, executed>>

Consumed(w) ==
  /\ units[w].pc = "consume" /\ units[w].out = <<>>
  /\ totalConsume' = totalConsume + 1
  /\ IF units[w].next # InvalidId THEN Begin(w, units[w].next)
     ELSE units' = [units EXCEPT ![w].pc = "pop"] /\ UNCHANGED starts
  /\ UNCHANGED <<criticals, inDegree, topLevel, exeCnt, executed>>

DagNext ==
  \E w \in DagThreads :
    HasFinished(w) \/ WaitPop(w) \/ Execute(w) \/ ConsumeEdge(w) \/ Consumed(w)

DagSpec == DagInit /\ [][DagNext]_dagVars

-----------------------------------------------------------------------------
\* Every variable has its type; no in-degree is taken below zero.
DagTypeOK ==
  /\ criticals \in [Txs -> (SUBSET Fields) \union {Normal}]
  /\ inDegree \in [Txs -> Nat] /\ topLevel \in Seq(Txs)
  /\ totalConsume \in Nat /\ exeCnt \in Nat
  /\ units \in [DagThreads -> [pc : {"loop", "pop", "run", "consume", "done"}, id : Txs \union {InvalidId},
                               cnt : Nat, out : Seq(Txs), next : Txs \union {InvalidId}]]
  /\ starts \in [Txs -> Nat] /\ executed \subseteq Txs

Conflict(i, j) ==
  IF Normal \in {criticals[i], criticals[j]} THEN {} \notin {criticals[i], criticals[j]}
  ELSE criticals[i] \intersect criticals[j] # {}

\* No transaction is executed twice, and a thread leaves the loop only when
\* every one has been executed: m_exeCnt is added up after the fact.  "DAG
\* transaction: Conflict with certain critical fields" and "Normal transaction:
\* Conflict with all transaction": transactions that conflict run one after the
\* other in block order, although init only links each one to the latest of
\* each field.
ExecutedInOrder ==
  /\ \A id \in Txs : starts[id] <= 1
  /\ \A w \in DagThreads : units[w].pc = "done" => executed = Txs
  /\ \A j \in Txs : \A i \in 0 .. j - 1 : Conflict(i, j) /\ starts[j] > 0 => i \in executed

\* As long as a transaction is left one is queued or in the hands of a thread,
\* so that the threads do not spin for ever.
DagNeverStalls ==
  executed # Txs => topLevel # <<>> \/ \E w \in DagThreads : units[w].pc \in {"run", "consume"}
===============================================================================
