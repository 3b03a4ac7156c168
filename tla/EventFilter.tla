----------------------------- MODULE EventFilter -----------------------------
(***************************************************************************)
(* The event filters of a group (EventLogFilterManager).  An SDK registers *)
(* a filter for the logs of a range of blocks and may cancel it; one       *)
(* thread goes over the filters again and again and pushes to each SDK the *)
(* logs that match, from the blocks that are there by then.  The requests  *)
(* come from the threads of the channel server and reach the loop through  *)
(* two queues, each with a mutex of its own.                               *)
(*                                                                         *)
(* A block's matching logs are abstracted to the block having some, and a  *)
(* session or a permission that is gone to the answer of the check.        *)
(***************************************************************************)
EXTENDS Naturals, Sequences, SequencesExt

CONSTANTS
    FilterIds,         \* the ids SDKs give to their filters
    Matching,          \* the blocks that have a log that matches
    FromBlocks,        \* the first blocks that are asked for
    ToBlocks,          \* the last ones
    MAX_BLOCK_NUMBER,  \* what stands for the latest block
    MaxBlockRange,     \* m_maxBlockRange
    MaxBlockPerLoop,   \* m_maxBlockPerLoopFilter
    MaxTop,            \* bound: the highest block
    MaxFilters         \* bound: filters that are registered at a time

MAX_BLOCK_PER_PROCESS == 3

\* A loop that may take fewer blocks than MAX_BLOCK_PER_PROCESS would read
\* blocks that are not there: executeFilter takes MAX_BLOCK_PER_PROCESS when
\* as many as MaxBlockPerLoop are left.
ASSUME EventFilterAssumption ==
    /\ FromBlocks \cup ToBlocks \subseteq Nat
    /\ MaxBlockPerLoop \in Nat
    /\ MaxBlockPerLoop >= MAX_BLOCK_PER_PROCESS

VARIABLES
    chainTop,      \* the number of the block chain
    waitAdd,       \* m_waitAddFilter
    filters,       \* m_filters
    cancelling,    \* ids that a cancelling request has found in m_filters
    waitCancel,    \* m_waitCancelFilter
    loop,          \* the step of doWork, and the filter it is at
    completed      \* the filter that was last, in this loop, told it is complete

filterVars == <<chainTop, waitAdd, filters, cancelling, waitCancel, loop, completed>>

NoFilter == <<>>

FilterInit ==
    /\ chainTop = 0
    /\ waitAdd = <<>>
    /\ filters = <<>>
    /\ cancelling = {}
    /\ waitCancel = {}
    /\ loop = [step |-> "add", at |-> 1]
    /\ completed = NoFilter

\* The block chain grows.
ChainGrows ==
    /\ chainTop < MaxTop
    /\ chainTop' = chainTop + 1
    /\ UNCHANGED <<waitAdd, filters, cancelling, waitCancel, loop, completed>>

\* addEventLogFilterByRequest; one from the latest begins with the current block.
\* A request outside of the range is refused.
AddByRequest(id, from, to) ==
    LET next == IF from = MAX_BLOCK_NUMBER THEN chainTop ELSE from
    IN  /\ Len(waitAdd) + Len(filters) < MaxFilters
        /\ to >= next
        /\ ~(MaxBlockRange > 0 /\ chainTop >= next /\ chainTop - next + 1 > MaxBlockRange)
        /\ waitAdd' = Append(waitAdd, [id |-> id, start |-> next, to |-> to, next |-> next,
                                       pushed |-> <<>>])
        /\ UNCHANGED <<chainTop, filters, cancelling, waitCancel, loop, completed>>

\* cancelEventLogFilterByRequest looks in m_filters, with no lock ...
FindByRequest(id) ==
    /\ \E f \in Range(filters) : f.id = id
    /\ cancelling' = cancelling \cup {id}
    /\ UNCHANGED <<chainTop, waitAdd, filters, waitCancel, loop, completed>>

\* ... and queues what it found, which the loop may have removed meanwhile.
CancelByRequest(id) ==
    /\ id \in cancelling
    /\ cancelling' = cancelling \ {id}
    /\ waitCancel' = waitCancel \cup {id}
    /\ UNCHANGED <<chainTop, waitAdd, filters, loop, completed>>

-----------------------------------------------------------------------------
(* doWork *)

\* addFilter.
AddFilter ==
    /\ loop.step = "add"
    /\ filters' = waitAdd \o filters
    /\ waitAdd' = <<>>
    /\ loop' = [loop EXCEPT !.step = "cancel"]
    /\ UNCHANGED <<chainTop, cancelling, waitCancel, completed>>

\* cancelFilter.
CancelFilter ==
    /\ loop.step = "cancel"
    /\ filters' = SelectSeq(filters, LAMBDA f : f.id \notin waitCancel)
    /\ waitCancel' = {}
    /\ loop' = [step |-> "execute", at |-> 1]
    /\ UNCHANGED <<chainTop, waitAdd, cancelling, completed>>

\* How many blocks executeFilter takes, of those that are left.
ThisLoopBlocks(left) == IF MaxBlockPerLoop > left THEN left ELSE MAX_BLOCK_PER_PROCESS

\* The matching blocks among n .. m in their order.
Matches(n, m) == SelectSeq([i \in 1 .. (m + 1 - n) |-> n + i - 1], LAMBDA b : b \in Matching)

\* executeFilters erases the filter it is at; the iterator is at the next.
EraseFilter ==
    /\ filters' = RemoveAt(filters, loop.at)
    /\ UNCHANGED loop

\* executeFilter, when the session is gone.
SessionGone ==
    /\ loop.step = "execute"
    /\ loop.at <= Len(filters)
    /\ EraseFilter
    /\ UNCHANGED <<chainTop, waitAdd, cancelling, waitCancel, completed>>

\* executeFilter, when the SDK may not use the group: not a status for which
\* the filter is removed (isErrorStatus), it is tried again in the next loop.
AccessDenied ==
    /\ loop.step = "execute"
    /\ loop.at <= Len(filters)
    /\ loop' = [loop EXCEPT !.at = @ + 1]
    /\ UNCHANGED <<chainTop, waitAdd, filters, cancelling, waitCancel, completed>>

\* executeFilter, when the filter has had every block.
WaitForBlock ==
    /\ loop.step = "execute"
    /\ loop.at <= Len(filters)
    /\ chainTop < filters[loop.at].next
    /\ loop' = [loop EXCEPT !.at = @ + 1]
    /\ UNCHANGED <<chainTop, waitAdd, filters, cancelling, waitCancel, completed>>

\* Mutant: the filter goes on after the last block of the chain.
ExecuteFilterSkips(delivered) ==
    /\ loop.step = "execute"
    /\ loop.at <= Len(filters)
    /\ LET f == filters[loop.at]
           n == ThisLoopBlocks(chainTop - f.next + 1)
       IN  /\ chainTop >= f.next
           /\ filters' = [filters EXCEPT ![loop.at] =
                 [f EXCEPT !.next = chainTop + 1,
                           !.pushed = @ \o Matches(f.next, f.next + n - 1)]]
    /\ loop' = [loop EXCEPT !.at = @ + 1]
    /\ UNCHANGED <<chainTop, waitAdd, cancelling, waitCancel, completed>>

\* executeFilter otherwise: the next blocks are read, the filter is past them
\* from now on, and the logs are pushed if there are any.  The filter is
\* removed when the push fails, and when it is past its last block.
ExecuteFilter(delivered) ==
    /\ loop.step = "execute"
    /\ loop.at <= Len(filters)
    /\ LET f == filters[loop.at]
           n == ThisLoopBlocks(chainTop - f.next + 1)
           logs == Matches(f.next, f.next + n - 1)
           g == [f EXCEPT !.next = @ + n, !.pushed = @ \o logs]
       IN  /\ chainTop >= f.next
           /\ IF logs # <<>> /\ ~delivered
              THEN EraseFilter /\ UNCHANGED completed
              ELSE IF g.next > g.to
              THEN EraseFilter /\ completed' = g
              ELSE /\ filters' = [filters EXCEPT ![loop.at] = g]
                   /\ loop' = [loop EXCEPT !.at = @ + 1]
                   /\ UNCHANGED completed
    /\ UNCHANGED <<chainTop, waitAdd, cancelling, waitCancel>>

\* The loop begins again; it sleeps unless a filter has blocks left.
NextLoop ==
    /\ loop.step = "execute"
    /\ loop.at > Len(filters)
    /\ loop' = [step |-> "add", at |-> 1]
    /\ completed' = NoFilter
    /\ UNCHANGED <<chainTop, waitAdd, filters, cancelling, waitCancel>>

FilterNext ==
    \/ ChainGrows
    \/ \E id \in FilterIds, from \in FromBlocks, to \in ToBlocks :
          AddByRequest(id, from, to)
    \/ \E id \in FilterIds : FindByRequest(id)
    \/ \E id \in FilterIds : CancelByRequest(id)
    \/ AddFilter
    \/ CancelFilter
    \/ SessionGone
    \/ AccessDenied
    \/ WaitForBlock
    \/ \E delivered \in BOOLEAN : ExecuteFilter(delivered)
    \/ NextLoop

FilterSpec == FilterInit /\ [][FilterNext]_filterVars

-----------------------------------------------------------------------------

\* The position of the loop is in m_filters or just after it.
FilterTypeOK ==
    /\ chainTop \in 0 .. MaxTop
    /\ loop.step \in {"add", "cancel", "execute"}
    /\ loop.step = "execute" => loop.at \in 1 .. Len(filters) + 1
    /\ Len(waitAdd) + Len(filters) <= MaxFilters

\* A filter has pushed every matching block from its first one up to where it
\* is, each once and in order, whatever requests, removals before it in
\* m_filters and new blocks came in between; it never is past the chain; and
\* an SDK that is told its push completed has had its whole range.
EventsExact ==
    /\ \A f \in Range(waitAdd) \cup Range(filters) :
          /\ f.pushed = Matches(f.start, f.next - 1)
          /\ f.next = f.start \/ f.next <= chainTop + 1
    /\ completed # NoFilter =>
          /\ completed.next > completed.to
          /\ completed.next <= chainTop + 1
          /\ completed.pushed = Matches(completed.start, completed.next - 1)
==============================================================================
