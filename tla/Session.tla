------------------------------- MODULE Session --------------------------------
(***************************************************************************)
(* One network session: requests with callbacks, the write queue, and the   *)
(* end of the session.  Callers run asyncSendMessage in their own threads,   *)
(* one io thread reads, writes and runs the timers, and callbacks run on a  *)
(* thread pool.  A request's timeout is longer than the call that starts    *)
(* its timer.                                                              *)
(***************************************************************************)
EXTENDS Naturals, Sequences, FiniteSets

CONSTANTS
  Requests,  \* messages sent with a callback, each with a seq of its own
  Timed      \* those with options.timeout > 0

NoMessage == "no message"

ASSUME SessionAssumption == Timed \subseteq Requests /\ NoMessage \notin Requests

VARIABLES
  actived,      \* m_actived
  isOpen,       \* the socket is open
  writeQueue,   \* m_writeQueue
  writing,      \* m_writing
  posted,       \* the message handed to asyncWrite, if any
  ioStep,       \* "write" between the two halves of onWrite
  seq2Callback, \* the requests in m_seq2Callback
  timers,       \* off, armed, or due: expired and no longer to be cancelled
  calls,        \* where each asyncSendMessage is
  tasks,        \* what is queued on the thread pool
  called,       \* how often each callback was called
  atPeer,       \* requests the peer has and did not answer yet
  responses,    \* answers that arrived at the socket
  dropping      \* drop has cleared m_actived and not yet the callbacks

sessionVars == <<actived, isOpen, writeQueue, writing, posted, ioStep, seq2Callback, timers,
                 calls, tasks, called, atPeer, responses, dropping>>
writeVars == <<writeQueue, writing, posted>>
peerSide == <<atPeer, responses>>

Task(r, why) == [req |-> r, why |-> why, ran |-> FALSE]
Actived == actived /\ isOpen

SessionInit ==
  /\ actived = TRUE /\ isOpen = TRUE /\ dropping = FALSE
  /\ writeQueue = <<>> /\ writing = FALSE /\ posted = NoMessage /\ ioStep = "idle"
  /\ seq2Callback = {} /\ timers = [r \in Requests |-> "off"]
  /\ calls = [r \in Requests |-> "idle"]
  /\ tasks = {} /\ called = [r \in Requests |-> 0]
  /\ atPeer = {} /\ responses = {}

\* Session::drop up to m_actived = false
BeginDrop == actived' = FALSE /\ dropping' = (dropping \/ actived)
NoDrop == UNCHANGED <<actived, dropping>>

-----------------------------------------------------------------------------
(* asyncSendMessage                                                         *)

CheckActived(r) ==
  /\ calls[r] = "idle"
  /\ IF Actived THEN calls' = [calls EXCEPT ![r] = "checked"] /\ UNCHANGED tasks
     ELSE calls' = [calls EXCEPT ![r] = "done"] /\ tasks' = tasks \union {Task(r, "inactive")}
  /\ NoDrop /\ UNCHANGED <<isOpen, writeVars, ioStep, seq2Callback, timers, called, peerSide>>

AddSeqCallback(r) ==
  /\ calls[r] = "checked"
  /\ calls' = [calls EXCEPT ![r] = "added"]
  /\ seq2Callback' = seq2Callback \union {r}
  /\ timers' = IF r \in Timed THEN [timers EXCEPT ![r] = "armed"] ELSE timers
  /\ NoDrop /\ UNCHANGED <<isOpen, writeVars, ioStep, tasks, called, peerSide>>

Send(r) ==
  /\ calls[r] = "added"
  /\ IF Actived
     THEN calls' = [calls EXCEPT ![r] = "pushed"] /\ writeQueue' = Append(writeQueue, r)
     ELSE calls' = [calls EXCEPT ![r] = "done"] /\ UNCHANGED writeQueue
  /\ NoDrop
  /\ UNCHANGED <<isOpen, writing, posted, ioStep, seq2Callback, timers, tasks, called, peerSide>>

\* The first half of it holds x_writeQueue from the test of m_writing on
Write ==
  IF ~Actived \/ writing \/ writeQueue = <<>> THEN UNCHANGED writeVars
  ELSE writing' = TRUE /\ posted' = Head(writeQueue) /\ writeQueue' = Tail(writeQueue)

WriteAfterSend(r) ==
  /\ calls[r] = "pushed"
  /\ calls' = [calls EXCEPT ![r] = "done"]
  /\ Write
  /\ NoDrop /\ UNCHANGED <<isOpen, ioStep, seq2Callback, timers, tasks, called, peerSide>>

-----------------------------------------------------------------------------
(* The io thread                                                            *)

\* asyncWrite has sent the message or failed; on a socket that was closed in
\* the meantime its handler is not called
OnWrite ==
  /\ ioStep = "idle" /\ posted # NoMessage
  /\ posted' = NoMessage
  /\ \/ /\ isOpen /\ atPeer' = atPeer \union {posted}
        /\ IF actived THEN ioStep' = "write" /\ writing' = FALSE ELSE UNCHANGED <<ioStep, writing>>
        /\ NoDrop
     \/ isOpen /\ BeginDrop /\ UNCHANGED <<atPeer, ioStep, writing>>
     \/ ~isOpen /\ NoDrop /\ UNCHANGED <<atPeer, ioStep, writing>>
  /\ UNCHANGED <<isOpen, writeQueue, seq2Callback, timers, calls, tasks, called, responses>>

WriteAfterOnWrite ==
  /\ ioStep = "write" /\ ioStep' = "idle"
  /\ Write
  /\ NoDrop /\ UNCHANGED <<isOpen, seq2Callback, timers, calls, tasks, called, peerSide>>

Cancelled(rs) == [r \in Requests |-> IF r \in rs /\ timers[r] = "armed" THEN "off" ELSE timers[r]]

\* Mutant: only a request with a timer has its callback called
OnMessageTimed(r) ==
  /\ ioStep = "idle" /\ r \in responses /\ responses' = responses \ {r}
  /\ IF actived /\ r \in seq2Callback \intersect Timed
     THEN timers' = Cancelled({r}) /\ tasks' = tasks \union {Task(r, "response")}
     ELSE UNCHANGED <<timers, tasks>>
  /\ NoDrop /\ UNCHANGED <<isOpen, writeVars, ioStep, seq2Callback, calls, called, atPeer>>

\* The callback stays registered until the task that calls it has run
OnMessage(r) ==
  /\ ioStep = "idle" /\ r \in responses /\ responses' = responses \ {r}
  /\ IF actived /\ r \in seq2Callback
     THEN timers' = Cancelled({r}) /\ tasks' = tasks \union {Task(r, "response")}
     ELSE UNCHANGED <<timers, tasks>>
  /\ NoDrop /\ UNCHANGED <<isOpen, writeVars, ioStep, seq2Callback, calls, called, atPeer>>

TimerExpires(r) ==
  /\ timers[r] = "armed" /\ calls[r] = "done"
  /\ timers' = [timers EXCEPT ![r] = "due"]
  /\ NoDrop /\ UNCHANGED <<isOpen, writeVars, ioStep, seq2Callback, calls, tasks, called, peerSide>>

OnTimeout(r) ==
  /\ ioStep = "idle" /\ timers[r] = "due"
  /\ timers' = [timers EXCEPT ![r] = "off"]
  /\ tasks' = IF r \in seq2Callback THEN tasks \union {Task(r, "timeout")} ELSE tasks
  /\ NoDrop /\ UNCHANGED <<isOpen, writeVars, ioStep, seq2Callback, calls, called, peerSide>>

\* A read error, the idle timer, or disconnect from another thread
Disconnect ==
  /\ actived /\ BeginDrop
  /\ UNCHANGED <<isOpen, writeVars, ioStep, seq2Callback, timers, calls, tasks, called, peerSide>>

\* Mutant: the callbacks are erased and not called
ClearCallbacks ==
  /\ dropping /\ dropping' = FALSE
  /\ timers' = Cancelled(seq2Callback)
  /\ seq2Callback' = {} /\ isOpen' = FALSE
  /\ UNCHANGED <<actived, writeVars, ioStep, calls, tasks, called, peerSide>>

\* The rest of drop: "call and erase all callbackFunc in this session"
FinishDrop ==
  /\ dropping /\ dropping' = FALSE
  /\ timers' = Cancelled(seq2Callback)
  /\ tasks' = tasks \union {Task(r, "disconnect") : r \in seq2Callback}
  /\ seq2Callback' = {} /\ isOpen' = FALSE
  /\ UNCHANGED <<actived, writeVars, ioStep, calls, called, peerSide>>

-----------------------------------------------------------------------------
(* The thread pool, the peer and the network                                *)

RunCallback(t) ==
  /\ ~t.ran
  /\ called' = [called EXCEPT ![t.req] = @ + 1]
  /\ tasks' = (tasks \ {t}) \union IF t.why \in {"response", "timeout"} THEN {[t EXCEPT !.ran = TRUE]} ELSE {}
  /\ NoDrop /\ UNCHANGED <<isOpen, writeVars, ioStep, seq2Callback, timers, calls, peerSide>>

RemoveSeqCallback(t) ==
  /\ t.ran
  /\ tasks' = tasks \ {t}
  /\ seq2Callback' = seq2Callback \ {t.req}
  /\ NoDrop /\ UNCHANGED <<isOpen, writeVars, ioStep, timers, calls, called, peerSide>>

PeerAnswers(r) ==
  /\ r \in atPeer /\ atPeer' = atPeer \ {r}
  /\ responses' = responses \union {r}
  /\ NoDrop /\ UNCHANGED <<isOpen, writeVars, ioStep, seq2Callback, timers, calls, tasks, called>>

\* The socket is closed under the session, as by a connect timer that was due
CloseSocket ==
  /\ isOpen /\ isOpen' = FALSE
  /\ NoDrop /\ UNCHANGED <<writeVars, ioStep, seq2Callback, timers, calls, tasks, called, peerSide>>

SessionNext ==
  \/ \E r \in Requests :
       \/ CheckActived(r) \/ AddSeqCallback(r) \/ Send(r) \/ WriteAfterSend(r)
       \/ OnMessage(r) \/ TimerExpires(r) \/ OnTimeout(r) \/ PeerAnswers(r)
  \/ \E t \in tasks : RunCallback(t) \/ RemoveSeqCallback(t)
  \/ OnWrite \/ WriteAfterOnWrite \/ Disconnect \/ FinishDrop \/ CloseSocket

SessionSpec == SessionInit /\ [][SessionNext]_sessionVars

-----------------------------------------------------------------------------
\* Every variable has its type, and a callback is called at most once for each
\* of a response, a timeout and a disconnect.
SessionTypeOK ==
  /\ actived \in BOOLEAN /\ isOpen \in BOOLEAN /\ writing \in BOOLEAN /\ dropping \in BOOLEAN
  /\ writeQueue \in Seq(Requests) /\ posted \in Requests \union {NoMessage}
  /\ ioStep \in {"idle", "write"} /\ seq2Callback \subseteq Requests
  /\ timers \in [Requests -> {"off", "armed", "due"}]
  /\ calls \in [Requests -> {"idle", "checked", "added", "pushed", "done"}]
  /\ tasks \subseteq [req : Requests, why : {"inactive", "response", "timeout", "disconnect"}, ran : BOOLEAN]
  /\ called \in [Requests -> 0 .. 3]
  /\ atPeer \subseteq Requests /\ responses \subseteq Requests

Queued(r) == \E t \in tasks : t.req = r

\* While the session is up a queued message has somebody who will write it: a
\* write in progress, the io thread after one, or the caller that queued it.
\* m_writing is reset outside the lock and the queue is looked at after that.
\* And a request with a timeout is always answered: once asyncSendMessage has
\* returned, its timer runs, or its callback is queued or has been called,
\* in whatever order a disconnect, a timeout and a response happen.
NothingStranded ==
  /\ Actived /\ writeQueue # <<>> =>
       posted # NoMessage \/ ioStep = "write" \/ \E r \in Requests : calls[r] = "pushed"
  /\ \A r \in Timed : calls[r] = "done" => timers[r] # "off" \/ Queued(r) \/ called[r] > 0

\* A response that is read before anything else answered the request is given
\* to its callback: the callback is registered before the request can be sent.
ResponseGiven ==
  [][\A r \in responses \ responses' :
       actived /\ called[r] = 0 /\ ~Queued(r) => Task(r, "response") \in tasks']_sessionVars
===============================================================================
