------------------------------- MODULE Topics -------------------------------
(***************************************************************************)
(* How a node learns which topics the SDKs of another node subscribe to    *)
(* (ChannelRPCServer, Service, P2PSession).  The SDKs of a node set their  *)
(* topics; the node joins them into one list that has a sequence number,   *)
(* and tells the number with every heartbeat.  A peer whose number differs *)
(* asks for the list.  A topic that needs verification is used only after  *)
(* an SDK of the peer has accepted its certificate.                        *)
(*                                                                         *)
(* One direction between two nodes is modelled, the host's list and the    *)
(* peer's copy of it.  The handlers of a session run in a thread pool, so  *)
(* that messages are handled in any order.                                 *)
(***************************************************************************)
EXTENDS Naturals, FiniteSets

CONSTANTS
    TopicNames,     \* the topics SDKs subscribe to
    NeedVerify,     \* those with the prefix topicNeedVerifyPrefix
    CertRoute,      \* the topic over which such a topic is verified
    Sdks,           \* the channel sessions of the host's SDKs
    MaxTopicSeq,    \* bound: the highest sequence number
    MaxTopicFlight  \* bound: no heartbeat while this many messages are handled

ASSUME TopicsAssumption ==
    /\ "not joining" \notin TopicNames
    /\ NeedVerify \subseteq TopicNames
    /\ CertRoute \in [NeedVerify -> TopicNames]
    /\ MaxTopicSeq \in Nat
    /\ MaxTopicFlight \in Nat

VARIABLES
    sdk,        \* each SDK's channel session, and whether _sessions has it
    updates,    \* calls of updateHostTopics that wait for _sessionMutex
    joined,     \* what the one that holds it has joined
    host,       \* the service of the host: m_topics and m_topicSeq
    topicWire,  \* the topic messages between the nodes
    answering,  \* the numbers that RequestTopics handlers have read
    view,       \* the peer's P2PSession: m_topicSeq and m_topics
    applying,   \* lists that were parsed and not yet set
    certs       \* the topics whose certificate is asked for, and accepted

topicsVars == <<sdk, updates, joined, host, topicWire, answering, view, applying, certs>>

NotJoining == {"not joining"}

Statuses == {"verifying", "success", "failed"}

\* Lists of topics with their statuses.
TopicLists == UNION { [ts -> Statuses] : ts \in SUBSET TopicNames }

TopicMessages ==
    [kind: {"seq"}, seq: 0 .. MaxTopicSeq]
    \cup [kind: {"request"}]
    \cup [kind: {"topics"}, seq: 0 .. MaxTopicSeq, topics: SUBSET TopicNames]

NoTopics == [t \in {} |-> "verifying"]

TopicsInit ==
    /\ sdk = [s \in Sdks |-> [in |-> FALSE, topics |-> {}]]
    /\ updates = 0
    /\ joined = NotJoining
    /\ host = [topics |-> {}, seq |-> 0]
    /\ topicWire = {}
    /\ answering = {}
    /\ view = [seq |-> 0, topics |-> NoTopics]
    /\ applying = {}
    /\ certs = [asked |-> {}, accepted |-> {}]

-----------------------------------------------------------------------------
(* The channel server of the host *)

\* onConnect.
ConnectSdk(s) ==
    /\ ~sdk[s].in
    /\ sdk' = [sdk EXCEPT ![s] = [in |-> TRUE, topics |-> {}]]
    /\ UNCHANGED <<updates, joined, host, topicWire, answering, view, applying, certs>>

\* The bound: every update under way has a number left.
NumbersLeft == host.seq + updates + (IF joined = NotJoining THEN 0 ELSE 1) < MaxTopicSeq

\* onClientTopicRequest up to updateHostTopics; the handler may run late,
\* when the session is already gone.
SetSdkTopics(s, ts) ==
    /\ NumbersLeft
    /\ sdk' = [sdk EXCEPT ![s].topics = ts]
    /\ updates' = updates + 1
    /\ UNCHANGED <<joined, host, topicWire, answering, view, applying, certs>>

\* onDisconnect up to updateHostTopics.
DisconnectSdk(s) ==
    /\ sdk[s].in
    /\ NumbersLeft
    /\ sdk' = [sdk EXCEPT ![s].in = FALSE]
    /\ updates' = updates + 1
    /\ UNCHANGED <<joined, host, topicWire, answering, view, applying, certs>>

\* updateHostTopics holds _sessionMutex while it joins the topics of the
\* sessions, which may set other topics meanwhile ...
JoinTopics ==
    /\ updates > 0
    /\ joined = NotJoining
    /\ updates' = updates - 1
    /\ joined' = UNION { sdk[s].topics : s \in { r \in Sdks : sdk[r].in } }
    /\ UNCHANGED <<sdk, host, topicWire, answering, view, applying, certs>>

\* ... and until Service::setTopics has taken them over.
PublishTopics ==
    /\ joined # NotJoining
    /\ host' = [topics |-> joined, seq |-> host.seq + 1]
    /\ joined' = NotJoining
    /\ UNCHANGED <<sdk, updates, topicWire, answering, view, applying, certs>>

-----------------------------------------------------------------------------
(* The sessions between the two nodes *)

\* heartBeat of the host's session.
TopicHeartBeat ==
    /\ Cardinality(topicWire) + Cardinality(answering) + Cardinality(applying) < MaxTopicFlight
    /\ topicWire' = topicWire \cup {[kind |-> "seq", seq |-> host.seq]}
    /\ UNCHANGED <<sdk, updates, joined, host, answering, view, applying, certs>>

\* requestCertTopic: a certificate is asked for when the list has its route.
RequestCertTopic(list) ==
    { t \in DOMAIN list : list[t] = "verifying" /\ CertRoute[t] \in DOMAIN list }

\* Mutant: the number is noted when the list is asked for.
OnTopicSeqNoted(m) ==
    /\ m \in topicWire
    /\ m.kind = "seq"
    /\ m.seq # view.seq
    /\ topicWire' = (topicWire \ {m}) \cup {[kind |-> "request"]}
    /\ view' = [view EXCEPT !.seq = m.seq]
    /\ UNCHANGED <<sdk, updates, joined, host, answering, applying, certs>>

\* onTopicMessage of the peer, for a heartbeat.  The list is asked for when
\* the number differs; otherwise certificates are asked for again.
OnTopicSeq(m) ==
    /\ m \in topicWire
    /\ m.kind = "seq"
    /\ IF m.seq # view.seq
       THEN /\ topicWire' = (topicWire \ {m}) \cup {[kind |-> "request"]}
            /\ UNCHANGED certs
       ELSE /\ topicWire' = topicWire \ {m}
            /\ certs' = [certs EXCEPT !.asked = @ \cup RequestCertTopic(view.topics)]
    /\ UNCHANGED <<sdk, updates, joined, host, answering, view, applying>>

\* onTopicMessage of the host, for a request: the number is read first ...
OnRequestTopics(m) ==
    /\ m \in topicWire
    /\ m.kind = "request"
    /\ topicWire' = topicWire \ {m}
    /\ answering' = answering \cup {host.seq}
    /\ UNCHANGED <<sdk, updates, joined, host, view, applying, certs>>

\* ... and then, by itself, the list.
SendTopics(q) ==
    /\ q \in answering
    /\ answering' = answering \ {q}
    /\ topicWire' = topicWire \cup {[kind |-> "topics", seq |-> q, topics |-> host.topics]}
    /\ UNCHANGED <<sdk, updates, joined, host, view, applying, certs>>

\* parseTopicList: a topic to be verified keeps the status it had.
ParseTopicList(ts, origin) ==
    [t \in ts |-> IF t \notin NeedVerify THEN "success"
                  ELSE IF t \in DOMAIN origin THEN origin[t]
                  ELSE "verifying"]

\* The callback of the peer's request copies and parses its list ...
OnSendTopics(m) ==
    /\ m \in topicWire
    /\ m.kind = "topics"
    /\ topicWire' = topicWire \ {m}
    /\ applying' = applying \cup
                     {[seq |-> m.seq, topics |-> ParseTopicList(m.topics, view.topics)]}
    /\ UNCHANGED <<sdk, updates, joined, host, answering, view, certs>>

\* ... or was called before, with the timeout of 5 seconds.
LateTopics(m) ==
    /\ m \in topicWire
    /\ m.kind = "topics"
    /\ topicWire' = topicWire \ {m}
    /\ UNCHANGED <<sdk, updates, joined, host, answering, view, applying, certs>>

\* P2PSession::setTopics, after which certificates are asked for.
SetViewTopics(a) ==
    /\ a \in applying
    /\ applying' = applying \ {a}
    /\ view' = a
    /\ certs' = [certs EXCEPT !.asked = @ \cup RequestCertTopic(a.topics)]
    /\ UNCHANGED <<sdk, updates, joined, host, topicWire, answering>>

\* updateTopicStatus, with what an SDK of the peer found.  The topics are set
\* again by a callback that had copied them before: then this is lost.
UpdateTopicStatus(t, status) ==
    /\ t \in certs.asked
    /\ certs' = [asked |-> certs.asked \ {t},
                 accepted |-> IF status = "success" THEN certs.accepted \cup {t}
                              ELSE certs.accepted]
    /\ view' = [view EXCEPT !.topics = [u \in DOMAIN view.topics |->
                    IF u = t /\ view.topics[u] = "verifying" THEN status ELSE view.topics[u]]]
    /\ UNCHANGED <<sdk, updates, joined, host, topicWire, answering, applying>>

\* The connection is lost and made again: both sides have a new P2PSession,
\* and what is under way for the old one finds it gone.
ReconnectPeer ==
    /\ topicWire' = {}
    /\ answering' = {}
    /\ applying' = {}
    /\ view' = [seq |-> 0, topics |-> NoTopics]
    /\ UNCHANGED <<sdk, updates, joined, host, certs>>

TopicsNext ==
    \/ \E s \in Sdks : ConnectSdk(s)
    \/ \E s \in Sdks, ts \in SUBSET TopicNames : SetSdkTopics(s, ts)
    \/ \E s \in Sdks : DisconnectSdk(s)
    \/ JoinTopics
    \/ PublishTopics
    \/ TopicHeartBeat
    \/ \E m \in topicWire : OnTopicSeq(m)
    \/ \E m \in topicWire : OnRequestTopics(m)
    \/ \E q \in answering : SendTopics(q)
    \/ \E m \in topicWire : OnSendTopics(m)
    \/ \E m \in topicWire : LateTopics(m)
    \/ \E a \in applying : SetViewTopics(a)
    \/ \E t \in NeedVerify, status \in {"success", "failed"} : UpdateTopicStatus(t, status)
    \/ ReconnectPeer

TopicsSpec == TopicsInit /\ [][TopicsNext]_topicsVars

-----------------------------------------------------------------------------

\* The lists and numbers stay in their ranges.
TopicsTypeOK ==
    /\ sdk \in [Sdks -> [in: BOOLEAN, topics: SUBSET TopicNames]]
    /\ updates \in 0 .. MaxTopicSeq
    /\ joined \in (SUBSET TopicNames) \cup {NotJoining}
    /\ host \in [topics: SUBSET TopicNames, seq: 0 .. MaxTopicSeq]
    /\ topicWire \subseteq TopicMessages
    /\ answering \subseteq 0 .. MaxTopicSeq
    /\ applying \cup {view} \subseteq [seq: 0 .. MaxTopicSeq, topics: TopicLists]
    /\ certs \in [asked: SUBSET NeedVerify, accepted: SUBSET NeedVerify]

\* A peer that has the host's number has the host's list, so that a heartbeat
\* may tell the number alone.  The number and the list of an answer are read
\* one after the other: an answer may have a newer list under an older
\* number, which the next heartbeat repairs, and never the reverse.  With no
\* update under way the host's list is what its SDKs subscribe to, whichever
\* handlers raced.  And no topic that needs verification is used unless its
\* certificate was accepted, also when a list that was copied earlier
\* overwrites the status.
TopicsCurrent ==
    /\ view.seq = host.seq => DOMAIN view.topics = host.topics
    /\ updates = 0 /\ joined = NotJoining =>
          host.topics = UNION { sdk[s].topics : s \in { r \in Sdks : sdk[r].in } }
    /\ \A t \in DOMAIN view.topics \cap NeedVerify :
          view.topics[t] = "success" => t \in certs.accepted
=============================================================================
