-------------------------------- MODULE Peers ---------------------------------
(***************************************************************************)
(* The connections between nodes: Host dials and accepts, Service keeps one *)
(* P2PSession for each peer and dials the static nodes it has none for.     *)
(* A connection has two ends, one in each node, which go through the states *)
(*                                                                         *)
(*   connecting, handshake  the socket is being set up                     *)
(*   task      onConnect is queued on the thread pool                      *)
(*   starting  onConnect has started the session and holds x_sessions      *)
(*   active    the session runs                                            *)
(*   dropped   Session::drop has run, its onMessage task is queued         *)
(*   stopped   P2PSession::stop has run, onDisconnect is to follow         *)
(*   gone      the socket is closed and nobody refers to the session       *)
(*                                                                         *)
(* P2PSession::actived only tells whether the P2PSession was stopped: it is *)
(* true of a session that has been dropped.                                 *)
(***************************************************************************)
EXTENDS Naturals, Sequences

CONSTANTS
  Peerage,  \* the nodes; a node's endpoint is named by the node
  Statics,  \* Statics[n]: the endpoints in n's configuration
  Listers,  \* the nodes that have a whitelist
  MaxConns  \* bound: connections dialled in a behaviour

ASSUME PeersAssumption ==
  Statics \in [Peerage -> SUBSET Peerage] /\ Listers \subseteq Peerage /\ MaxConns \in Nat

VARIABLES
  conns,     \* every connection that was dialled
  sessions,  \* m_sessions[p] of each node, 0 for none
  known,     \* the endpoints of m_staticNodes whose node id is set
  pending,   \* m_pendingConns
  whitelist, \* the peers a node admits
  busy       \* the connection whose onConnect holds x_sessions, or 0

peerVars == <<conns, sessions, known, pending, whitelist, busy>>

Sides == {"client", "server"}
Other(s) == CHOOSE t \in Sides : t # s
ConnIds == 1 .. Len(conns)
Owner(c, s) == conns[c][s]
Peer(c, s) == conns[c][Other(s)]
At(c, s) == conns[c].at[s]
Running == {"starting", "active", "dropped"}

\* n's side of its registered session with p is not stopped
IsConnected(n, p) ==
  /\ sessions[n][p] # 0
  /\ \E s \in Sides : Owner(sessions[n][p], s) = n /\ At(sessions[n][p], s) \in Running

PeersInit ==
  /\ conns = <<>>
  /\ sessions = [n \in Peerage |-> [p \in Peerage |-> 0]]
  /\ known = [n \in Peerage |-> {}]
  /\ pending = [n \in Peerage |-> {}]
  /\ whitelist = [n \in Peerage |-> Peerage]
  /\ busy = [n \in Peerage |-> 0]

Move(c, s, state) == [conns EXCEPT ![c].at[s] = state]

-----------------------------------------------------------------------------
(* Whitelist and heartbeat                                                  *)

\* checkWhitelistAndClearSession: stop and onDisconnect of each session of n
\* with a peer that is not in the list
Unlisted(n, list) == {p \in Peerage \ list : sessions[n][p] # 0}

Cleared(n, list) ==
  [c \in ConnIds |->
     [conns[c] EXCEPT !.at = [s \in Sides |->
        IF Owner(c, s) = n /\ Peer(c, s) \in Unlisted(n, list) /\ sessions[n][Peer(c, s)] = c
        THEN "stopped" ELSE At(c, s)]]]

CheckWhitelistAndClearSession(n, list) ==
  /\ busy[n] = 0
  /\ sessions' = [sessions EXCEPT ![n] = [p \in Peerage |-> IF p \in Unlisted(n, list) THEN 0 ELSE @[p]]]
  /\ known' = [known EXCEPT ![n] = @ \ Unlisted(n, list)]

SetWhitelist(n, list) ==
  /\ CheckWhitelistAndClearSession(n, list)
  /\ whitelist' = [whitelist EXCEPT ![n] = list]
  /\ conns' = Cleared(n, list)
  /\ UNCHANGED <<pending, busy>>

Dialled(n, e) ==
  [client |-> n, server |-> e, at |-> [client |-> "connecting", server |-> "connecting"]]

\* The sequences that name every element of S once, as far as the bound allows
Orders(S) ==
  {q \in UNION {[1 .. k -> S] : k \in {j \in 0 .. MaxConns : Len(conns) + j <= MaxConns}} :
     /\ \A e \in S : \E i \in DOMAIN q : q[i] = e
     /\ \A i, j \in DOMAIN q : q[i] = q[j] => i = j}

\* Every static node but itself and the connected ones; asyncConnect returns
\* when the endpoint is pending.  The whitelist is checked first, which is what
\* the primed variables are about
HeartBeat(n) ==
  /\ CheckWhitelistAndClearSession(n, whitelist[n])
  /\ LET skipped == {e \in known'[n] : e = n \/ (IsConnected(n, e) /\ e \notin Unlisted(n, whitelist[n]))}
     IN  \E dialled \in Orders(Statics[n] \ (skipped \union pending[n])) :
           conns' = Cleared(n, whitelist[n]) \o [i \in DOMAIN dialled |-> Dialled(n, dialled[i])]
  /\ UNCHANGED <<pending, whitelist, busy>>

-----------------------------------------------------------------------------
(* Host: the socket is set up                                               *)

\* The TCP connection is made, or refused
AsyncConnect(c) ==
  /\ At(c, "client") = "connecting"
  /\ \/ /\ conns' = [conns EXCEPT ![c].at = [s \in Sides |-> "handshake"]]
        /\ pending' = [pending EXCEPT ![Owner(c, "client")] = @ \union {Owner(c, "server")}]
     \/ conns' = [conns EXCEPT ![c].at = [s \in Sides |-> "gone"]] /\ UNCHANGED pending
  /\ UNCHANGED <<sessions, known, whitelist, busy>>

\* handshakeClient erases the endpoint whatever the outcome
ErasePendingConns(c, s, ok) ==
  pending' = IF s = "client"
             THEN [pending EXCEPT ![Owner(c, s)] = @ \ {Peer(c, s)}] ELSE pending

\* handshakeClient and handshakeServer.  It fails when the certificate of the
\* peer is not in the whitelist, when the other end is closed, and on a timeout
HandshakeDone(c, s) ==
  /\ At(c, s) = "handshake"
  /\ \E ok \in BOOLEAN :
       /\ ok => Peer(c, s) \in whitelist[Owner(c, s)] /\ At(c, Other(s)) \in {"handshake", "task"} \union Running
       /\ conns' = Move(c, s, IF ok THEN "task" ELSE "gone")
       /\ ErasePendingConns(c, s, ok)
  /\ UNCHANGED <<sessions, known, whitelist, busy>>

-----------------------------------------------------------------------------
(* Service                                                                  *)

\* updateStaticNodes finds the endpoint of a connection that n dialled
UpdateStaticNodes(c, s) ==
  known' = IF s = "client" THEN [known EXCEPT ![Owner(c, s)] = @ \union {Peer(c, s)}] ELSE known

\* A second connection with a peer, or one with the node itself
Duplicate(c, s) ==
  IsConnected(Owner(c, s), Peer(c, s)) \/ Peer(c, s) = Owner(c, s)

\* The session of a duplicate was not started: disconnect does nothing, and
\* its release closes the socket
OnConnect(c, s) ==
  LET n == Owner(c, s)
  IN  /\ At(c, s) = "task" /\ busy[n] = 0
      /\ UpdateStaticNodes(c, s)
      /\ IF Duplicate(c, s)
         THEN conns' = Move(c, s, "gone") /\ UNCHANGED busy
         ELSE conns' = Move(c, s, "starting") /\ busy' = [busy EXCEPT ![n] = c]
      /\ UNCHANGED <<sessions, pending, whitelist>>

\* The end of onConnect.  The io thread may have dropped the session by now
Register(c, s) ==
  LET n == Owner(c, s)
  IN  /\ busy[n] = c /\ busy' = [busy EXCEPT ![n] = 0]
      /\ sessions' = [sessions EXCEPT ![n][Peer(c, s)] = c]
      /\ conns' = IF At(c, s) = "starting" THEN Move(c, s, "active") ELSE conns
      /\ UNCHANGED <<known, pending, whitelist>>

\* Session::drop: a read or write error, or the idle timer
Drop(c, s) ==
  /\ At(c, s) \in {"starting", "active"}
  /\ conns' = Move(c, s, "dropped")
  /\ UNCHANGED <<sessions, known, pending, whitelist, busy>>

\* The task of drop: Service::onMessage with an error stops the P2PSession
StopSession(c, s) ==
  /\ At(c, s) = "dropped"
  /\ conns' = Move(c, s, "stopped")
  /\ UNCHANGED <<sessions, known, pending, whitelist, busy>>

\* Mutant: whatever session the peer has is removed
OnDisconnectAny(c, s) ==
  LET n == Owner(c, s)
      p == Peer(c, s)
  IN  /\ At(c, s) = "stopped" /\ busy[n] = 0
      /\ conns' = Move(c, s, "gone")
      /\ sessions' = [sessions EXCEPT ![n][p] = 0]
      /\ known' = [known EXCEPT ![n] = @ \ {p}]
      /\ UNCHANGED <<pending, whitelist, busy>>

\* Removes the session if it is still the one that is registered
OnDisconnect(c, s) ==
  LET n == Owner(c, s)
      p == Peer(c, s)
  IN  /\ At(c, s) = "stopped" /\ busy[n] = 0
      /\ conns' = Move(c, s, "gone")
      /\ IF sessions[n][p] = c
         THEN /\ sessions' = [sessions EXCEPT ![n][p] = 0]
              /\ known' = [known EXCEPT ![n] = @ \ {p}]
         ELSE UNCHANGED <<sessions, known>>
      /\ UNCHANGED <<pending, whitelist, busy>>

PeersNext ==
  \/ \E n \in Peerage : HeartBeat(n)
  \/ \E n \in Listers : \E list \in SUBSET (Peerage \ {n}) : SetWhitelist(n, list \union {n})
  \/ \E c \in ConnIds :
       \/ AsyncConnect(c)
       \/ \E s \in Sides : HandshakeDone(c, s) \/ OnConnect(c, s) \/ Register(c, s)
                             \/ Drop(c, s) \/ StopSession(c, s) \/ OnDisconnect(c, s)

PeersSpec == PeersInit /\ [][PeersNext]_peerVars

-----------------------------------------------------------------------------
PeerStates == {"connecting", "handshake", "task", "stopped", "gone"} \union Running

\* Every variable has its type; onConnect holds the lock for a session it has
\* started.
PeersTypeOK ==
  /\ conns \in Seq([client : Peerage, server : Peerage, at : [Sides -> PeerStates]])
  /\ sessions \in [Peerage -> [Peerage -> 0 .. Len(conns)]]
  /\ known \in [Peerage -> SUBSET Peerage] /\ pending \in [Peerage -> SUBSET Peerage]
  /\ whitelist \in [Peerage -> SUBSET Peerage] /\ busy \in [Peerage -> 0 .. Len(conns)]
  /\ \A c \in ConnIds, s \in Sides : At(c, s) = "starting" => busy[Owner(c, s)] = c

\* A session that runs is the one Service has registered for its peer, so that
\* messages can be sent on it and its end is noticed; and a registered session
\* that does not run has its onDisconnect still to come.  In particular the
\* late disconnect of an old session leaves a new one alone.
SessionsExact ==
  \A c \in ConnIds, s \in Sides :
    LET n == Owner(c, s)
        p == Peer(c, s)
    IN  /\ At(c, s) \in {"active", "dropped"} /\ busy[n] # c => sessions[n][p] = c
        /\ sessions[n][p] = c /\ n # p => At(c, s) \in {"active", "dropped", "stopped"}
===============================================================================
