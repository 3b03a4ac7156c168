---------------------------- MODULE NetworkProofs -----------------------------
(***************************************************************************)
(* Proofs about the network of a node, for any number of nodes,            *)
(* connections, requests, messages and topics: Service has registered      *)
(* exactly the sessions that run (Peers), a session answers every request  *)
(* it took (Session), and a peer's copy of the topics is current (Topics). *)
(***************************************************************************)
EXTENDS Peers, Session, Topics, TLAPS

\* A leaf that names no prover is for the SMT solver, with a minute of time.
USE SMTT(60)

-----------------------------------------------------------------------------
(***************************************************************************)
(* Peers: the sessions of Service are exact.  onConnect tests for a        *)
(* session and registers its own under one lock, but the io thread drops   *)
(* sessions without it, also the one that is being started.  What makes    *)
(* the late registration and the late onDisconnect harmless is LockAlone.  *)
(***************************************************************************)
\* A connection has two sides.
LEMMA OtherSide == ASSUME NEW s \in Sides PROVE Other(s) \in Sides /\ Other(s) # s
BY DEF Sides, Other

\* A connection of conns.
ConnType == [client : Peerage, server : Peerage, at : [Sides -> PeerStates]]

\* The types of what the sessions are told from.
PeersShape ==
  /\ conns \in Seq(ConnType)
  /\ sessions \in [Peerage -> [Peerage -> 0 .. Len(conns)]]
  /\ busy \in [Peerage -> 0 .. Len(conns)]

\* Both ends wait for the TCP connection, or none does.
BothConnecting ==
  \A c \in ConnIds : At(c, "client") = "connecting" => At(c, "server") = "connecting"

\* No session of a node with itself is started or registered.
NotSelf ==
  /\ \A n \in Peerage : sessions[n][n] = 0
  /\ \A c \in ConnIds, s \in Sides :
       At(c, s) \in Running \union {"stopped"} => Owner(c, s) # Peer(c, s)

\* While onConnect holds the lock for a session no other one with the same peer
\* runs; a session that is being started has the lock.
LockAlone ==
  \A c \in ConnIds, s \in Sides :
    /\ At(c, s) = "starting" => busy[Owner(c, s)] = c
    /\ busy[Owner(c, s)] = c =>
         /\ At(c, s) \in {"starting", "dropped", "stopped"}
         /\ \A d \in ConnIds \ {c}, t \in Sides :
              Owner(d, t) = Owner(c, s) /\ Peer(d, t) = Peer(c, s) => At(d, t) \notin Running

\* SessionsExact at one end of a connection.
Exact(c, s) ==
  /\ At(c, s) \in {"active", "dropped"} /\ busy[Owner(c, s)] # c => sessions[Owner(c, s)][Peer(c, s)] = c
  /\ sessions[Owner(c, s)][Peer(c, s)] = c /\ Owner(c, s) # Peer(c, s) =>
       At(c, s) \in {"active", "dropped", "stopped"}

\* The property is that of all ends.
LEMMA ExactEnds == SessionsExact <=> \A c \in ConnIds, s \in Sides : Exact(c, s)
BY DEF SessionsExact, Exact

\* The inductive invariant.
PeersInv == PeersShape /\ BothConnecting /\ NotSelf /\ LockAlone /\ SessionsExact

\* The nodes at the two ends, and the state of one.
LEMMA EndTypes ==
  ASSUME PeersShape, NEW c \in ConnIds, NEW s \in Sides
  PROVE  Owner(c, s) \in Peerage /\ Peer(c, s) \in Peerage /\ At(c, s) \in PeerStates
<1>1. conns[c] \in ConnType
  BY DEF PeersShape, ConnIds
<1>2. \A t \in Sides : conns[c][t] \in Peerage
  BY <1>1 DEF ConnType, Sides
<1>3. conns[c].at \in [Sides -> PeerStates]
  BY <1>1 DEF ConnType
<1> QED
  BY <1>2, <1>3, OtherSide DEF Owner, Peer, At

\* The side of a connection that a node owns, when its ends differ.
LEMMA Ends ==
  ASSUME NEW c, NEW s \in Sides, NEW t \in Sides, Owner(c, s) = Owner(c, t), Owner(c, s) # Peer(c, s)
  PROVE  s = t
BY OtherSide DEF Owner, Peer, Sides

\* Move changes the state of one end and nothing else.
LEMMA MoveEffect ==
  ASSUME PeersShape, NEW c \in ConnIds, NEW s \in Sides, NEW st \in PeerStates,
         conns' = Move(c, s, st)
  PROVE  /\ conns' \in Seq(ConnType)
         /\ ConnIds' = ConnIds
         /\ \A d \in ConnIds, t \in Sides :
              /\ Owner(d, t)' = Owner(d, t)
              /\ Peer(d, t)' = Peer(d, t)
              /\ At(d, t)' = IF d = c /\ t = s THEN st ELSE At(d, t)
<1>1. conns[c] \in ConnType
  BY DEF PeersShape, ConnIds
<1>2. [conns[c] EXCEPT !.at[s] = st] \in ConnType
  BY <1>1 DEF ConnType
<1>3. conns' = [conns EXCEPT ![c] = [conns[c] EXCEPT !.at[s] = st]]
  BY DEF Move
<1>4. conns' \in Seq(ConnType) /\ Len(conns') = Len(conns)
  BY <1>2, <1>3 DEF PeersShape, ConnIds
<1>5. ASSUME NEW d \in ConnIds, NEW t \in Sides
      PROVE  /\ conns'[d][t] = conns[d][t]
             /\ conns'[d].at[t] = IF d = c /\ t = s THEN st ELSE conns[d].at[t]
  <2> DEFINE r == [conns[c] EXCEPT !.at[s] = st]
  <2>1. conns'[d] = IF d = c THEN r ELSE conns[d]
    BY <1>3 DEF PeersShape, ConnIds
  <2>2. r.client = conns[c].client /\ r.server = conns[c].server
    BY <1>1 DEF ConnType
  <2>3. r.at[t] = IF t = s THEN st ELSE conns[c].at[t]
    BY <1>1 DEF ConnType
  <2>4. r[t] = conns[c][t]
    BY <2>2, ZenonT(60) DEF Sides
  <2> HIDE DEF r
  <2> QED
    BY <2>1, <2>3, <2>4
<1> QED
  BY <1>4, <1>5, OtherSide DEF ConnIds, Owner, Peer, At

\* A dialled connection comes up or fails.
LEMMA SetUp ==
  ASSUME PeersInv, NEW c \in ConnIds, AsyncConnect(c)
  PROVE  PeersInv'
<1>1. PICK st \in {"handshake", "gone"} : conns' = [conns EXCEPT ![c].at = [s \in Sides |-> st]]
  BY DEF AsyncConnect
<1>2. conns[c] \in ConnType
  BY DEF PeersInv, PeersShape, ConnIds
<1> DEFINE r == [conns[c] EXCEPT !.at = [s \in Sides |-> st]]
<1>3. r \in ConnType
  BY <1>2 DEF ConnType, PeerStates
<1>4. r.client = conns[c].client /\ r.server = conns[c].server
  BY <1>2 DEF ConnType
<1>5. r.at = [s \in Sides |-> st]
  BY <1>2 DEF ConnType
<1>6. conns' = [conns EXCEPT ![c] = r]
  BY <1>1
<1>7. \A t \in Sides : r[t] = conns[c][t]
  BY <1>4, ZenonT(60) DEF Sides
<1> HIDE DEF r
<1>8. conns' \in Seq(ConnType) /\ Len(conns') = Len(conns)
  BY <1>3, <1>6 DEF PeersInv, PeersShape, ConnIds
<1>9. ConnIds' = ConnIds
  BY <1>8 DEF ConnIds
<1>10. ASSUME NEW d \in ConnIds, NEW t \in Sides
       PROVE  /\ Owner(d, t)' = Owner(d, t)
              /\ Peer(d, t)' = Peer(d, t)
              /\ At(d, t)' = IF d = c THEN st ELSE At(d, t)
  BY <1>5, <1>6, <1>7, OtherSide DEF PeersInv, PeersShape, ConnIds, Owner, Peer, At
<1>11. \A s \in Sides : At(c, s) = "connecting"
  BY DEF AsyncConnect, PeersInv, BothConnecting, Sides
<1>12. sessions' = sessions /\ busy' = busy
  BY DEF AsyncConnect
<1>13. PeersShape'
  BY <1>8, <1>12 DEF PeersInv, PeersShape
<1>14. BothConnecting'
  BY <1>9, <1>10 DEF PeersInv, BothConnecting, Sides
<1>15. NotSelf'
  BY <1>9, <1>10, <1>12 DEF PeersInv, NotSelf, Running
<1>16. LockAlone'
  BY <1>9, <1>10, <1>11, <1>12 DEF PeersInv, LockAlone, Running
<1>17. SessionsExact'
  <2> SUFFICES ASSUME NEW d \in ConnIds, NEW t \in Sides
               PROVE  /\ At(d, t)' \in {"active", "dropped"} /\ busy'[Owner(d, t)'] # d =>
                            sessions'[Owner(d, t)'][Peer(d, t)'] = d
                      /\ sessions'[Owner(d, t)'][Peer(d, t)'] = d /\ Owner(d, t)' # Peer(d, t)' =>
                            At(d, t)' \in {"active", "dropped", "stopped"}
    BY <1>9 DEF SessionsExact
  <2> QED
    BY <1>10, <1>11, <1>12 DEF PeersInv, SessionsExact
<1> QED
  BY <1>13, <1>14, <1>15, <1>16, <1>17 DEF PeersInv

\* handshakeClient and handshakeServer keep it.
LEMMA HandshakesKeep ==
  ASSUME PeersInv, NEW c \in ConnIds, NEW s \in Sides, HandshakeDone(c, s)
  PROVE  PeersInv'
<1>0. Owner(c, s) \in Peerage /\ Peer(c, s) \in Peerage /\ At(c, s) \in PeerStates
  BY EndTypes DEF PeersInv
<1>1. PICK st \in {"task", "gone"} : conns' = Move(c, s, st)
  BY <1>0 DEF HandshakeDone
<1>2. /\ conns' \in Seq(ConnType)
      /\ ConnIds' = ConnIds
      /\ \A d \in ConnIds, t \in Sides :
           /\ Owner(d, t)' = Owner(d, t)
           /\ Peer(d, t)' = Peer(d, t)
           /\ At(d, t)' = IF d = c /\ t = s THEN st ELSE At(d, t)
  BY <1>1, MoveEffect DEF PeersInv, PeerStates, Running
<1>a. sessions' = sessions /\ busy' = busy
  BY DEF HandshakeDone
<1>b. Len(conns') = Len(conns)
  BY <1>1 DEF Move, PeersInv, PeersShape
<1>3. PeersShape'
  BY <1>a, <1>b, <1>2 DEF PeersInv, PeersShape
<1>4. BothConnecting'
  BY <1>2 DEF PeersInv, BothConnecting, Sides, HandshakeDone, Running
<1>5. NotSelf'
  BY <1>2, <1>a DEF PeersInv, NotSelf, Running, HandshakeDone
<1>6. LockAlone'
  BY <1>2, <1>a DEF PeersInv, LockAlone, Running, HandshakeDone
<1>7. SessionsExact'
  <2> SUFFICES ASSUME NEW d \in ConnIds, NEW t \in Sides
               PROVE  Exact(d, t)'
    BY <1>2 DEF SessionsExact, Exact
  <2>1. Exact(d, t)
    BY ExactEnds DEF PeersInv
  <2> QED
    BY <2>1, <1>0, <1>2, <1>a DEF Exact, HandshakeDone
<1> QED
  BY <1>3, <1>4, <1>5, <1>6, <1>7 DEF PeersInv

\* Session::drop keeps it.
LEMMA DropKeeps ==
  ASSUME PeersInv, NEW c \in ConnIds, NEW s \in Sides, Drop(c, s)
  PROVE  PeersInv'
<1>0. Owner(c, s) \in Peerage /\ Peer(c, s) \in Peerage /\ At(c, s) \in PeerStates
  BY EndTypes DEF PeersInv
<1>1. PICK st \in {"dropped"} : conns' = Move(c, s, st)
  BY <1>0 DEF Drop
<1>2. /\ conns' \in Seq(ConnType)
      /\ ConnIds' = ConnIds
      /\ \A d \in ConnIds, t \in Sides :
           /\ Owner(d, t)' = Owner(d, t)
           /\ Peer(d, t)' = Peer(d, t)
           /\ At(d, t)' = IF d = c /\ t = s THEN st ELSE At(d, t)
  BY <1>1, MoveEffect DEF PeersInv, PeerStates, Running
<1>a. sessions' = sessions /\ busy' = busy
  BY DEF Drop
<1>b. Len(conns') = Len(conns)
  BY <1>1 DEF Move, PeersInv, PeersShape
<1>3. PeersShape'
  BY <1>a, <1>b, <1>2 DEF PeersInv, PeersShape
<1>4. BothConnecting'
  BY <1>2 DEF PeersInv, BothConnecting, Sides, Drop, Running
<1>5. NotSelf'
  BY <1>2, <1>a DEF PeersInv, NotSelf, Running, Drop
<1>6. LockAlone'
  BY <1>2, <1>a DEF PeersInv, LockAlone, Running, Drop
<1>7. SessionsExact'
  <2> SUFFICES ASSUME NEW d \in ConnIds, NEW t \in Sides
               PROVE  Exact(d, t)'
    BY <1>2 DEF SessionsExact, Exact
  <2>1. Exact(d, t)
    BY ExactEnds DEF PeersInv
  <2>2. At(c, s) = "starting" => busy[Owner(c, s)] = c
    BY DEF PeersInv, LockAlone
  <2> QED
    BY <2>1, <2>2, <1>0, <1>2, <1>a DEF Exact, Drop
<1> QED
  BY <1>3, <1>4, <1>5, <1>6, <1>7 DEF PeersInv

\* P2PSession::stop keeps it.
LEMMA StopKeeps ==
  ASSUME PeersInv, NEW c \in ConnIds, NEW s \in Sides, StopSession(c, s)
  PROVE  PeersInv'
<1>0. Owner(c, s) \in Peerage /\ Peer(c, s) \in Peerage /\ At(c, s) \in PeerStates
  BY EndTypes DEF PeersInv
<1>1. PICK st \in {"stopped"} : conns' = Move(c, s, st)
  BY <1>0 DEF StopSession
<1>2. /\ conns' \in Seq(ConnType)
      /\ ConnIds' = ConnIds
      /\ \A d \in ConnIds, t \in Sides :
           /\ Owner(d, t)' = Owner(d, t)
           /\ Peer(d, t)' = Peer(d, t)
           /\ At(d, t)' = IF d = c /\ t = s THEN st ELSE At(d, t)
  BY <1>1, MoveEffect DEF PeersInv, PeerStates, Running
<1>a. sessions' = sessions /\ busy' = busy
  BY DEF StopSession
<1>b. Len(conns') = Len(conns)
  BY <1>1 DEF Move, PeersInv, PeersShape
<1>3. PeersShape'
  BY <1>a, <1>b, <1>2 DEF PeersInv, PeersShape
<1>4. BothConnecting'
  BY <1>2 DEF PeersInv, BothConnecting, Sides, StopSession, Running
<1>5. NotSelf'
  BY <1>2, <1>a DEF PeersInv, NotSelf, Running, StopSession
<1>6. LockAlone'
  BY <1>2, <1>a DEF PeersInv, LockAlone, Running, StopSession
<1>7. SessionsExact'
  <2> SUFFICES ASSUME NEW d \in ConnIds, NEW t \in Sides
               PROVE  Exact(d, t)'
    BY <1>2 DEF SessionsExact, Exact
  <2>1. Exact(d, t)
    BY ExactEnds DEF PeersInv
  <2> QED
    BY <2>1, <1>0, <1>2, <1>a DEF Exact, StopSession
<1> QED
  BY <1>3, <1>4, <1>5, <1>6, <1>7 DEF PeersInv

\* onConnect up to the point where the session is started keeps it.
LEMMA OnConnectKeeps ==
  ASSUME PeersInv, NEW c \in ConnIds, NEW s \in Sides, OnConnect(c, s)
  PROVE  PeersInv'
<1>0. Owner(c, s) \in Peerage /\ Peer(c, s) \in Peerage /\ At(c, s) \in PeerStates
  BY EndTypes DEF PeersInv
<1>1. PICK st \in {"gone", "starting"} :
        /\ conns' = Move(c, s, st)
        /\ st = "gone" => busy' = busy
        /\ st = "starting" => ~Duplicate(c, s) /\ busy' = [busy EXCEPT ![Owner(c, s)] = c]
  BY <1>0 DEF OnConnect
<1>2. /\ conns' \in Seq(ConnType)
      /\ ConnIds' = ConnIds
      /\ \A d \in ConnIds, t \in Sides :
           /\ Owner(d, t)' = Owner(d, t)
           /\ Peer(d, t)' = Peer(d, t)
           /\ At(d, t)' = IF d = c /\ t = s THEN st ELSE At(d, t)
  BY <1>1, MoveEffect DEF PeersInv, PeerStates, Running
<1>a. sessions' = sessions /\ busy[Owner(c, s)] = 0 /\ At(c, s) = "task"
  BY DEF OnConnect
<1>b. Len(conns') = Len(conns) /\ c # 0
  BY <1>1 DEF Move, PeersInv, PeersShape, ConnIds
<1>c. busy' \in [Peerage -> 0 .. Len(conns)]
  BY <1>1 DEF PeersInv, PeersShape, ConnIds
<1>d. \A n \in Peerage : busy'[n] = IF st = "starting" /\ n = Owner(c, s) THEN c ELSE busy[n]
  BY <1>1 DEF PeersInv, PeersShape
<1>e. ASSUME st = "starting", NEW d \in ConnIds, NEW t \in Sides,
             Owner(d, t) = Owner(c, s), Peer(d, t) = Peer(c, s)
      PROVE  At(d, t) \notin Running
  <2>1. At(d, t) # "starting"
    BY <1>a, <1>b, <1>e DEF PeersInv, LockAlone, ConnIds
  <2>2. At(d, t) \in {"active", "dropped"} => sessions[Owner(c, s)][Peer(c, s)] = d
    BY <1>a, <1>e, ExactEnds DEF PeersInv, Exact, ConnIds
  <2>3. ~IsConnected(Owner(c, s), Peer(c, s))
    BY <1>1, <1>e DEF Duplicate
  <2> QED
    BY <2>1, <2>2, <2>3, <1>e DEF IsConnected, Running, ConnIds
<1>f. st = "starting" => Owner(c, s) # Peer(c, s)
  BY <1>1 DEF Duplicate
<1>g. \A d \in ConnIds, t \in Sides : Owner(d, t) \in Peerage /\ Peer(d, t) \in Peerage
  BY EndTypes DEF PeersInv
<1>3. PeersShape'
  BY <1>a, <1>b, <1>c, <1>2 DEF PeersInv, PeersShape
<1>4. BothConnecting'
  BY <1>2, <1>a DEF PeersInv, BothConnecting, Sides
<1>5. NotSelf'
  BY <1>2, <1>a, <1>f DEF PeersInv, NotSelf, Running
<1>6. LockAlone'
  <2> SUFFICES ASSUME NEW d \in ConnIds, NEW t \in Sides
               PROVE  /\ At(d, t)' = "starting" => busy'[Owner(d, t)] = d
                      /\ busy'[Owner(d, t)] = d =>
                           /\ At(d, t)' \in {"starting", "dropped", "stopped"}
                           /\ \A e \in ConnIds \ {d}, u \in Sides :
                                Owner(e, u) = Owner(d, t) /\ Peer(e, u) = Peer(d, t) =>
                                  At(e, u)' \notin Running
    BY <1>2 DEF LockAlone
  <2>1. CASE st = "gone"
    BY <2>1, <1>1, <1>2, <1>a DEF PeersInv, LockAlone, Running
  <2>2. CASE st = "starting" /\ Owner(d, t) # Owner(c, s)
    BY <2>2, <1>2, <1>d, <1>g, <1>a DEF PeersInv, LockAlone, Running
  <2>3. CASE st = "starting" /\ Owner(d, t) = Owner(c, s)
    <3>1. busy'[Owner(d, t)] = c
      BY <2>3, <1>d, <1>0
    <3>2. At(d, t)' = "starting" => d = c
      BY <2>3, <1>2, <1>a, <1>b DEF PeersInv, LockAlone, ConnIds
    <3>3. d = c => t = s
      BY <2>3, <1>f, <1>g, Ends DEF PeersInv
    <3> QED
      BY <2>3, <3>1, <3>2, <3>3, <1>2, <1>e
  <2> QED
    BY <2>1, <2>2, <2>3
<1>7. SessionsExact'
  <2> SUFFICES ASSUME NEW d \in ConnIds, NEW t \in Sides
               PROVE  Exact(d, t)'
    BY <1>2 DEF SessionsExact, Exact
  <2>1. Exact(d, t) /\ Exact(c, s)
    BY ExactEnds DEF PeersInv
  <2> QED
    BY <2>1, <1>0, <1>2, <1>a, <1>d, <1>g, <1>1, <1>b DEF Exact, ConnIds
<1> QED
  BY <1>3, <1>4, <1>5, <1>6, <1>7 DEF PeersInv

\* The end of onConnect keeps it, also if the session was dropped meanwhile.
LEMMA RegisterKeeps ==
  ASSUME PeersInv, NEW c \in ConnIds, NEW s \in Sides, Register(c, s)
  PROVE  PeersInv'
<1> DEFINE st == IF At(c, s) = "starting" THEN "active" ELSE At(c, s)
<1>0. Owner(c, s) \in Peerage /\ Peer(c, s) \in Peerage /\ At(c, s) \in PeerStates
  BY EndTypes DEF PeersInv
<1>1. /\ conns' \in Seq(ConnType) /\ Len(conns') = Len(conns)
      /\ ConnIds' = ConnIds
      /\ \A d \in ConnIds, t \in Sides :
           /\ Owner(d, t)' = Owner(d, t)
           /\ Peer(d, t)' = Peer(d, t)
           /\ At(d, t)' = IF d = c /\ t = s THEN st ELSE At(d, t)
  <2>1. CASE At(c, s) = "starting"
    <3>1. conns' = Move(c, s, "active")
      BY <2>1 DEF Register
    <3>2. Len(conns') = Len(conns)
      BY <3>1 DEF Move, PeersInv, PeersShape
    <3> QED
      BY <2>1, <3>1, <3>2, MoveEffect DEF PeersInv, PeerStates, Running
  <2>2. CASE At(c, s) # "starting"
    <3>1. conns' = conns
      BY <2>2 DEF Register
    <3> QED
      BY <2>2, <3>1 DEF PeersInv, PeersShape, ConnIds, Owner, Peer, At
  <2> QED
    BY <2>1, <2>2
<1>2. \A d \in ConnIds, t \in Sides : Owner(d, t) \in Peerage /\ Peer(d, t) \in Peerage
  BY EndTypes DEF PeersInv
<1>3. /\ busy[Owner(c, s)] = c
      /\ c \in 1 .. Len(conns) /\ c # 0
      /\ busy' = [busy EXCEPT ![Owner(c, s)] = 0]
      /\ sessions' = [sessions EXCEPT ![Owner(c, s)][Peer(c, s)] = c]
  BY DEF Register, ConnIds, PeersInv, PeersShape
<1>4. /\ busy' \in [Peerage -> 0 .. Len(conns)]
      /\ sessions' \in [Peerage -> [Peerage -> 0 .. Len(conns)]]
  BY <1>0, <1>3 DEF PeersInv, PeersShape
<1>5. \A n \in Peerage : busy'[n] = IF n = Owner(c, s) THEN 0 ELSE busy[n]
  BY <1>3 DEF PeersInv, PeersShape
<1>6. \A n, p \in Peerage :
        sessions'[n][p] = IF n = Owner(c, s) /\ p = Peer(c, s) THEN c ELSE sessions[n][p]
  BY <1>0, <1>3, ZenonT(60) DEF PeersInv, PeersShape
<1>7. At(c, s) \in {"starting", "dropped", "stopped"} /\ st \in {"active", "dropped", "stopped"}
  BY <1>3 DEF PeersInv, LockAlone
<1>8. \A d \in ConnIds \ {c}, t \in Sides :
        Owner(d, t) = Owner(c, s) /\ Peer(d, t) = Peer(c, s) => At(d, t) \notin Running
  BY <1>3 DEF PeersInv, LockAlone
<1>9. Owner(c, s) # Peer(c, s)
  BY <1>7 DEF PeersInv, NotSelf, Running
<1>10. \A t \in Sides : Owner(c, t) = Owner(c, s) => t = s
  BY <1>9, Ends
<1>11. \A d \in ConnIds, t \in Sides : Owner(d, t) = Owner(c, s) /\ At(d, t) = "starting" => d = c /\ t = s
  BY <1>3, <1>10 DEF PeersInv, LockAlone
<1> HIDE DEF st
<1>12. PeersShape'
  BY <1>1, <1>4 DEF PeersShape
<1>13. BothConnecting'
  BY <1>1, <1>7 DEF PeersInv, BothConnecting, Sides
<1>14. NotSelf'
  <2>1. \A n \in Peerage : sessions'[n][n] = 0
    BY <1>6, <1>9 DEF PeersInv, NotSelf
  <2> QED
    BY <2>1, <1>1, <1>9 DEF PeersInv, NotSelf
<1>15. LockAlone'
  <2> SUFFICES ASSUME NEW d \in ConnIds, NEW t \in Sides
               PROVE  /\ At(d, t)' = "starting" => busy'[Owner(d, t)] = d
                      /\ busy'[Owner(d, t)] = d =>
                           /\ At(d, t)' \in {"starting", "dropped", "stopped"}
                           /\ \A e \in ConnIds \ {d}, u \in Sides :
                                Owner(e, u) = Owner(d, t) /\ Peer(e, u) = Peer(d, t) =>
                                  At(e, u)' \notin Running
    BY <1>1 DEF LockAlone
  <2>1. CASE Owner(d, t) = Owner(c, s)
    <3>1. busy'[Owner(d, t)] = 0 /\ d # 0
      BY <2>1, <1>0, <1>5 DEF ConnIds
    <3> QED
      BY <2>1, <3>1, <1>1, <1>7, <1>11
  <2>2. CASE Owner(d, t) # Owner(c, s)
    <3>1. busy'[Owner(d, t)] = busy[Owner(d, t)]
      BY <2>2, <1>2, <1>5
    <3>2. \A e \in ConnIds, u \in Sides : Owner(e, u) = Owner(d, t) => At(e, u)' = At(e, u)
      BY <2>2, <1>1
    <3> QED
      BY <3>1, <3>2 DEF PeersInv, LockAlone
  <2> QED
    BY <2>1, <2>2
<1>16. SessionsExact'
  <2> SUFFICES ASSUME NEW d \in ConnIds, NEW t \in Sides
               PROVE  Exact(d, t)'
    BY <1>1 DEF SessionsExact, Exact
  <2>1. Exact(d, t)
    BY ExactEnds DEF PeersInv
  <2>2. CASE d = c /\ t = s
    BY <2>2, <1>0, <1>1, <1>6, <1>7 DEF Exact
  <2>3. CASE Owner(d, t) = Owner(c, s) /\ Peer(d, t) = Peer(c, s) /\ ~(d = c /\ t = s)
    <3>1. d # c
      BY <2>3, <1>10
    <3> QED
      BY <2>3, <3>1, <1>0, <1>1, <1>6, <1>8 DEF Exact, Running
  <2>4. CASE ~(Owner(d, t) = Owner(c, s) /\ Peer(d, t) = Peer(c, s)) /\ ~(d = c /\ t = s)
    <3>1. /\ sessions'[Owner(d, t)][Peer(d, t)] = sessions[Owner(d, t)][Peer(d, t)]
          /\ At(d, t)' = At(d, t)
      BY <2>4, <1>1, <1>2, <1>6
    <3>2. busy'[Owner(d, t)] # d => busy[Owner(d, t)] # d \/ d = c
      BY <1>2, <1>3, <1>5
    <3> QED
      BY <2>1, <2>4, <3>1, <3>2, <1>1, <1>10, <1>2, <1>5 DEF Exact
  <2> QED
    BY <2>2, <2>3, <2>4
<1> QED
  BY <1>12, <1>13, <1>14, <1>15, <1>16 DEF PeersInv

\* onDisconnect keeps it: it removes no session but its own.
LEMMA DisconnectKeeps ==
  ASSUME PeersInv, NEW c \in ConnIds, NEW s \in Sides, OnDisconnect(c, s)
  PROVE  PeersInv'
<1>0. Owner(c, s) \in Peerage /\ Peer(c, s) \in Peerage
  BY EndTypes DEF PeersInv
<1>1. conns' = Move(c, s, "gone") /\ At(c, s) = "stopped" /\ busy[Owner(c, s)] = 0 /\ busy' = busy
  BY DEF OnDisconnect
<1>2. /\ conns' \in Seq(ConnType)
      /\ ConnIds' = ConnIds
      /\ \A d \in ConnIds, t \in Sides :
           /\ Owner(d, t)' = Owner(d, t)
           /\ Peer(d, t)' = Peer(d, t)
           /\ At(d, t)' = IF d = c /\ t = s THEN "gone" ELSE At(d, t)
  BY <1>1, MoveEffect DEF PeersInv, PeerStates
<1>3. Len(conns') = Len(conns)
  BY <1>1 DEF Move, PeersInv, PeersShape
<1>4. sessions' = IF sessions[Owner(c, s)][Peer(c, s)] = c
                  THEN [sessions EXCEPT ![Owner(c, s)][Peer(c, s)] = 0] ELSE sessions
  BY DEF OnDisconnect
<1>a. 0 \in 0 .. Len(conns)
  BY DEF PeersInv, PeersShape
<1>b. sessions \in [Peerage -> [Peerage -> 0 .. Len(conns)]]
  BY DEF PeersInv, PeersShape
<1>5. sessions' \in [Peerage -> [Peerage -> 0 .. Len(conns)]]
  BY <1>0, <1>4, <1>a, <1>b
<1>6. \A n, p \in Peerage :
        sessions'[n][p] = IF n = Owner(c, s) /\ p = Peer(c, s) /\ sessions[n][p] = c
                          THEN 0 ELSE sessions[n][p]
  BY <1>0, <1>4, ZenonT(60) DEF PeersInv, PeersShape
<1>7. \A d \in ConnIds, t \in Sides : Owner(d, t) \in Peerage /\ Peer(d, t) \in Peerage
  BY EndTypes DEF PeersInv
<1>8. Owner(c, s) # Peer(c, s)
  BY <1>1 DEF PeersInv, NotSelf
<1>9. \A t \in Sides : Owner(c, t) = Owner(c, s) => t = s
  BY <1>8, Ends
<1>12. PeersShape'
  BY <1>1, <1>2, <1>3, <1>5 DEF PeersInv, PeersShape
<1>13. BothConnecting'
  BY <1>1, <1>2 DEF PeersInv, BothConnecting, Sides
<1>14. NotSelf'
  BY <1>2, <1>6 DEF PeersInv, NotSelf, Running
<1>15. LockAlone'
  <2>1. \A d \in ConnIds : d # 0
    BY DEF ConnIds
  <2> QED
    BY <2>1, <1>1, <1>2, <1>9 DEF PeersInv, LockAlone, Running
<1>16. SessionsExact'
  <2> SUFFICES ASSUME NEW d \in ConnIds, NEW t \in Sides
               PROVE  Exact(d, t)'
    BY <1>2 DEF SessionsExact, Exact
  <2>1. Exact(d, t) /\ d # 0
    BY ExactEnds DEF PeersInv, ConnIds
  <2>2. CASE d = c /\ t = s
    BY <2>1, <2>2, <1>0, <1>1, <1>2, <1>6 DEF Exact
  <2>3. CASE ~(d = c /\ t = s)
    <3>1. At(d, t)' = At(d, t) /\ (d = c => Owner(d, t) # Owner(c, s))
      BY <2>3, <1>2, <1>9
    <3>2. sessions'[Owner(d, t)][Peer(d, t)] = d <=> sessions[Owner(d, t)][Peer(d, t)] = d
      BY <2>1, <3>1, <1>6, <1>7
    <3> QED
      BY <2>1, <3>1, <3>2, <1>1, <1>2 DEF Exact
  <2> QED
    BY <2>2, <2>3
<1> QED
  BY <1>12, <1>13, <1>14, <1>15, <1>16 DEF PeersInv

\* A cleared connection: its sides with peers that are not listed are stopped.
LEMMA ClearedEnds ==
  ASSUME PeersInv, NEW n \in Peerage, NEW list, NEW c \in ConnIds
  PROVE  /\ Cleared(n, list)[c] \in ConnType
         /\ \A t \in Sides :
              /\ Cleared(n, list)[c][t] = conns[c][t]
              /\ Cleared(n, list)[c].at[t] =
                   IF Owner(c, t) = n /\ Peer(c, t) \in Unlisted(n, list) /\ sessions[n][Peer(c, t)] = c
                   THEN "stopped" ELSE At(c, t)
<1> DEFINE a == [s \in Sides |->
                  IF Owner(c, s) = n /\ Peer(c, s) \in Unlisted(n, list) /\ sessions[n][Peer(c, s)] = c
                  THEN "stopped" ELSE At(c, s)]
<1>1. Cleared(n, list)[c] = [conns[c] EXCEPT !.at = a]
  BY DEF Cleared
<1>2. a \in [Sides -> PeerStates]
  BY EndTypes DEF PeersInv, PeerStates
<1>3. conns[c] \in ConnType
  BY DEF PeersInv, PeersShape, ConnIds
<1>4. \A t \in Sides :
        a[t] = IF Owner(c, t) = n /\ Peer(c, t) \in Unlisted(n, list) /\ sessions[n][Peer(c, t)] = c
               THEN "stopped" ELSE At(c, t)
  OBVIOUS
<1> HIDE DEF a
<1> DEFINE r == [conns[c] EXCEPT !.at = a]
<1>5. r \in ConnType /\ r.at = a /\ r.client = conns[c].client /\ r.server = conns[c].server
  BY <1>2, <1>3 DEF ConnType
<1>6. \A t \in Sides : r[t] = conns[c][t]
  BY <1>5, ZenonT(60) DEF Sides
<1>7. Cleared(n, list)[c] = r
  BY <1>1
<1> HIDE DEF r
<1> QED
  BY <1>4, <1>5, <1>6, <1>7

\* Clearing the sessions with peers that are not listed keeps it, whether or not
\* new connections are dialled.
LEMMA ClearKeeps ==
  ASSUME PeersInv, NEW n \in Peerage, NEW list, CheckWhitelistAndClearSession(n, list), busy' = busy,
         conns' \in Seq(ConnType), Len(conns) <= Len(conns'),
         \A c \in ConnIds : conns'[c] = Cleared(n, list)[c],
         \A c \in ConnIds' \ ConnIds : \E e \in Peerage : conns'[c] = Dialled(n, e)
  PROVE  PeersInv'
<1> DEFINE Stopped(d, t) ==
             Owner(d, t) = n /\ Peer(d, t) \in Unlisted(n, list) /\ sessions[n][Peer(d, t)] = d
<1>1. ConnIds \subseteq ConnIds' /\ \A d \in ConnIds : d \in 1 .. Len(conns)
  BY DEF ConnIds, PeersInv, PeersShape
<1>2. ASSUME NEW d \in ConnIds, NEW t \in Sides
      PROVE  /\ Owner(d, t)' = Owner(d, t)
             /\ Peer(d, t)' = Peer(d, t)
             /\ At(d, t)' = IF Stopped(d, t) THEN "stopped" ELSE At(d, t)
  BY <1>2, ClearedEnds, OtherSide DEF Owner, Peer, At
<1>3. ASSUME NEW d \in ConnIds' \ ConnIds, NEW t \in Sides
      PROVE  At(d, t)' = "connecting"
  <2>1. PICK e \in Peerage : conns'[d] = Dialled(n, e)
    OBVIOUS
  <2>2. Dialled(n, e).at[t] = "connecting"
    BY DEF Dialled, Sides
  <2> QED
    BY <2>1, <2>2 DEF At
<1>4. \A d \in ConnIds' \ ConnIds : d > Len(conns)
  BY DEF ConnIds, PeersInv, PeersShape
<1>5. \A d \in ConnIds, t \in Sides : Owner(d, t) \in Peerage /\ Peer(d, t) \in Peerage
  BY EndTypes DEF PeersInv
<1>6. busy[n] = 0
  BY DEF CheckWhitelistAndClearSession
<1>7. \A m, p \in Peerage :
        sessions'[m][p] = IF m = n /\ p \in Unlisted(n, list) THEN 0 ELSE sessions[m][p]
  BY DEF CheckWhitelistAndClearSession, PeersInv, PeersShape
<1>8. 0 .. Len(conns) \subseteq 0 .. Len(conns') /\ 0 \in 0 .. Len(conns)
  BY DEF PeersInv, PeersShape
<1>9. /\ sessions' \in [Peerage -> [Peerage -> 0 .. Len(conns)]]
      /\ busy' \in [Peerage -> 0 .. Len(conns)]
  BY <1>8 DEF CheckWhitelistAndClearSession, PeersInv, PeersShape
<1>10. ASSUME NEW d \in ConnIds, NEW t \in Sides, Stopped(d, t)
       PROVE  At(d, t) \in {"active", "dropped", "stopped"} /\ Owner(d, t) # Peer(d, t)
  <2>1. Peer(d, t) # n
    BY <1>10 DEF Unlisted, PeersInv, NotSelf
  <2> QED
    BY <1>10, <2>1, ExactEnds DEF PeersInv, Exact
<1>11. \A d \in ConnIds' \ ConnIds, t \in Sides : Owner(d, t)' \in Peerage /\ Peer(d, t)' \in Peerage
  <2> SUFFICES ASSUME NEW d \in ConnIds' \ ConnIds, NEW t \in Sides
               PROVE  conns'[d][t] \in Peerage
    BY OtherSide DEF Owner, Peer
  <2>1. PICK e \in Peerage : conns'[d] = Dialled(n, e)
    OBVIOUS
  <2> QED
    BY <2>1 DEF Dialled, Sides
<1> HIDE DEF Stopped
<1>12. PeersShape'
  BY <1>8, <1>9 DEF PeersShape
<1>13. BothConnecting'
  BY <1>1, <1>2, <1>3, <1>10, ZenonT(60) DEF PeersInv, BothConnecting, Sides
<1>14. NotSelf'
  <2>1. \A m \in Peerage : sessions'[m][m] = 0
    BY <1>7, ZenonT(60) DEF PeersInv, NotSelf
  <2>2. ASSUME NEW d \in ConnIds', NEW t \in Sides, At(d, t)' \in Running \union {"stopped"}
        PROVE  Owner(d, t)' # Peer(d, t)'
    <3>1. d \in ConnIds
      BY <1>3, <2>2 DEF Running
    <3>2. Owner(d, t)' = Owner(d, t) /\ Peer(d, t)' = Peer(d, t)
      BY <1>2, <3>1, ZenonT(60)
    <3>3. Stopped(d, t) \/ At(d, t) \in Running \union {"stopped"}
      BY <1>2, <2>2, <3>1, ZenonT(60)
    <3>4. Owner(d, t) # Peer(d, t)
      BY <1>10, <3>1, <3>3, ZenonT(60) DEF PeersInv, NotSelf
    <3> QED
      BY <3>2, <3>4, ZenonT(60)
  <2> QED
    BY <2>1, <2>2, ZenonT(60) DEF NotSelf
<1>15. LockAlone'
  <2> SUFFICES ASSUME NEW d \in ConnIds', NEW t \in Sides
               PROVE  /\ At(d, t)' = "starting" => busy[Owner(d, t)'] = d
                      /\ busy[Owner(d, t)'] = d =>
                           /\ At(d, t)' \in {"starting", "dropped", "stopped"}
                           /\ \A e \in ConnIds' \ {d}, u \in Sides :
                                Owner(e, u)' = Owner(d, t)' /\ Peer(e, u)' = Peer(d, t)' =>
                                  At(e, u)' \notin Running
    BY ZenonT(60) DEF LockAlone
  <2>1. CASE d \in ConnIds
    <3>1. At(d, t) = "starting" => ~Stopped(d, t)
      BY <2>1, <1>10, ZenonT(60)
    <3>2. busy[Owner(d, t)] = d => ~Stopped(d, t)
      BY <2>1, <1>1, <1>6 DEF Stopped
    <3>3. \A e \in ConnIds, u \in Sides : At(e, u)' \in Running => At(e, u) \in Running
      BY <1>2, ZenonT(60) DEF Running
    <3>4. \A e \in ConnIds' \ ConnIds, u \in Sides : At(e, u)' \notin Running
      BY <1>3 DEF Running
    <3>5. /\ Owner(d, t)' = Owner(d, t) /\ Peer(d, t)' = Peer(d, t)
          /\ At(d, t)' = IF Stopped(d, t) THEN "stopped" ELSE At(d, t)
      BY <2>1, <1>2, ZenonT(60)
    <3>6. LockAlone
      BY DEF PeersInv
    <3>7. At(d, t)' = "starting" => busy[Owner(d, t)] = d
      BY <2>1, <3>5, <3>6, ZenonT(60) DEF LockAlone
    <3>8. busy[Owner(d, t)] = d => At(d, t)' \in {"starting", "dropped", "stopped"}
      BY <2>1, <3>5, <3>6, ZenonT(60) DEF LockAlone
    <3>9. ASSUME busy[Owner(d, t)] = d, NEW e \in ConnIds' \ {d}, NEW u \in Sides,
                 Owner(e, u)' = Owner(d, t), Peer(e, u)' = Peer(d, t)
          PROVE  At(e, u)' \notin Running
      <4>1. CASE e \in ConnIds
        <5>1. Owner(e, u) = Owner(d, t) /\ Peer(e, u) = Peer(d, t)
          BY <1>2, <3>9, <4>1, ZenonT(60)
        <5>2. At(e, u) \notin Running
          BY <2>1, <3>6, <3>9, <4>1, <5>1, ZenonT(60) DEF LockAlone
        <5> QED
          BY <3>3, <4>1, <5>2, ZenonT(60)
      <4>2. CASE e \notin ConnIds
        BY <3>4, <3>9, <4>2, ZenonT(60)
      <4> QED
        BY <4>1, <4>2
    <3> QED
      BY <3>5, <3>7, <3>8, <3>9, ZenonT(60)
  <2>2. CASE d \notin ConnIds
    <3>1. busy[Owner(d, t)'] \in 0 .. Len(conns) /\ d > Len(conns)
      BY <2>2, <1>4, <1>11 DEF PeersInv, PeersShape
    <3>2. busy[Owner(d, t)'] # d
      BY <3>1 DEF PeersInv, PeersShape
    <3> QED
      BY <2>2, <3>2, <1>3
  <2> QED
    BY <2>1, <2>2, ZenonT(60)
<1>16. SessionsExact'
  <2> SUFFICES ASSUME NEW d \in ConnIds', NEW t \in Sides
               PROVE  Exact(d, t)'
    BY ZenonT(60) DEF SessionsExact, Exact
  <2>1. CASE d \in ConnIds
    <3>1. Exact(d, t) /\ d # 0
      BY <2>1, <1>1, ExactEnds DEF PeersInv
    <3>2. CASE Stopped(d, t)
      BY <2>1, <3>2, <1>2, <1>5, <1>7, ZenonT(60) DEF Exact
    <3>3. CASE ~Stopped(d, t)
      <4>1. At(d, t)' = At(d, t) /\ Owner(d, t)' = Owner(d, t) /\ Peer(d, t)' = Peer(d, t)
        BY <2>1, <3>3, <1>2, ZenonT(60)
      <4>2. sessions'[Owner(d, t)][Peer(d, t)] = d <=> sessions[Owner(d, t)][Peer(d, t)] = d
        BY <2>1, <3>1, <3>3, <1>5, <1>7, ZenonT(60) DEF Stopped
      <4> QED
        BY <3>1, <4>1, <4>2, ZenonT(60) DEF Exact
    <3> QED
      BY <3>2, <3>3, ZenonT(60)
  <2>2. CASE d \notin ConnIds
    <3>1. sessions'[Owner(d, t)'][Peer(d, t)'] \in 0 .. Len(conns) /\ d > Len(conns)
      BY <2>2, <1>4, <1>9, <1>11
    <3>2. sessions'[Owner(d, t)'][Peer(d, t)'] # d
      BY <3>1 DEF PeersInv, PeersShape
    <3> QED
      BY <2>2, <3>2, <1>3, ZenonT(60) DEF Exact
  <2> QED
    BY <2>1, <2>2
<1> QED
  BY <1>12, <1>13, <1>14, <1>15, <1>16 DEF PeersInv

\* What joining two sequences gives.
LEMMA Joining ==
  ASSUME NEW S, NEW a \in Seq(S), NEW b \in Seq(S)
  PROVE  /\ a \o b \in Seq(S) /\ Len(a \o b) = Len(a) + Len(b)
         /\ \A i \in 1 .. Len(a) : (a \o b)[i] = a[i]
         /\ \A i \in Len(a) + 1 .. Len(a) + Len(b) : (a \o b)[i] = b[i - Len(a)]
OBVIOUS

\* Clearing leaves as many connections as there were.
LEMMA ClearedSeq ==
  ASSUME PeersInv, NEW n \in Peerage, NEW list
  PROVE  /\ Len(conns) \in Nat
         /\ Cleared(n, list) \in Seq(ConnType) /\ Len(Cleared(n, list)) = Len(conns)
<1>1. Len(conns) \in Nat /\ \A c \in 1 .. Len(conns) : Cleared(n, list)[c] \in ConnType
  BY ClearedEnds DEF PeersInv, PeersShape, ConnIds
<1>2. Cleared(n, list) = [c \in 1 .. Len(conns) |-> Cleared(n, list)[c]]
  BY DEF Cleared, ConnIds
<1> QED
  BY <1>1, <1>2

\* setWhitelist keeps it.
LEMMA WhitelistKeeps ==
  ASSUME PeersInv, NEW n \in Peerage, NEW list, SetWhitelist(n, list)
  PROVE  PeersInv'
<1>1. CheckWhitelistAndClearSession(n, list) /\ conns' = Cleared(n, list) /\ busy' = busy
  BY DEF SetWhitelist
<1>2. conns' \in Seq(ConnType) /\ Len(conns') = Len(conns) /\ Len(conns) \in Nat
  BY <1>1, ClearedSeq, ZenonT(60)
<1>3. Len(conns) <= Len(conns') /\ ConnIds' = ConnIds
  BY <1>2 DEF ConnIds
<1> QED
  BY <1>1, <1>2, <1>3, ClearKeeps, ZenonT(60)

\* heartBeat keeps it.
LEMMA HeartBeatKeeps ==
  ASSUME PeersInv, NEW n \in Peerage, HeartBeat(n)
  PROVE  PeersInv'
<1> DEFINE list == whitelist[n]
           new(seq) == [i \in DOMAIN seq |-> Dialled(n, seq[i])]
<1>a. PICK S \in SUBSET Statics[n] : \E q \in Orders(S) : conns' = Cleared(n, list) \o new(q)
  BY ZenonT(60) DEF HeartBeat
<1>1. PICK q \in Orders(S) : conns' = Cleared(n, list) \o new(q)
  BY <1>a, ZenonT(60)
<1>b. PICK k \in 0 .. MaxConns : q \in [1 .. k -> S]
  BY <1>1, ZenonT(60) DEF Orders
<1>2. CheckWhitelistAndClearSession(n, list) /\ busy' = busy
  BY DEF HeartBeat
<1>4. k \in Nat /\ q \in [1 .. k -> Peerage]
  BY <1>b, PeersAssumption
<1>5. \A e \in Peerage : Dialled(n, e) \in ConnType
  BY DEF Dialled, ConnType, Sides, PeerStates
<1>6. new(q) \in Seq(ConnType) /\ Len(new(q)) = k /\ \A i \in 1 .. k : new(q)[i] = Dialled(n, q[i])
  BY <1>4, <1>5
<1> HIDE DEF list
<1>7. Len(conns) \in Nat
  BY ClearedSeq, ZenonT(60)
<1>9. Cleared(n, list) \in Seq(ConnType) /\ Len(Cleared(n, list)) = Len(conns)
  BY ClearedSeq, ZenonT(60)
<1> HIDE DEF new
<1>11. /\ conns' \in Seq(ConnType) /\ Len(conns') = Len(conns) + k
       /\ \A c \in 1 .. Len(conns) : conns'[c] = Cleared(n, list)[c]
       /\ \A c \in Len(conns) + 1 .. Len(conns) + k : conns'[c] = new(q)[c - Len(conns)]
  <2> DEFINE a == Cleared(n, list)
             b == new(q)
  <2>1. a \in Seq(ConnType) /\ b \in Seq(ConnType) /\ Len(a) = Len(conns) /\ Len(b) = k /\ conns' = a \o b
    BY <1>1, <1>6, <1>9
  <2> HIDE DEF a, b
  <2>2. /\ a \o b \in Seq(ConnType) /\ Len(a \o b) = Len(a) + Len(b)
        /\ \A c \in 1 .. Len(a) : (a \o b)[c] = a[c]
        /\ \A c \in Len(a) + 1 .. Len(a) + Len(b) : (a \o b)[c] = b[c - Len(a)]
    BY <2>1, Joining, ZenonT(60)
  <2>3. /\ conns' \in Seq(ConnType) /\ Len(conns') = Len(conns) + k
        /\ \A c \in 1 .. Len(conns) : conns'[c] = a[c]
        /\ \A c \in Len(conns) + 1 .. Len(conns) + k : conns'[c] = b[c - Len(conns)]
    BY <2>1, <2>2, ZenonT(60)
  <2> QED
    BY <2>3, ZenonT(60) DEF a, b
<1>12. ASSUME NEW c \in ConnIds' \ ConnIds
       PROVE  \E e \in Peerage : conns'[c] = Dialled(n, e)
  <2>1. c \in Len(conns) + 1 .. Len(conns) + k /\ c - Len(conns) \in 1 .. k
    BY <1>4, <1>7, <1>11 DEF ConnIds
  <2>2. conns'[c] = Dialled(n, q[c - Len(conns)]) /\ q[c - Len(conns)] \in Peerage
    BY <2>1, <1>4, <1>6, <1>11
  <2> QED
    BY <2>2
<1>13. Len(conns) <= Len(conns')
  BY <1>4, <1>7, <1>11
<1>14. \A c \in ConnIds : conns'[c] = Cleared(n, list)[c]
  BY <1>11, ZenonT(60) DEF ConnIds
<1> QED
  BY <1>2, <1>11, <1>12, <1>13, <1>14, ClearKeeps, ZenonT(60)

\* Whatever connections are made, dropped and doubled, in any number: a session
\* that runs is the one Service has for its peer, and the late onDisconnect of
\* an old one does not touch it.
THEOREM SessionsStayExact == PeersSpec => []SessionsExact
<1>1. PeersInit => PeersInv
  BY DEF PeersInit, PeersInv, PeersShape, BothConnecting, NotSelf, LockAlone, SessionsExact, ConnIds
<1>2. PeersInv /\ [PeersNext]_peerVars => PeersInv'
  <2> SUFFICES ASSUME PeersInv, [PeersNext]_peerVars
               PROVE  PeersInv'
    OBVIOUS
  <2>1. CASE \E n \in Peerage : HeartBeat(n)
    BY <2>1, HeartBeatKeeps
  <2>2. CASE \E n \in Listers : \E list \in SUBSET (Peerage \ {n}) : SetWhitelist(n, list \union {n})
    BY <2>2, WhitelistKeeps, PeersAssumption
  <2>3. CASE \E c \in ConnIds : AsyncConnect(c)
    BY <2>3, SetUp
  <2>4. CASE \E c \in ConnIds, s \in Sides : HandshakeDone(c, s) \/ OnConnect(c, s) \/ Register(c, s)
    BY <2>4, HandshakesKeep, OnConnectKeeps, RegisterKeeps
  <2>5. CASE \E c \in ConnIds, s \in Sides : Drop(c, s) \/ StopSession(c, s) \/ OnDisconnect(c, s)
    BY <2>5, DropKeeps, StopKeeps, DisconnectKeeps
  <2>6. CASE UNCHANGED peerVars
    <3>1. conns' = conns /\ sessions' = sessions /\ busy' = busy
      BY <2>6 DEF peerVars
    <3>2. /\ ConnIds' = ConnIds
          /\ \A c, s : Owner(c, s)' = Owner(c, s) /\ Peer(c, s)' = Peer(c, s) /\ At(c, s)' = At(c, s)
      BY <3>1 DEF ConnIds, Owner, Peer, At
    <3>3. PeersShape' /\ BothConnecting' /\ NotSelf'
      BY <3>1, <3>2 DEF PeersInv, PeersShape, BothConnecting, NotSelf
    <3>4. LockAlone'
      BY <3>1, <3>2 DEF PeersInv, LockAlone
    <3>5. SessionsExact'
      BY <3>1, <3>2 DEF PeersInv, SessionsExact
    <3> QED
      BY <3>3, <3>4, <3>5 DEF PeersInv
  <2> QED
    BY <2>1, <2>2, <2>3, <2>4, <2>5, <2>6 DEF PeersNext
<1>3. PeersInv => SessionsExact
  BY DEF PeersInv
<1> QED
  BY <1>1, <1>2, <1>3, PTL DEF PeersSpec

-----------------------------------------------------------------------------
(***************************************************************************)
(* Session: a message is written and a request answered, for any number of *)
(* requests and in whatever order responses, timeouts and a disconnect     *)
(* come.                                                                   *)
(***************************************************************************)
Tasks == [req: Requests, why: {"inactive", "response", "timeout", "disconnect"}, ran: BOOLEAN]

SessionShape ==
    /\ actived \in BOOLEAN /\ isOpen \in BOOLEAN /\ writing \in BOOLEAN
    /\ writeQueue \in Seq(Requests) /\ posted \in Requests \cup {NoMessage}
    /\ seq2Callback \subseteq Requests
    /\ timers \in [Requests -> {"off", "armed", "due"}]
    /\ calls \in [Requests -> {"idle", "checked", "added", "pushed", "done"}]
    /\ tasks \subseteq Tasks
    /\ called \in [Requests -> Nat]
    /\ atPeer \subseteq Requests /\ responses \subseteq Requests

\* m_writing is set only while a message is with asyncWrite.
WriterSet == Actived /\ writing => posted # NoMessage

\* A queued message of a live session has somebody who will write it.
QueueServed ==
    Actived /\ writeQueue # <<>> =>
        posted # NoMessage \/ ioStep = "write" \/ \E r \in Requests : calls[r] = "pushed"

\* asyncSendMessage has come past the test of actived, or is over.
Entered(r) == calls[r] \in {"added", "pushed", "done"}

\* The callback of a request is with the thread pool, or has run.
Answered(r) == Queued(r) \/ called[r] > 0

\* A task that has run has called the callback.
RanCalled == \A t \in tasks : t.ran => called[t.req] > 0

\* A callback that is not registered any more has been dealt with, and so has
\* one whose timer is off.
CallbackKept == \A r \in Requests : Entered(r) => r \in seq2Callback \/ Answered(r)

\* A request with a timeout has a timer until it is answered.
TimerKept == \A r \in Timed : Entered(r) => timers[r] # "off" \/ Answered(r)

\* A request is registered before it can be sent.
OnItsWay(r) ==
    r \in atPeer \/ r \in responses \/ r = posted \/ \E i \in DOMAIN writeQueue : writeQueue[i] = r

RegisteredFirst == \A r \in Requests : OnItsWay(r) => calls[r] \in {"pushed", "done"}

\* The inductive invariant.
SessionInv ==
    /\ SessionShape /\ WriterSet /\ QueueServed /\ RanCalled
    /\ CallbackKept /\ TimerKept /\ RegisteredFirst

\* What is queued on the thread pool.
LEMMA TaskType ==
    /\ \A r \in Requests : \A why \in {"inactive", "response", "timeout", "disconnect"} :
          Task(r, why) \in Tasks /\ Task(r, why).req = r /\ ~Task(r, why).ran
    /\ \A t \in Tasks : /\ t.req \in Requests
                        /\ [t EXCEPT !.ran = TRUE] \in Tasks
                        /\ [t EXCEPT !.ran = TRUE].req = t.req
                        /\ [t EXCEPT !.ran = TRUE].ran
BY ZenonT(60) DEF Task, Tasks

\* The types are kept.
LEMMA SessionShapeKept ==
    ASSUME SessionInv, SessionNext
    PROVE  SessionShape'
<1> USE DEF SessionInv, SessionShape, writeVars, peerSide, NoDrop
<1>1. ASSUME NEW r \in Requests, CheckActived(r) PROVE SessionShape'
  <2>1. Task(r, "inactive") \in Tasks
    BY TaskType
  <2>2. CASE Actived
    BY <1>1, <2>2 DEF CheckActived
  <2>3. CASE ~Actived
    BY <1>1, <2>1, <2>3 DEF CheckActived
  <2> QED
    BY <2>2, <2>3
<1>2. ASSUME NEW r \in Requests, AddSeqCallback(r) PROVE SessionShape'
  <2>1. timers' \in [Requests -> {"off", "armed", "due"}]
    BY <1>2 DEF AddSeqCallback
  <2> QED
    BY <1>2, <2>1 DEF AddSeqCallback
<1>3. ASSUME NEW r \in Requests, Send(r) PROVE SessionShape'
  <2>1. writeQueue' \in {writeQueue, Append(writeQueue, r)}
    BY <1>3 DEF Send
  <2>a. writeQueue \in Seq(Requests) /\ Append(writeQueue, r) \in Seq(Requests)
    OBVIOUS
  <2>2. writeQueue' \in Seq(Requests)
    BY <2>1, <2>a, ZenonT(60)
  <2> QED
    BY <1>3, <2>2, ZenonT(60) DEF Send
<1>a. ASSUME Write PROVE /\ writing' \in BOOLEAN /\ writeQueue' \in Seq(Requests)
                         /\ posted' \in Requests \cup {NoMessage}
  <2>1. CASE UNCHANGED <<writing, posted, writeQueue>>
    BY <2>1
  <2>2. CASE /\ writeQueue # <<>> /\ writing' = TRUE /\ posted' = Head(writeQueue)
             /\ writeQueue' = Tail(writeQueue)
    BY <2>2
  <2> QED
    BY <1>a, <2>1, <2>2, ZenonT(60) DEF Write
<1>4. ASSUME NEW r \in Requests, WriteAfterSend(r) PROVE SessionShape'
  BY <1>4, <1>a DEF WriteAfterSend
<1>5. ASSUME NEW r \in Requests, OnMessage(r) PROVE SessionShape'
  <2>1. /\ timers' \in [Requests -> {"off", "armed", "due"}]
        /\ tasks' \subseteq Tasks /\ responses' \subseteq Requests
    BY <1>5, TaskType DEF OnMessage, Cancelled
  <2> QED
    BY <1>5, <2>1 DEF OnMessage
<1>6. ASSUME NEW r \in Requests, TimerExpires(r) \/ OnTimeout(r) \/ PeerAnswers(r)
      PROVE  SessionShape'
  <2>1. timers' \in [Requests -> {"off", "armed", "due"}]
    BY <1>6, ZenonT(60) DEF TimerExpires, OnTimeout, PeerAnswers
  <2>2. Task(r, "timeout") \in Tasks
    BY TaskType
  <2>3. tasks' \in {tasks, tasks \cup {Task(r, "timeout")}}
    BY <1>6, ZenonT(60) DEF TimerExpires, OnTimeout, PeerAnswers
  <2>4. tasks' \subseteq Tasks
    BY <2>2, <2>3
  <2> QED
    BY <1>6, <2>1, <2>4 DEF TimerExpires, OnTimeout, PeerAnswers
<1>7. ASSUME NEW t \in tasks, RunCallback(t) PROVE SessionShape'
  <2>1. t.req \in Requests /\ [t EXCEPT !.ran = TRUE] \in Tasks
    BY TaskType
  <2>2. called' \in [Requests -> Nat]
    BY <1>7, <2>1 DEF RunCallback
  <2>3. tasks' \subseteq Tasks
    BY <1>7, <2>1, ZenonT(60) DEF RunCallback
  <2> QED
    BY <1>7, <2>2, <2>3 DEF RunCallback
<1>8. ASSUME NEW t \in tasks, RemoveSeqCallback(t) PROVE SessionShape'
  BY <1>8 DEF RemoveSeqCallback
<1>9. CASE OnWrite
  BY <1>9, ZenonT(60) DEF OnWrite, BeginDrop
<1>10. CASE WriteAfterOnWrite
  BY <1>10, <1>a DEF WriteAfterOnWrite
<1>11. CASE Disconnect \/ FinishDrop \/ CloseSocket
  <2>1. tasks' \subseteq Tasks /\ timers' \in [Requests -> {"off", "armed", "due"}]
    BY <1>11, TaskType DEF Disconnect, FinishDrop, CloseSocket, BeginDrop, Cancelled
  <2> QED
    BY <1>11, <2>1, ZenonT(60) DEF Disconnect, FinishDrop, CloseSocket, BeginDrop
<1> QED
  BY <1>1, <1>2, <1>3, <1>4, <1>5, <1>6, <1>7, <1>8, <1>9, <1>10, <1>11, ZenonT(60) DEF SessionNext

\* More tasks and no fewer calls leave a request answered.
LEMMA MoreAnswered ==
    ASSUME SessionInv, tasks \subseteq tasks', UNCHANGED called
    PROVE  \A r \in Requests : Answered(r) => Answered(r)'
BY DEF Answered, Queued

\* A task that ran leaves its request answered.
LEMMA RanAnswered ==
    ASSUME SessionInv, NEW t \in tasks, RunCallback(t) \/ RemoveSeqCallback(t)
    PROVE  /\ \A r \in Requests : Answered(r) => Answered(r)'
           /\ Answered(t.req)'
           /\ RanCalled'
<1> USE DEF SessionInv, SessionShape
<1>1. t.req \in Requests /\ [t EXCEPT !.ran = TRUE].req = t.req /\ called[t.req] \in Nat
  BY TaskType, ZenonT(60)
<1>2. called'[t.req] > 0
  <2>1. CASE RunCallback(t)
    BY <1>1, <2>1 DEF RunCallback
  <2>2. CASE RemoveSeqCallback(t)
    BY <1>1, <2>2 DEF RemoveSeqCallback, RanCalled
  <2> QED
    BY <2>1, <2>2
<1>3. \A r \in Requests : r # t.req => called'[r] = called[r]
  BY <1>1 DEF RunCallback, RemoveSeqCallback
<1>4. tasks \ {t} \subseteq tasks' /\ tasks' \subseteq tasks \cup {[t EXCEPT !.ran = TRUE]}
  BY DEF RunCallback, RemoveSeqCallback
<1>5. Answered(t.req)'
  BY <1>2 DEF Answered
<1>6. ASSUME NEW r \in Requests, Answered(r), r # t.req
      PROVE  Answered(r)'
  <2>1. CASE called[r] > 0
    BY <1>3, <1>6, <2>1 DEF Answered
  <2>2. CASE \E u \in tasks : u.req = r
    BY <1>4, <1>6, <2>2 DEF Answered, Queued
  <2> QED
    BY <1>6, <2>1, <2>2 DEF Answered, Queued
<1>7. RanCalled'
  <2> SUFFICES ASSUME NEW u \in tasks', u.ran
               PROVE  called'[u.req] > 0
    BY DEF RanCalled
  <2>1. CASE u.req = t.req
    BY <1>2, <2>1
  <2>2. CASE u.req # t.req
    <3>1. u \in tasks
      BY <1>1, <1>4, <2>2, ZenonT(60)
    <3>2. u.req \in Requests /\ called[u.req] > 0
      BY <3>1, TaskType, ZenonT(60) DEF RanCalled
    <3> QED
      BY <1>3, <2>2, <3>2
  <2> QED
    BY <2>1, <2>2
<1> QED
  BY <1>5, <1>6, <1>7

\* Tasks that are queued have not run.
LEMMA QueueAnswered ==
    ASSUME SessionInv, UNCHANGED called, tasks \subseteq tasks',
           \A t \in tasks' \ tasks : ~t.ran
    PROVE  RanCalled'
BY DEF SessionInv, RanCalled

\* Who enters is registered with a timer; who leaves has been answered.
LEMMA CallbacksKept ==
    ASSUME SessionInv, SessionNext
    PROVE  RanCalled' /\ CallbackKept' /\ TimerKept'
<1> USE SessionAssumption DEF SessionInv, SessionShape
<1> DEFINE Goal == RanCalled' /\ CallbackKept' /\ TimerKept'
<1>a. ASSUME UNCHANGED <<seq2Callback, timers, tasks, called>>,
             \A r \in Requests : Entered(r)' => Entered(r)
      PROVE  Goal
  BY <1>a, MoreAnswered, ZenonT(60) DEF RanCalled, CallbackKept, TimerKept
<1>1. ASSUME NEW r \in Requests, CheckActived(r) PROVE Goal
  <2>1. CASE Actived
    <3>1. \A q \in Requests : Entered(q)' => Entered(q)
      BY <1>1, <2>1 DEF CheckActived, Entered
    <3> QED
      BY <1>1, <1>a, <2>1, <3>1 DEF CheckActived
  <2>2. CASE ~Actived
    <3>1. /\ UNCHANGED <<seq2Callback, timers, called>>
          /\ tasks' = tasks \cup {Task(r, "inactive")}
      BY <1>1, <2>2 DEF CheckActived
    <3>2. Answered(r)' /\ RanCalled'
      BY <3>1, TaskType, QueueAnswered DEF Answered, Queued
    <3>3. \A q \in Requests : q # r /\ Entered(q)' => Entered(q)
      BY <1>1, <2>2 DEF CheckActived, Entered
    <3> QED
      BY <3>1, <3>2, <3>3, MoreAnswered DEF CallbackKept, TimerKept
  <2> QED
    BY <2>1, <2>2
<1>2. ASSUME NEW r \in Requests, AddSeqCallback(r) PROVE Goal
  <2>1. /\ UNCHANGED <<tasks, called>> /\ seq2Callback' = seq2Callback \cup {r}
        /\ \A q \in Requests : q # r => timers'[q] = timers[q] /\ (Entered(q)' => Entered(q))
        /\ r \in Timed => timers'[r] = "armed"
    BY <1>2 DEF AddSeqCallback, Entered
  <2> QED
    BY <2>1, MoreAnswered, QueueAnswered, ZenonT(60) DEF CallbackKept, TimerKept
<1>3. ASSUME NEW r \in Requests, Send(r) \/ WriteAfterSend(r) PROVE Goal
  <2>1. \A q \in Requests : Entered(q)' => Entered(q)
    BY <1>3 DEF Send, WriteAfterSend, Entered
  <2> QED
    BY <1>3, <1>a, <2>1 DEF Send, WriteAfterSend
<1>4. ASSUME NEW r \in Requests, OnMessage(r) PROVE Goal
  <2>1. CASE UNCHANGED <<timers, tasks>>
    BY <1>4, <1>a, <2>1 DEF OnMessage, Entered
  <2>2. CASE timers' = Cancelled({r}) /\ tasks' = tasks \cup {Task(r, "response")}
    <3>1. Answered(r)' /\ RanCalled'
      BY <1>4, <2>2, TaskType, QueueAnswered DEF Answered, Queued, OnMessage
    <3>2. \A q \in Requests : q # r => timers'[q] = timers[q]
      BY <2>2 DEF Cancelled
    <3> QED
      BY <1>4, <2>2, <3>1, <3>2, MoreAnswered, ZenonT(60) DEF CallbackKept, TimerKept, OnMessage, Entered
  <2> QED
    BY <1>4, <2>1, <2>2 DEF OnMessage
<1>5. ASSUME NEW r \in Requests, TimerExpires(r) PROVE Goal
  <2>1. /\ UNCHANGED <<tasks, called, seq2Callback, calls>>
        /\ \A q \in Requests : timers'[q] = "off" => timers[q] = "off"
    BY <1>5 DEF TimerExpires
  <2> QED
    BY <2>1, MoreAnswered, QueueAnswered, ZenonT(60) DEF CallbackKept, TimerKept, Entered
<1>6. ASSUME NEW r \in Requests, OnTimeout(r) PROVE Goal
  <2>1. /\ UNCHANGED <<called, seq2Callback, calls>>
        /\ \A q \in Requests : q # r => timers'[q] = timers[q]
    BY <1>6 DEF OnTimeout
  <2>2. tasks \subseteq tasks' /\ \A t \in tasks' \ tasks : ~t.ran
    BY <1>6, TaskType DEF OnTimeout
  <2>3. r \in seq2Callback => Answered(r)'
    BY <1>6, TaskType DEF OnTimeout, Answered, Queued
  <2> QED
    BY <2>1, <2>2, <2>3, MoreAnswered, QueueAnswered, ZenonT(60) DEF CallbackKept, TimerKept, Entered
<1>7. CASE FinishDrop
  <2>1. UNCHANGED <<called, calls>>
    BY <1>7 DEF FinishDrop
  <2>2. tasks \subseteq tasks' /\ \A t \in tasks' \ tasks : ~t.ran
    BY <1>7, TaskType DEF FinishDrop
  <2>3. \A q \in seq2Callback : Answered(q)'
    BY <1>7, TaskType DEF FinishDrop, Answered, Queued
  <2>4. \A q \in Requests \ seq2Callback : timers'[q] = timers[q]
    BY <1>7 DEF FinishDrop, Cancelled
  <2> QED
    BY <2>1, <2>2, <2>3, <2>4, MoreAnswered, QueueAnswered, ZenonT(60) DEF CallbackKept, TimerKept, Entered
<1>8. ASSUME NEW t \in tasks, RunCallback(t) \/ RemoveSeqCallback(t) PROVE Goal
  <2>1. UNCHANGED <<calls, timers>> /\ seq2Callback \ {t.req} \subseteq seq2Callback'
    BY <1>8 DEF RunCallback, RemoveSeqCallback
  <2> QED
    BY <1>8, <2>1, RanAnswered, ZenonT(60) DEF CallbackKept, TimerKept, Entered
<1>9. ASSUME NEW r \in Requests, PeerAnswers(r) PROVE Goal
  BY <1>9, <1>a DEF PeerAnswers, Entered
<1>10. CASE OnWrite \/ WriteAfterOnWrite \/ Disconnect \/ CloseSocket
  BY <1>10, <1>a DEF OnWrite, WriteAfterOnWrite, Disconnect, CloseSocket, Entered
<1> QED
  BY <1>1, <1>2, <1>3, <1>4, <1>5, <1>6, <1>7, <1>8, <1>9, <1>10 DEF SessionNext

\* write takes the first message of the queue if none is being written.
LEMMA WriteKeeps ==
    ASSUME SessionInv, Write, UNCHANGED <<actived, isOpen>>
    PROVE  /\ WriterSet'
           /\ Actived' /\ writeQueue' # <<>> => posted' # NoMessage
           /\ posted' = posted \/ \E i \in DOMAIN writeQueue : posted' = writeQueue[i]
           /\ \A i \in DOMAIN writeQueue' : \E j \in DOMAIN writeQueue : writeQueue'[i] = writeQueue[j]
<1> USE SessionAssumption DEF SessionInv, SessionShape
<1>1. CASE UNCHANGED writeVars /\ (~Actived \/ writing \/ writeQueue = <<>>)
  BY <1>1 DEF writeVars, WriterSet, Actived
<1>2. CASE /\ writeQueue # <<>> /\ posted' = Head(writeQueue) /\ writeQueue' = Tail(writeQueue)
  <2>1. posted' = writeQueue[1] /\ 1 \in DOMAIN writeQueue /\ posted' \in Requests
    BY <1>2
  <2>2. \A i \in DOMAIN writeQueue' : i + 1 \in DOMAIN writeQueue /\ writeQueue'[i] = writeQueue[i + 1]
    BY <1>2
  <2> QED
    BY <2>1, <2>2 DEF WriterSet
<1> QED
  BY <1>1, <1>2 DEF Write

\* Somebody writes what is queued, and only what has been registered.
LEMMA WritesKept ==
    ASSUME SessionInv, SessionNext
    PROVE  WriterSet' /\ QueueServed' /\ RegisteredFirst'
<1> USE SessionAssumption DEF SessionInv, SessionShape, writeVars, peerSide, NoDrop
<1> DEFINE Goal == WriterSet' /\ QueueServed' /\ RegisteredFirst'
<1>a. ASSUME UNCHANGED <<writeQueue, writing, posted, ioStep, atPeer>>,
             Actived' => Actived, responses' \subseteq responses,
             \A q \in Requests : calls'[q] = calls[q] \/ calls[q] \in {"idle", "checked"}
      PROVE  Goal
  <2>1. WriterSet' /\ QueueServed'
    BY <1>a, ZenonT(60) DEF WriterSet, QueueServed
  <2>2. \A q \in Requests : OnItsWay(q)' => OnItsWay(q)
    BY <1>a DEF OnItsWay
  <2> QED
    BY <1>a, <2>1, <2>2, ZenonT(60) DEF RegisteredFirst
<1>1. ASSUME NEW r \in Requests,
             \/ CheckActived(r) \/ AddSeqCallback(r) \/ OnMessage(r)
             \/ TimerExpires(r) \/ OnTimeout(r)
      PROVE  Goal
  <2>1. \A q \in Requests : calls'[q] = calls[q] \/ calls[q] \in {"idle", "checked"}
    BY <1>1 DEF CheckActived, AddSeqCallback, OnMessage, TimerExpires, OnTimeout
  <2>2. UNCHANGED <<writeQueue, writing, posted, ioStep, atPeer, actived, isOpen>>
        /\ responses' \subseteq responses
    BY <1>1, ZenonT(60) DEF CheckActived, AddSeqCallback, OnMessage, TimerExpires, OnTimeout
  <2> QED
    BY <1>a, <2>1, <2>2 DEF Actived
<1>2. ASSUME NEW t \in tasks, RunCallback(t) \/ RemoveSeqCallback(t)
      PROVE  Goal
  BY <1>2, <1>a DEF RunCallback, RemoveSeqCallback, Actived
<1>3. CASE Disconnect \/ FinishDrop \/ CloseSocket
  BY <1>3, <1>a DEF Disconnect, FinishDrop, CloseSocket, BeginDrop, Actived
<1>4. ASSUME NEW r \in Requests, Send(r) PROVE Goal
  <2>1. UNCHANGED <<actived, isOpen, writing, posted, ioStep, atPeer, responses>>
    BY <1>4 DEF Send
  <2>2. CASE ~Actived
    <3>1. ~Actived'
      BY <2>1, <2>2 DEF Actived
    <3>2. UNCHANGED writeQueue /\ calls' = [calls EXCEPT ![r] = "done"]
      BY <1>4, <2>2 DEF Send
    <3>3. \A q \in Requests : OnItsWay(q)' => OnItsWay(q)
      BY <2>1, <3>2 DEF OnItsWay
    <3> QED
      BY <3>1, <3>2, <3>3 DEF WriterSet, QueueServed, RegisteredFirst
  <2>3. CASE Actived
    <3>1. writeQueue' = Append(writeQueue, r) /\ calls' = [calls EXCEPT ![r] = "pushed"]
      BY <1>4, <2>3 DEF Send
    <3>2. calls'[r] = "pushed" /\ \A q \in Requests : q # r => calls'[q] = calls[q]
      BY <3>1
    <3>3. \A i \in DOMAIN writeQueue' :
            writeQueue'[i] = r \/ \E j \in DOMAIN writeQueue : writeQueue'[i] = writeQueue[j]
      BY <3>1
    <3>4. \A q \in Requests : q # r /\ OnItsWay(q)' => OnItsWay(q)
      BY <2>1, <3>3 DEF OnItsWay
    <3>5. WriterSet' /\ QueueServed'
      BY <2>1, <3>2 DEF WriterSet, QueueServed, Actived
    <3> QED
      BY <3>2, <3>4, <3>5, ZenonT(60) DEF RegisteredFirst
  <2> QED
    BY <2>2, <2>3
<1>5. ASSUME NEW r \in Requests, WriteAfterSend(r) PROVE Goal
  <2>1. /\ UNCHANGED <<actived, isOpen, ioStep, atPeer, responses>> /\ Write
        /\ calls[r] = "pushed" /\ calls' = [calls EXCEPT ![r] = "done"]
    BY <1>5 DEF WriteAfterSend
  <2>2. \A q \in Requests : OnItsWay(q)' => OnItsWay(q)
    <3>1. atPeer' = atPeer /\ responses' = responses
      BY <2>1, ZenonT(60)
    <3>2. /\ posted' = posted \/ \E i \in DOMAIN writeQueue : posted' = writeQueue[i]
          /\ \A i \in DOMAIN writeQueue' : \E j \in DOMAIN writeQueue : writeQueue'[i] = writeQueue[j]
      BY <2>1, WriteKeeps
    <3> QED
      BY <3>1, <3>2, ZenonT(60) DEF OnItsWay
  <2>3. RegisteredFirst'
    BY <2>1, <2>2 DEF RegisteredFirst
  <2> QED
    BY <2>1, <2>3, WriteKeeps DEF QueueServed
<1>6. CASE WriteAfterOnWrite
  <2>1. UNCHANGED <<actived, isOpen, calls, atPeer, responses>> /\ Write
    BY <1>6 DEF WriteAfterOnWrite
  <2>2. \A q \in Requests : OnItsWay(q)' => OnItsWay(q)
    <3>1. atPeer' = atPeer /\ responses' = responses
      BY <2>1, ZenonT(60)
    <3>2. /\ posted' = posted \/ \E i \in DOMAIN writeQueue : posted' = writeQueue[i]
          /\ \A i \in DOMAIN writeQueue' : \E j \in DOMAIN writeQueue : writeQueue'[i] = writeQueue[j]
      BY <2>1, WriteKeeps
    <3> QED
      BY <3>1, <3>2, ZenonT(60) DEF OnItsWay
  <2>3. RegisteredFirst'
    BY <2>1, <2>2 DEF RegisteredFirst
  <2> QED
    BY <2>1, <2>3, WriteKeeps DEF QueueServed
<1>7. CASE OnWrite
  <2>1. UNCHANGED <<writeQueue, calls, responses, isOpen>> /\ atPeer' \subseteq atPeer \cup {posted}
        /\ posted' = NoMessage
    BY <1>7 DEF OnWrite
  <2>2. \A q \in Requests : OnItsWay(q)' => OnItsWay(q)
    BY <2>1 DEF OnItsWay
  <2>3. RegisteredFirst'
    BY <2>1, <2>2 DEF RegisteredFirst
  <2>4. ~Actived' \/ (writing' = FALSE /\ ioStep' = "write")
    BY <1>7 DEF OnWrite, BeginDrop, Actived
  <2> QED
    BY <2>3, <2>4, ZenonT(60) DEF WriterSet, QueueServed
<1>8. ASSUME NEW r \in Requests, PeerAnswers(r) PROVE Goal
  <2>1. /\ UNCHANGED <<actived, isOpen, calls, writeQueue, writing, posted, ioStep>>
        /\ atPeer' \subseteq atPeer /\ responses' \subseteq responses \cup atPeer
    BY <1>8 DEF PeerAnswers
  <2>2. \A q \in Requests : OnItsWay(q)' => OnItsWay(q)
    BY <2>1, ZenonT(60) DEF OnItsWay
  <2> QED
    BY <2>1, <2>2 DEF RegisteredFirst, WriterSet, QueueServed, Actived
<1> QED
  BY <1>1, <1>2, <1>3, <1>4, <1>5, <1>6, <1>7, <1>8 DEF SessionNext

\* The invariant holds in every state of a session.
LEMMA SessionInvariance == SessionSpec => []SessionInv
<1>1. SessionInit => SessionInv
  <2> SUFFICES ASSUME SessionInit PROVE SessionInv
    OBVIOUS
  <2>1. SessionShape
    <3>1. /\ timers \in [Requests -> {"off", "armed", "due"}]
          /\ calls \in [Requests -> {"idle", "checked", "added", "pushed", "done"}]
          /\ called \in [Requests -> Nat]
      BY DEF SessionInit
    <3>2. /\ actived \in BOOLEAN /\ isOpen \in BOOLEAN /\ writing \in BOOLEAN
      BY ZenonT(60) DEF SessionInit
    <3>3. <<>> \in Seq(Requests)
      OBVIOUS
    <3> QED
      BY <3>1, <3>2, <3>3 DEF SessionInit, SessionShape
  <2>2. WriterSet /\ QueueServed /\ RanCalled
    BY DEF SessionInit, WriterSet, QueueServed, RanCalled
  <2>3. CallbackKept /\ TimerKept
    BY SessionAssumption DEF SessionInit, CallbackKept, TimerKept, Entered
  <2>4. RegisteredFirst
    BY SessionAssumption DEF SessionInit, RegisteredFirst, OnItsWay
  <2> QED
    BY <2>1, <2>2, <2>3, <2>4 DEF SessionInv
<1>2. SessionInv /\ [SessionNext]_sessionVars => SessionInv'
  <2>1. CASE SessionNext
    BY <2>1, SessionShapeKept, CallbacksKept, WritesKept DEF SessionInv
  <2>2. CASE UNCHANGED sessionVars
    BY <2>2, ZenonT(60) DEF sessionVars, SessionInv, SessionShape, WriterSet, QueueServed, RanCalled,
         CallbackKept, TimerKept, RegisteredFirst, Entered, OnItsWay, Actived, Answered, Queued
  <2> QED
    BY <2>1, <2>2
<1> QED
  BY <1>1, <1>2, PTL DEF SessionSpec

\* In every order of a disconnect, timeouts and responses: a message in the
\* queue of a live session has somebody who writes it, although m_writing is
\* reset outside x_writeQueue, and a request with a timeout whose
\* asyncSendMessage is over is answered or has a running timer.
THEOREM NoRequestStranded == SessionSpec => []NothingStranded
<1>1. SessionInv => NothingStranded
  BY SessionAssumption, ZenonT(60) DEF SessionInv, NothingStranded, QueueServed, TimerKept, Entered, Answered
<1> QED
  BY <1>1, SessionInvariance, PTL

\* A response that onMessage reads before the request was answered otherwise
\* finds its callback in m_seq2Callback.
THEOREM ResponsesReachCallbacks == SessionSpec => ResponseGiven
<1> DEFINE A == \A r \in responses \ responses' :
                   actived /\ called[r] = 0 /\ ~Queued(r) => Task(r, "response") \in tasks'
<1>1. SessionInv /\ [SessionNext]_sessionVars => [A]_sessionVars
  <2> SUFFICES ASSUME SessionInv, SessionNext, NEW r \in responses \ responses',
                      actived, called[r] = 0, ~Queued(r)
               PROVE  Task(r, "response") \in tasks'
    OBVIOUS
  <2>1. r \in Requests /\ Entered(r) /\ ~Answered(r)
    BY DEF SessionInv, SessionShape, RegisteredFirst, OnItsWay, Entered, Answered
  <2>2. r \in seq2Callback
    BY <2>1 DEF SessionInv, CallbackKept
  <2>3. OnMessage(r)
    BY ZenonT(60) DEF SessionNext, CheckActived, AddSeqCallback, Send, WriteAfterSend, OnMessage,
         TimerExpires, OnTimeout, PeerAnswers, RunCallback, RemoveSeqCallback, OnWrite,
         WriteAfterOnWrite, Disconnect, FinishDrop, CloseSocket, peerSide
  <2> QED
    BY <2>2, <2>3 DEF OnMessage
<1> QED
  BY <1>1, SessionInvariance, PTL DEF SessionSpec, ResponseGiven

-----------------------------------------------------------------------------
(***************************************************************************)
(* Topics: a peer's copy of the topics is current.                         *)
(***************************************************************************)
Subscribed == UNION { sdk[s].topics : s \in { r \in Sdks : sdk[r].in } }

HostShape ==
    /\ sdk \in [Sdks -> [in: BOOLEAN, topics: SUBSET TopicNames]]
    /\ updates \in Nat
    /\ joined # NotJoining => joined \subseteq TopicNames
    /\ host \in [topics: SUBSET TopicNames, seq: Nat]
    /\ host.seq = 0 => host.topics = {}
    /\ certs = [asked |-> certs.asked, accepted |-> certs.accepted]

\* With no call of updateHostTopics before the lock, the topics are what the one
\* that holds it has joined, or has handed over.
JoinedCurrent ==
    updates = 0 => Subscribed = IF joined = NotJoining THEN host.topics ELSE joined

\* A number and a list that were read of the host, the number first.
ReadOf(h, seq, topics) ==
    /\ seq \in 0 .. h.seq
    /\ seq = h.seq => topics = h.topics

Paired ==
    /\ answering \subseteq 0 .. host.seq
    /\ \A m \in topicWire : m.kind = "topics" => ReadOf(host, m.seq, m.topics)
    /\ \A a \in applying \cup {view} :
          /\ a = [seq |-> a.seq, topics |-> a.topics]
          /\ ReadOf(host, a.seq, DOMAIN a.topics)

\* A list, set or about to be, that uses only what was accepted.
Checked(topics, accepted) ==
    \A t \in DOMAIN topics \cap NeedVerify : topics[t] = "success" => t \in accepted

Accepted == \A a \in applying \cup {view} : Checked(a.topics, certs.accepted)

TopicsInv == HostShape /\ JoinedCurrent /\ Paired /\ Accepted

-----------------------------------------------------------------------------

\* Two nodes that have just connected satisfy the invariant.
LEMMA TopicsInitInv == TopicsInit => TopicsInv
<1> SUFFICES ASSUME TopicsInit PROVE TopicsInv
  OBVIOUS
<1> USE DEF TopicsInit
<1>1. HostShape
  BY ZenonT(60) DEF HostShape
<1>2. JoinedCurrent
  BY DEF JoinedCurrent, Subscribed
<1>3. DOMAIN NoTopics = {}
  BY DEF NoTopics
<1>4. Paired
  BY <1>3 DEF Paired, ReadOf
<1>5. Accepted
  BY <1>3 DEF Accepted, Checked
<1>6. QED
  BY <1>1, <1>2, <1>4, <1>5 DEF TopicsInv

\* What the channel server does before the lists are handed over leaves the
\* host's list, its number and the peer alone.
LEMMA ChannelKeeps ==
    ASSUME TopicsInv, UNCHANGED <<host, topicWire, answering, view, applying, certs>>
    PROVE  Paired' /\ Accepted'
BY DEF TopicsInv, Paired, Accepted, ReadOf, Checked

\* A session that connects has no topics yet, so that none are added.
LEMMA ConnectKeeps ==
    ASSUME TopicsInv, NEW s \in Sdks, ConnectSdk(s)
    PROVE  TopicsInv'
<1> USE DEF TopicsInv, HostShape, ConnectSdk
<1>1. HostShape'
  OBVIOUS
<1>2. sdk'[s].topics = {} /\ ~sdk[s].in /\ \A r \in Sdks \ {s} : sdk'[r] = sdk[r]
  OBVIOUS
<1>3. Subscribed' = Subscribed
  BY <1>2 DEF Subscribed
<1>4. JoinedCurrent'
  BY <1>3 DEF JoinedCurrent
<1>5. QED
  BY <1>1, <1>4, ChannelKeeps

\* A call that changes the topics of a session goes on to updateHostTopics, and
\* until that has the lock nothing is claimed.
LEMMA ChangeKeeps ==
    ASSUME TopicsInv, updates' = updates + 1,
           sdk' \in [Sdks -> [in: BOOLEAN, topics: SUBSET TopicNames]],
           UNCHANGED <<joined, host, topicWire, answering, view, applying, certs>>
    PROVE  TopicsInv'
<1> USE DEF TopicsInv, HostShape
<1>1. HostShape'
  OBVIOUS
<1>2. JoinedCurrent'
  BY DEF JoinedCurrent
<1>3. QED
  BY <1>1, <1>2, ChannelKeeps

\* The lock is taken: what is joined is what the sessions have.
LEMMA JoinKeeps ==
    ASSUME TopicsInv, JoinTopics
    PROVE  TopicsInv'
<1> USE DEF TopicsInv, HostShape, JoinTopics
<1>1. joined' = Subscribed /\ Subscribed' = Subscribed
  BY DEF Subscribed
<1>2. Subscribed \subseteq TopicNames
  BY DEF Subscribed
<1>3. HostShape'
  BY <1>1, <1>2
<1>4. joined' # NotJoining
  BY <1>1, <1>2, TopicsAssumption, ZenonT(60) DEF NotJoining
<1>5. JoinedCurrent'
  BY <1>1, <1>4 DEF JoinedCurrent
<1>6. QED
  BY <1>3, <1>5, ChannelKeeps

\* A new list has a new number, above every one that was ever read.
LEMMA PublishKeeps ==
    ASSUME TopicsInv, PublishTopics
    PROVE  TopicsInv'
<1> USE DEF TopicsInv, HostShape, PublishTopics
<1>1. host'.seq = host.seq + 1 /\ host'.topics = joined /\ host.seq \in Nat
  OBVIOUS
<1>2. HostShape'
  BY <1>1
<1>3. JoinedCurrent'
  BY <1>1 DEF JoinedCurrent, Subscribed
<1>4. Accepted'
  BY DEF Accepted, Checked
<1>5. \A n \in 0 .. host.seq : n \in 0 .. host'.seq /\ n # host'.seq
  BY <1>1
<1>6. Paired'
  BY <1>5, ZenonT(60) DEF Paired, ReadOf
<1>7. QED
  BY <1>2, <1>3, <1>4, <1>6, ZenonT(60)

-----------------------------------------------------------------------------

\* What passes between the nodes leaves the host alone.
LEMMA HostKeeps ==
    ASSUME TopicsInv, UNCHANGED <<sdk, updates, joined, host>>,
           certs' = [asked |-> certs'.asked, accepted |-> certs'.accepted]
    PROVE  HostShape' /\ JoinedCurrent'
BY DEF TopicsInv, HostShape, JoinedCurrent, Subscribed

\* Heartbeats and requests carry no list.
LEMMA NoticeKeeps ==
    ASSUME TopicsInv, UNCHANGED <<sdk, updates, joined, host, answering, view, applying>>,
           \A m \in topicWire' \ topicWire : m.kind # "topics",
           certs' = [asked |-> certs'.asked, accepted |-> certs.accepted]
    PROVE  TopicsInv'
<1>1. certs'.accepted = certs.accepted
  OBVIOUS
<1>2. HostShape' /\ JoinedCurrent'
  BY <1>1, HostKeeps
<1>3. Paired'
  BY DEF TopicsInv, Paired, ReadOf
<1>4. Accepted'
  BY <1>1 DEF TopicsInv, Accepted, Checked
<1>5. QED
  BY <1>2, <1>3, <1>4 DEF TopicsInv

\* The number that a RequestTopics handler reads is the host's.
LEMMA RequestKeeps ==
    ASSUME TopicsInv, NEW m \in topicWire, OnRequestTopics(m)
    PROVE  TopicsInv'
<1> USE DEF TopicsInv, OnRequestTopics
<1>1. HostShape' /\ JoinedCurrent'
  BY HostKeeps DEF HostShape
<1>2. host.seq \in 0 .. host.seq
  BY DEF HostShape
<1>3. Paired'
  BY <1>2 DEF Paired, ReadOf
<1>4. Accepted'
  BY DEF Accepted, Checked
<1>5. QED
  BY <1>1, <1>3, <1>4

\* The list that it reads afterwards is the host's, whose number is the one that
\* was read or a newer one.
LEMMA SendKeeps ==
    ASSUME TopicsInv, NEW q \in answering, SendTopics(q)
    PROVE  TopicsInv'
<1> USE DEF TopicsInv, SendTopics
<1>1. HostShape' /\ JoinedCurrent'
  BY HostKeeps DEF HostShape
<1> DEFINE m == [kind |-> "topics", seq |-> q, topics |-> host.topics]
<1>2. ReadOf(host, m.seq, m.topics)
  BY DEF Paired, ReadOf
<1>3. topicWire' = topicWire \cup {m}
  OBVIOUS
<1> HIDE DEF m
<1>4. Paired'
  BY <1>2, <1>3 DEF Paired, ReadOf
<1>5. Accepted'
  BY ZenonT(60) DEF Accepted, Checked
<1>6. QED
  BY <1>1, <1>4, <1>5

\* A topic to be verified is parsed with the status it has, or none.
LEMMA ParseChecked ==
    ASSUME NEW ts, NEW origin, NEW accepted, Checked(origin, accepted)
    PROVE  /\ DOMAIN ParseTopicList(ts, origin) = ts
           /\ Checked(ParseTopicList(ts, origin), accepted)
BY DEF ParseTopicList, Checked

\* A list that arrives keeps its number.
LEMMA ArriveKeeps ==
    ASSUME TopicsInv, NEW m \in topicWire, OnSendTopics(m)
    PROVE  TopicsInv'
<1> USE DEF TopicsInv, OnSendTopics
<1>1. HostShape' /\ JoinedCurrent'
  BY HostKeeps, ZenonT(60) DEF HostShape
<1> DEFINE a == [seq |-> m.seq, topics |-> ParseTopicList(m.topics, view.topics)]
<1>2. Checked(view.topics, certs.accepted)
  BY DEF Accepted
<1>3. DOMAIN a.topics = m.topics /\ Checked(a.topics, certs.accepted)
  BY <1>2, ParseChecked, ZenonT(60)
<1>4. ReadOf(host, a.seq, DOMAIN a.topics) /\ a = [seq |-> a.seq, topics |-> a.topics]
  BY <1>3 DEF Paired
<1>5. applying' = applying \cup {a}
  OBVIOUS
<1> HIDE DEF a
<1>6. Paired'
  BY <1>4, <1>5 DEF Paired, ReadOf
<1>7. Accepted'
  BY <1>3, <1>5, ZenonT(60) DEF Accepted, Checked
<1>8. QED
  BY <1>1, <1>6, <1>7

\* A parsed list is set.
LEMMA SetKeeps ==
    ASSUME TopicsInv, NEW a \in applying, SetViewTopics(a)
    PROVE  TopicsInv'
<1> USE DEF TopicsInv, SetViewTopics
<1>1. certs'.accepted = certs.accepted /\ certs' = [asked |-> certs'.asked, accepted |-> certs'.accepted]
  BY ZenonT(60) DEF HostShape
<1>2. HostShape' /\ JoinedCurrent'
  BY <1>1, HostKeeps
<1>3. Paired'
  BY DEF Paired, ReadOf
<1>4. Accepted'
  BY <1>1 DEF Accepted, Checked
<1>5. QED
  BY <1>2, <1>3, <1>4

\* A topic becomes usable only when it is accepted; accepted it stays.
LEMMA UpdateKeeps ==
    ASSUME TopicsInv, NEW t \in NeedVerify, NEW status \in {"success", "failed"},
           UpdateTopicStatus(t, status)
    PROVE  TopicsInv'
<1> USE DEF TopicsInv, UpdateTopicStatus
<1>1. /\ certs' = [asked |-> certs'.asked, accepted |-> certs'.accepted]
      /\ certs.accepted \subseteq certs'.accepted
      /\ status = "success" => t \in certs'.accepted
  OBVIOUS
<1>2. HostShape' /\ JoinedCurrent'
  BY <1>1, HostKeeps
<1>3. view = [seq |-> view.seq, topics |-> view.topics]
  BY DEF Paired
<1>4. /\ view' = [seq |-> view'.seq, topics |-> view'.topics]
      /\ view'.seq = view.seq
      /\ view'.topics = [u \in DOMAIN view.topics |->
            IF u = t /\ view.topics[u] = "verifying" THEN status ELSE view.topics[u]]
  BY <1>3
<1>5. Paired'
  BY <1>4 DEF Paired, ReadOf
<1>6. Checked(view'.topics, certs'.accepted)
  BY <1>1, <1>4, ZenonT(60) DEF Accepted, Checked
<1>7. Accepted'
  BY <1>1, <1>6, ZenonT(60) DEF Accepted, Checked
<1>8. QED
  BY <1>2, <1>5, <1>7

\* A new session knows the number 0 and no topics, as the host when it started.
LEMMA ReconnectKeeps ==
    ASSUME TopicsInv, ReconnectPeer
    PROVE  TopicsInv'
<1> USE DEF TopicsInv, ReconnectPeer
<1>1. HostShape' /\ JoinedCurrent'
  BY HostKeeps DEF HostShape
<1>2. DOMAIN NoTopics = {}
  BY DEF NoTopics
<1>4. /\ applying' = {} /\ topicWire' = {} /\ answering' = {} /\ host' = host
      /\ view' = [seq |-> 0, topics |-> NoTopics] /\ view'.topics = NoTopics
  OBVIOUS
<1>a. host.seq = 0 => host.topics = {}
  BY ZenonT(60) DEF HostShape
<1>b. host.seq \in Nat
  BY DEF HostShape
<1>c. ReadOf(host, 0, {})
  BY <1>a, <1>b DEF ReadOf
<1>3. Paired'
  BY <1>2, <1>4, <1>c DEF Paired
<1>5. Accepted'
  BY <1>2, <1>4, ZenonT(60) DEF Accepted, Checked
<1>6. QED
  BY <1>1, <1>3, <1>5

\* Every step keeps the invariant.
LEMMA TopicsNextInv ==
    ASSUME TopicsInv, [TopicsNext]_topicsVars
    PROVE  TopicsInv'
<1>1. CASE UNCHANGED topicsVars
  <2> USE <1>1 DEF topicsVars, TopicsInv
  <2>1. HostShape' /\ JoinedCurrent'
    BY DEF HostShape, JoinedCurrent, Subscribed
  <2>2. Paired'
    BY DEF Paired, ReadOf
  <2>3. Accepted'
    BY ZenonT(60) DEF Accepted, Checked
  <2> QED
    BY <2>1, <2>2, <2>3
<1>2. CASE \E s \in Sdks : ConnectSdk(s)
  BY <1>2, ConnectKeeps
<1>3. CASE \E s \in Sdks, ts \in SUBSET TopicNames : SetSdkTopics(s, ts)
  <2>1. PICK s \in Sdks, ts \in SUBSET TopicNames : SetSdkTopics(s, ts)
    BY <1>3
  <2>2. sdk' \in [Sdks -> [in: BOOLEAN, topics: SUBSET TopicNames]]
    BY <2>1 DEF SetSdkTopics, TopicsInv, HostShape
  <2>3. QED
    BY <2>1, <2>2, ChangeKeeps DEF SetSdkTopics
<1>4. CASE \E s \in Sdks : DisconnectSdk(s)
  <2>1. PICK s \in Sdks : DisconnectSdk(s)
    BY <1>4
  <2>2. sdk' \in [Sdks -> [in: BOOLEAN, topics: SUBSET TopicNames]]
    BY <2>1, ZenonT(60) DEF DisconnectSdk, TopicsInv, HostShape
  <2>3. QED
    BY <2>1, <2>2, ChangeKeeps DEF DisconnectSdk
<1>5. CASE JoinTopics
  BY <1>5, JoinKeeps
<1>6. CASE PublishTopics
  BY <1>6, PublishKeeps
<1>7. CASE TopicHeartBeat
  <2>0. topicWire' = topicWire \cup {[kind |-> "seq", seq |-> host.seq]}
    BY <1>7, ZenonT(60) DEF TopicHeartBeat
  <2>1. \A m \in topicWire' \ topicWire : m.kind # "topics"
    BY <2>0
  <2>2. UNCHANGED <<sdk, updates, joined, host, answering, view, applying, certs>>
    BY <1>7, ZenonT(60) DEF TopicHeartBeat
  <2>3. certs' = [asked |-> certs'.asked, accepted |-> certs.accepted]
    BY <2>2, ZenonT(60) DEF TopicsInv, HostShape
  <2> QED
    BY <2>1, <2>2, <2>3, NoticeKeeps
<1>8. CASE \E m \in topicWire : OnTopicSeq(m)
  <2>1. PICK m \in topicWire : OnTopicSeq(m)
    BY <1>8
  <2>2. certs' = [asked |-> certs'.asked, accepted |-> certs.accepted]
    BY <2>1 DEF OnTopicSeq, TopicsInv, HostShape
  <2>3. \A n \in topicWire' \ topicWire : n.kind # "topics"
    BY <2>1 DEF OnTopicSeq
  <2>4. QED
    BY <2>1, <2>2, <2>3, NoticeKeeps DEF OnTopicSeq
<1>9. CASE \E m \in topicWire : OnRequestTopics(m)
  BY <1>9, RequestKeeps
<1>10. CASE \E q \in answering : SendTopics(q)
  BY <1>10, SendKeeps
<1>11. CASE \E m \in topicWire : OnSendTopics(m)
  BY <1>11, ArriveKeeps
<1>12. CASE \E m \in topicWire : LateTopics(m)
  BY <1>12, NoticeKeeps, ZenonT(60) DEF LateTopics, TopicsInv, HostShape
<1>13. CASE \E a \in applying : SetViewTopics(a)
  BY <1>13, SetKeeps
<1>14. CASE \E t \in NeedVerify, status \in {"success", "failed"} : UpdateTopicStatus(t, status)
  BY <1>14, UpdateKeeps
<1>15. CASE ReconnectPeer
  BY <1>15, ReconnectKeeps
<1>16. QED
  BY <1>1, <1>2, <1>3, <1>4, <1>5, <1>6, <1>7, <1>8, <1>9, <1>10, <1>11, <1>12, <1>13, <1>14,
     <1>15 DEF TopicsNext

\* A number the peer has in common with the host means a common list, the host's
\* list is its SDKs' whenever no update is under way, and only accepted topics are
\* used, for any number of topics, SDKs, updates and messages.
THEOREM TopicsStayCurrent == TopicsSpec => []TopicsCurrent
<1>1. TopicsInv => TopicsCurrent
  BY DEF TopicsInv, HostShape, JoinedCurrent, Subscribed, Paired, ReadOf, Accepted, Checked, TopicsCurrent
<1>2. TopicsInv /\ [TopicsNext]_topicsVars => TopicsInv'
  BY TopicsNextInv
<1>3. QED
  BY <1>1, <1>2, TopicsInitInv, PTL DEF TopicsSpec
=============================================================================
