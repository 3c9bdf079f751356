---------------------------- MODULE ServerProofs ----------------------------
(***************************************************************************)
(* Proofs about the server, for every number of clients and commands.      *)
(***************************************************************************)
EXTENDS Server, TLAPS

USE ServerAssumption

(* The inductive invariant behind RouteNeverDangles: a worker that has     *)
(* reset tls_conn is not pointed to any more, and only such a worker has   *)
(* freed its connection.                                                   *)
ServerIInv ==
  /\ ServerTypeOK
  /\ \A x \in Conns : worker[x] \in {"free", "done"} => tls_conn # x
  /\ \A x \in Conns : ssl[x] = "freed" => worker[x] = "done"

-----------------------------------------------------------------------------
LEMMA ServerTypeStep == ServerTypeOK /\ [ServerNext]_serverVars => ServerTypeOK'
<1> SUFFICES ASSUME ServerTypeOK, [ServerNext]_serverVars PROVE ServerTypeOK'
  OBVIOUS
<1>. USE DEF ServerTypeOK, WorkerAt, UartAt, LoopWhile, RouteAfterExit, PacketArrived
<1>1. CASE SendHello
  BY <1>1 DEF SendHello
<1>2. CASE UartStep
  <2>1. CASE Receive
    BY <2>1 DEF Receive
  <2>2. CASE TestNetworkActive
    BY <2>2 DEF TestNetworkActive
  <2>3. CASE TestConn
    BY <2>3 DEF TestConn
  <2>4. CASE LoadConn
    BY <2>4 DEF LoadConn
  <2>5. CASE Write
    BY <2>5 DEF Write
  <2>6. CASE StoreNetworkActive
    BY <2>6 DEF StoreNetworkActive
  <2>. QED BY <1>2, <2>1, <2>2, <2>3, <2>4, <2>5, <2>6 DEF UartStep
<1>3. ASSUME NEW x \in Conns, Accept(x) PROVE ServerTypeOK'
  BY <1>3 DEF Accept
<1>4. ASSUME NEW x \in Conns, ClientSends(x) \/ PeerCloses(x) PROVE ServerTypeOK'
  <2>1. CASE ClientSends(x)
    BY <2>1 DEF ClientSends
  <2>2. CASE PeerCloses(x)
    BY <2>2 DEF PeerCloses
  <2>. QED BY <1>4, <2>1, <2>2
<1>5. ASSUME NEW x \in Conns, WorkerStep(x) PROVE ServerTypeOK'
  <2>1. CASE TestActive(x)
    BY <2>1 DEF TestActive
  <2>2. CASE StoreActive(x)
    BY <2>2 DEF StoreActive
  <2>3. CASE Route(x)
    BY <2>3 DEF Route
  <2>4. CASE ResetConn(x)
    BY <2>4 DEF ResetConn
  <2>5. CASE ExitThread(x)
    BY <2>5 DEF ExitThread
  <2>6. ASSUME NEW n \in 0 .. 2, Forward(x, n) PROVE ServerTypeOK'
    BY <2>6 DEF Forward
  <2>7. ASSUME NEW ok \in BOOLEAN, Read(x, ok) PROVE ServerTypeOK'
    BY <2>7 DEF Read
  <2>. QED BY <1>5, <2>1, <2>2, <2>3, <2>4, <2>5, <2>6, <2>7 DEF WorkerStep
<1>6. CASE UNCHANGED serverVars
  BY <1>6 DEF serverVars
<1>. QED BY <1>1, <1>2, <1>3, <1>4, <1>5, <1>6 DEF ServerNext

LEMMA ServerInitType == ServerInit => ServerTypeOK
<1> SUFFICES ASSUME ServerInit PROVE ServerTypeOK
  OBVIOUS
<1>1. /\ crashed \in BOOLEAN /\ helloSent \in BOOLEAN
      /\ networkActive \in BOOLEAN /\ c \in BOOLEAN
  BY Zenon DEF ServerInit
<1>2. /\ sent \in [Conns -> 0 .. MaxSent] /\ answers \in 0 .. MaxAnswers
  BY DEF ServerInit
<1>3. got \in [Conns -> BOOLEAN]
  BY Zenon DEF ServerInit
<1>4. /\ ssl \in [Conns -> {"none", "open", "peerClosed", "freed"}]
      /\ worker \in [Conns -> {"none", "test", "read", "store", "route",
                               "forward", "reset", "free", "done"}]
      /\ tls_conn \in Conns \cup {NULL} /\ target \in Conns \cup {NULL}
      /\ uart \in {"receive", "active", "conn", "load", "write", "store"}
  BY DEF ServerInit
<1>. QED BY <1>1, <1>2, <1>3, <1>4 DEF ServerTypeOK

(* The shared variables and the places of the threads keep their types.    *)
THEOREM ServerTypeCorrect == ServerSpec => []ServerTypeOK
  BY ServerInitType, ServerTypeStep, PTL DEF ServerSpec

-----------------------------------------------------------------------------
LEMMA ServerIInvStep ==
  ASSUME ServerIInv, [ServerNext]_serverVars
  PROVE  ServerIInv'
<1>1. ServerTypeOK'
  BY ServerTypeStep DEF ServerIInv
<1>. USE DEF ServerIInv, ServerTypeOK, WorkerAt, UartAt, LoopWhile, RouteAfterExit
<1>2. CASE SendHello \/ UartStep
  <2>1. UNCHANGED <<tls_conn, worker, ssl>>
    BY <1>2 DEF SendHello, UartStep, Receive, TestNetworkActive, TestConn,
                LoadConn, Write, StoreNetworkActive
  <2>. QED BY <1>1, <2>1
<1>3. ASSUME NEW x \in Conns, Accept(x) PROVE ServerIInv'
  BY <1>1, <1>3 DEF Accept
<1>4. ASSUME NEW x \in Conns, ClientSends(x) \/ PeerCloses(x) PROVE ServerIInv'
  BY <1>1, <1>4 DEF ClientSends, PeerCloses
<1>5. ASSUME NEW x \in Conns, WorkerStep(x) PROVE ServerIInv'
  <2>1. CASE TestActive(x)
    BY <1>1, <2>1 DEF TestActive
  <2>2. CASE StoreActive(x)
    BY <1>1, <2>2 DEF StoreActive
  <2>3. CASE Route(x)
    BY <1>1, <2>3 DEF Route
  <2>4. CASE ResetConn(x)
    BY <1>1, <2>4 DEF ResetConn
  <2>5. CASE ExitThread(x)
    BY <1>1, <2>5 DEF ExitThread
  <2>6. ASSUME NEW n \in 0 .. 2, Forward(x, n) PROVE ServerIInv'
    BY <1>1, <2>6 DEF Forward
  <2>7. ASSUME NEW ok \in BOOLEAN, Read(x, ok) PROVE ServerIInv'
    BY <1>1, <2>7 DEF Read
  <2>. QED BY <1>5, <2>1, <2>2, <2>3, <2>4, <2>5, <2>6, <2>7 DEF WorkerStep
<1>6. CASE UNCHANGED serverVars
  BY <1>1, <1>6 DEF serverVars
<1>. QED BY <1>2, <1>3, <1>4, <1>5, <1>6 DEF ServerNext

(* tls_conn never points to a freed SSL object, however many clients come, *)
(* go and overtake one another (tls-alex-server.cpp:392, 422-423).         *)
THEOREM RouteIsLive == ServerSpec => []RouteNeverDangles
<1>1. ServerInit => ServerIInv
  BY ServerInitType DEF ServerInit, ServerIInv
<1>2. ServerIInv /\ [ServerNext]_serverVars => ServerIInv'
  BY ServerIInvStep
<1>3. ServerIInv => RouteNeverDangles
  BY DEF ServerIInv, ServerTypeOK, RouteNeverDangles
<1>. QED BY <1>1, <1>2, <1>3, PTL DEF ServerSpec

-----------------------------------------------------------------------------
(* Once networkActive is 0 with no read or write under way, no interleaving *)
(* of the threads sets it again: the server has to be restarted.           *)
THEOREM SessionIsFinal == ServerSpec => DeadStaysDead
<1>1. ASSUME ServerTypeOK, ServerNext, Dead PROVE Dead'
  <2>. USE <1>1 DEF Dead, ServerTypeOK, WorkerAt, UartAt, LoopWhile, RouteAfterExit
  <2>1. CASE SendHello
    BY <2>1 DEF SendHello
  <2>2. CASE UartStep
    <3>1. CASE Receive
      BY <3>1 DEF Receive
    <3>2. CASE TestNetworkActive
      BY <3>2 DEF TestNetworkActive
    <3>. QED BY <2>2, <3>1, <3>2
           DEF UartStep, TestConn, LoadConn, Write, StoreNetworkActive
  <2>3. ASSUME NEW x \in Conns, Accept(x) \/ ClientSends(x) \/ PeerCloses(x) PROVE Dead'
    BY <2>3 DEF Accept, ClientSends, PeerCloses
  <2>4. ASSUME NEW x \in Conns, WorkerStep(x) PROVE Dead'
    <3>1. TestActive(x) \/ ResetConn(x) \/ ExitThread(x)
      BY <2>4 DEF WorkerStep, StoreActive, Route, Forward, Read
    <3>. QED BY <3>1 DEF TestActive, ResetConn, ExitThread
  <2>. QED BY <2>1, <2>2, <2>3, <2>4 DEF ServerNext
<1>2. ServerTypeOK /\ [ServerNext]_serverVars => [Dead => Dead']_serverVars
  BY <1>1
<1>. QED BY <1>2, ServerTypeCorrect, PTL DEF ServerSpec, DeadStaysDead

=============================================================================
