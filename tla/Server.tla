------------------------------ MODULE Server --------------------------------
(***************************************************************************)
(* The TLS server on the Pi: main(), the listener of make_tls_server.cpp,  *)
(* a worker thread per client and the thread that reads the serial port    *)
(* (tls-alex-server.cpp).                                                  *)
(*                                                                         *)
(* The threads share networkActive and tls_conn without a lock.  Every     *)
(* load and store of the two is a step of its own, so that the values a    *)
(* thread has tested may have changed when it acts on them.                *)
(*                                                                         *)
(* LoopForEver, RouteKept and PacketAssumed are wrong on purpose: the runs *)
(* must notice each of them in place of the definition that follows it.    *)
(***************************************************************************)
EXTENDS Integers, FiniteSets

CONSTANTS
  Conns,        \* client connections, each an SSL object
  MaxSent,      \* bound on the commands of a client that wait to be read
  MaxAnswers    \* bound on the packets the Arduino has yet to deliver

(* No connection.                                                          *)
NULL == "NULL"

ASSUME ServerAssumption ==
  /\ IsFiniteSet(Conns) /\ NULL \notin Conns
  /\ MaxSent \in Nat /\ MaxAnswers \in Nat

VARIABLES
  crashed,        \* has the process been killed?
  helloSent,      \* has main() reached sendHello()?
  networkActive,
  tls_conn,       \* a connection or NULL
  ssl,            \* ssl[c]: the SSL object and its peer
  worker,         \* worker[c]: where the worker thread of c is
  got,            \* got[c]: was the last len of that worker > 0?
  uart,           \* where uartReceiveThread is
  c,              \* was the last c of sendNetworkData() > 0?
  target,         \* the connection sendNetworkData() writes to
  sent,           \* sent[c]: commands of c that its worker has not read
  answers         \* packets the Arduino has yet to deliver

serverVars == <<crashed, helloSent, networkActive, tls_conn, ssl, worker, got,
                uart, c, target, sent, answers>>

ServerTypeOK ==
  /\ crashed \in BOOLEAN /\ helloSent \in BOOLEAN
  /\ networkActive \in BOOLEAN
  /\ tls_conn \in Conns \cup {NULL}
  /\ ssl \in [Conns -> {"none", "open", "peerClosed", "freed"}]
  /\ worker \in [Conns -> {"none", "test", "read", "store", "route",
                           "forward", "reset", "free", "done"}]
  /\ got \in [Conns -> BOOLEAN]
  /\ uart \in {"receive", "active", "conn", "load", "write", "store"}
  /\ c \in BOOLEAN
  /\ target \in Conns \cup {NULL}
  /\ sent \in [Conns -> 0 .. MaxSent]
  /\ answers \in 0 .. MaxAnswers

(* createServer() has been called; sendHello() comes next.                 *)
ServerInit ==
  /\ crashed = FALSE /\ helloSent = FALSE
  /\ networkActive = TRUE
  /\ tls_conn = NULL
  /\ ssl = [x \in Conns |-> "none"]
  /\ worker = [x \in Conns |-> "none"]
  /\ got = [x \in Conns |-> FALSE]
  /\ uart = "receive"
  /\ c \in BOOLEAN
  /\ target = NULL
  /\ sent = [x \in Conns |-> 0] /\ answers = 0

-----------------------------------------------------------------------------
(* Where a thread is, as long as the process lives.                        *)
WorkerAt(x, place) == ~crashed /\ worker[x] = place
UartAt(place) == ~crashed /\ uart = place

(* main(): the greeting, which the Arduino answers.                        *)
SendHello ==
  /\ ~crashed /\ ~helloSent /\ answers < MaxAnswers
  /\ helloSent' = TRUE
  /\ answers' = answers + 1
  /\ UNCHANGED <<crashed, networkActive, tls_conn, ssl, worker, got, uart, c,
                 target, sent>>

(* The listener accepts whoever has a valid certificate: it looks neither  *)
(* at networkActive nor at the connections there are.                      *)
Accept(x) ==
  /\ WorkerAt(x, "none")
  /\ ssl' = [ssl EXCEPT ![x] = "open"]
  /\ worker' = [worker EXCEPT ![x] = "test"]
  /\ UNCHANGED <<crashed, helloSent, networkActive, tls_conn, got, uart, c,
                 target, sent, answers>>

(* The client sends one command more.                                      *)
ClientSends(x) ==
  /\ ~crashed /\ ssl[x] = "open" /\ sent[x] < MaxSent
  /\ sent' = [sent EXCEPT ![x] = @ + 1]
  /\ UNCHANGED <<crashed, helloSent, networkActive, tls_conn, ssl, worker, got,
                 uart, c, target, answers>>

(* The client goes away, and the Pi learns of it.  One that vanishes       *)
(* without a word is one that stays open and sends nothing.                *)
PeerCloses(x) ==
  /\ ~crashed /\ ssl[x] = "open"
  /\ ssl' = [ssl EXCEPT ![x] = "peerClosed"]
  /\ UNCHANGED <<crashed, helloSent, networkActive, tls_conn, worker, got,
                 uart, c, target, sent, answers>>

-----------------------------------------------------------------------------
(* worker(): while(networkActive) ...                                      *)
LoopForEver(active) == "read"
LoopWhile(active) == IF active THEN "read" ELSE "reset"

TestActive(x) ==
  /\ WorkerAt(x, "test")
  /\ worker' = [worker EXCEPT ![x] = LoopWhile(networkActive)]
  /\ UNCHANGED <<crashed, helloSent, networkActive, tls_conn, ssl, got, uart,
                 c, target, sent, answers>>

(* sslRead() blocks until there is a command or the client has gone.  What *)
(* it sent before that may be read first, or be lost.                      *)
Read(x, ok) ==
  /\ WorkerAt(x, "read")
  /\ IF ok THEN sent[x] > 0 ELSE ssl[x] = "peerClosed"
  /\ sent' = IF ok THEN [sent EXCEPT ![x] = @ - 1] ELSE sent
  /\ got' = [got EXCEPT ![x] = ok]
  /\ worker' = [worker EXCEPT ![x] = "store"]
  /\ UNCHANGED <<crashed, helloSent, networkActive, tls_conn, ssl, uart, c,
                 target, answers>>

(* networkActive = (len > 0)                                               *)
StoreActive(x) ==
  /\ WorkerAt(x, "store")
  /\ networkActive' = got[x]
  /\ worker' = [worker EXCEPT ![x] = IF got[x] THEN "route" ELSE "test"]
  /\ UNCHANGED <<crashed, helloSent, tls_conn, ssl, got, uart, c, target,
                 sent, answers>>

(* handleNetworkData(): tls_conn = conn, then handleCommand().             *)
Route(x) ==
  /\ WorkerAt(x, "route")
  /\ tls_conn' = x
  /\ worker' = [worker EXCEPT ![x] = "forward"]
  /\ UNCHANGED <<crashed, helloSent, networkActive, ssl, got, uart, c, target,
                 sent, answers>>

(* handleCommand(): an unknown command goes nowhere; the others are        *)
(* answered with one packet or two that are passed on to the client.       *)
Forward(x, n) ==
  /\ WorkerAt(x, "forward")
  /\ answers + n <= MaxAnswers
  /\ answers' = answers + n
  /\ worker' = [worker EXCEPT ![x] = "test"]
  /\ UNCHANGED <<crashed, helloSent, networkActive, tls_conn, ssl, got, uart,
                 c, target, sent>>

(* After the loop: tls_conn = NULL, whoever it points to, and EXIT_THREAD. *)
RouteKept == tls_conn
RouteAfterExit == NULL

ResetConn(x) ==
  /\ WorkerAt(x, "reset")
  /\ tls_conn' = RouteAfterExit
  /\ worker' = [worker EXCEPT ![x] = "free"]
  /\ UNCHANGED <<crashed, helloSent, networkActive, ssl, got, uart, c, target,
                 sent, answers>>

ExitThread(x) ==
  /\ WorkerAt(x, "free")
  /\ ssl' = [ssl EXCEPT ![x] = "freed"]
  /\ worker' = [worker EXCEPT ![x] = "done"]
  /\ UNCHANGED <<crashed, helloSent, networkActive, tls_conn, got, uart, c,
                 target, sent, answers>>

-----------------------------------------------------------------------------
(* uartReceiveThread(): a packet arrives and is passed on with             *)
(* sendNetworkData().                                                      *)
PacketAssumed == TRUE
PacketArrived == answers > 0

Receive ==
  /\ UartAt("receive")
  /\ PacketArrived
  /\ answers' = answers - 1
  /\ uart' = "active"
  /\ UNCHANGED <<crashed, helloSent, networkActive, tls_conn, ssl, worker, got,
                 c, target, sent>>

(* if(networkActive).  c is declared in the block and not initialised.     *)
TestNetworkActive ==
  /\ UartAt("active")
  /\ uart' = IF networkActive THEN "conn" ELSE "receive"
  /\ c' \in BOOLEAN
  /\ UNCHANGED <<crashed, helloSent, networkActive, tls_conn, ssl, worker, got,
                 target, sent, answers>>

(* if(tls_conn != NULL).  Without a connection c stays as it is.           *)
TestConn ==
  /\ UartAt("conn")
  /\ uart' = IF tls_conn # NULL THEN "load" ELSE "store"
  /\ target' = tls_conn
  /\ UNCHANGED <<crashed, helloSent, networkActive, tls_conn, ssl, worker, got,
                 c, sent, answers>>

(* The argument of sslWrite(): tls_conn is not volatile, so the compiler   *)
(* may load it again or use the value tested.                              *)
LoadConn ==
  /\ UartAt("load")
  /\ target' \in {target, tls_conn}
  /\ uart' = "write"
  /\ UNCHANGED <<crashed, helloSent, networkActive, tls_conn, ssl, worker, got,
                 c, sent, answers>>

(* A write to a peer that has gone may seem to work, may fail, and raises  *)
(* SIGPIPE, which nobody handles; one through NULL or a freed object may   *)
(* do anything.                                                            *)
Write ==
  /\ UartAt("write")
  /\ uart' = "store"
  /\ c' \in BOOLEAN
  /\ crashed' \in IF target # NULL /\ ssl[target] = "open" THEN {FALSE} ELSE BOOLEAN
  /\ target' = NULL
  /\ UNCHANGED <<helloSent, networkActive, tls_conn, ssl, worker, got,
                 sent, answers>>

(* networkActive = (c > 0)                                                 *)
StoreNetworkActive ==
  /\ UartAt("store")
  /\ networkActive' = c
  /\ uart' = "receive"
  /\ UNCHANGED <<crashed, helloSent, tls_conn, ssl, worker, got, c, target,
                 sent, answers>>

-----------------------------------------------------------------------------
WorkerStep(x) ==
  \/ TestActive(x) \/ StoreActive(x) \/ Route(x)
  \/ ResetConn(x) \/ ExitThread(x)
  \/ \E n \in 0 .. 2 : Forward(x, n)
  \/ \E ok \in BOOLEAN : Read(x, ok)

UartStep ==
  \/ Receive \/ TestNetworkActive \/ TestConn \/ LoadConn \/ Write
  \/ StoreNetworkActive

ServerNext ==
  \/ SendHello \/ UartStep
  \/ \E x \in Conns : Accept(x) \/ ClientSends(x) \/ PeerCloses(x) \/ WorkerStep(x)

(* The threads are scheduled by the operating system, without priorities.  *)
(* Clients need neither come, nor send, nor go.                            *)
ServerFairness ==
  /\ WF_serverVars(UartStep)
  /\ \A x \in Conns : WF_serverVars(WorkerStep(x))

ServerSpec == ServerInit /\ [][ServerNext]_serverVars /\ ServerFairness

-----------------------------------------------------------------------------
(* tls_conn never points to an SSL object that has been freed, although    *)
(* any worker may set and reset it (tls-alex-server.cpp:392, 422-423).     *)
RouteNeverDangles == tls_conn # NULL => ssl[tls_conn] # "freed"

(* Nobody is about to set networkActive again.                             *)
Dead ==
  /\ ~networkActive
  /\ uart \in {"receive", "active"}
  /\ \A x \in Conns : worker[x] \in {"none", "test", "reset", "free", "done"}

(* A server whose session has ended never serves again: it accepts         *)
(* clients, and drops each of them, until it is started anew.              *)
DeadStaysDead ==
  [][Dead => Dead']_serverVars

(* The connection of a client that has gone is freed, unless the process   *)
(* dies first, if the other clients fall silent in the end: as long as     *)
(* they go on, one of them may set networkActive again between any failed  *)
(* read of this worker and its test (tls-alex-server.cpp:404-412).         *)
OthersFallSilent(x) ==
  <>[][\A y \in Conns \ {x} : sent'[y] <= sent[y]]_serverVars
ClosedIsFreed ==
  \A x \in Conns : OthersFallSilent(x) =>
    (ssl[x] = "peerClosed" ~> ssl[x] = "freed" \/ crashed)

(* networkActive "prevents the server from serving more than one           *)
(* connection".                                                            *)
OneConnection ==
  Cardinality({x \in Conns : worker[x] \in {"route", "forward"}}) <= 1

(* "Network is still active if we can write more then 0 bytes": an answer  *)
(* does not end the session of a server that had nobody to write it to.    *)
UnwrittenAnswerChangesNothing ==
  [][ /\ uart = "store" /\ uart' = "receive"
      /\ \A x \in Conns : worker[x] = "none"
      => networkActive' = networkActive ]_serverVars

=============================================================================
