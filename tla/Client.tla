-------------------------------- MODULE Client --------------------------------
(***************************************************************************)
(* The operator's program: the keyboard thread and the network thread of   *)
(* tls-alex-client.cpp, and the client loop of make_tls_client.cpp that    *)
(* connects, starts the two and waits for the exit flag, as main() does.   *)
(*                                                                         *)
(* networkActive, manualMode, _exitFlag and the connection are shared      *)
(* without a lock.  A step makes at most one access to them that another   *)
(* thread can notice.                                                      *)
(*                                                                         *)
(* The server at the other end takes commands, sends messages and may go,  *)
(* as it likes.  Operator says what it may count on.                       *)
(*                                                                         *)
(* AskedByNow, ActiveUnlessError, ActiveIfZero and FreesFirst are wrong on *)
(* purpose: a run must notice each of them in place of the definition that *)
(* follows it.                                                             *)
(***************************************************************************)
EXTENDS Commands

CONSTANT MaxMessages  \* bound on the messages under way to the program

ASSUME ClientAssumption == MaxMessages \in Nat

VARIABLES
  networkActive,
  manualMode,
  exitFlag,
  conn,         \* the SSL object: "none", "open" or "freed"
  kb,           \* where writerThread() is
  prompt,       \* what it last asked for: a "line" or a "key"
  cmd,          \* the command in its buffer
  c,            \* what sslWrite() returned, as 1, 0 or -1
  net,          \* where readerThread() is
  msg,          \* the message in its buffer
  len,          \* what sslRead() returned, as 1, 0 or -1
  loop,         \* where the client loop and main() are
  toServer, toClient,       \* what is under way on the connection
  linked,       \* is the connection open at both ends?
  commands, sessions

keyboardVars == <<kb, prompt, cmd, c>>
networkVars == <<net, msg, len>>
sharedVars == <<networkActive, manualMode, exitFlag, conn>>
clientVars == <<sharedVars, keyboardVars, networkVars, loop, toServer, toClient,
                linked, commands, sessions>>

NoCommand == LineCommand("stop")

ClientTypeOK ==
  /\ networkActive \in BOOLEAN /\ manualMode \in BOOLEAN /\ exitFlag \in BOOLEAN
  /\ conn \in {"none", "open", "freed"}
  /\ kb \in {"none", "prompt", "input", "write", "store", "stop", "free", "done"}
  /\ prompt \in {"line", "key"} /\ cmd \in Command \cup {NoCommand}
  /\ c \in -1 .. 1 /\ len \in -1 .. 1
  /\ net \in {"none", "test", "read", "store", "check", "stop", "free", "done"}
  /\ msg \in Messages
  /\ loop \in {"connect", "spin", "closed", "ended"}
  /\ toServer \in Seq(Command) /\ toClient \in Seq(Messages)
  /\ linked \in BOOLEAN
  /\ commands \in 0 .. MaxCommands /\ sessions \in 1 .. MaxSessions

(* main() before createClient().                                           *)
ClientInit ==
  /\ networkActive = TRUE /\ manualMode = TRUE /\ exitFlag = FALSE
  /\ conn = "none"
  /\ kb = "none" /\ prompt = "line" /\ cmd = NoCommand /\ c = 0
  /\ net = "none" /\ msg = "ANSWER" /\ len = 0
  /\ loop = "connect"
  /\ toServer = <<>> /\ toClient = <<>> /\ linked = FALSE
  /\ commands = 0 /\ sessions = 1

Running == loop \in {"spin", "closed"}

-----------------------------------------------------------------------------
(* The process ends, and all its threads with it; what it has not read is  *)
(* lost, what it has written may be.                                       *)
ProcessEnds ==
  /\ loop' = "ended"
  /\ networkActive' = FALSE /\ manualMode' = TRUE /\ exitFlag' = FALSE
  /\ conn' = "none"
  /\ kb' = "none" /\ prompt' = "line" /\ cmd' = NoCommand /\ c' = 0
  /\ net' = "none" /\ msg' = "ANSWER" /\ len' = 0
  /\ toServer' \in {toServer, <<>>} /\ toClient' = <<>>
  /\ linked' = FALSE
  /\ UNCHANGED <<commands, sessions>>

(* _client_loop(): the connection is made, then the threads are started.   *)
Connected ==
  /\ loop = "connect"
  /\ conn' = "open" /\ linked' = TRUE
  /\ toServer' = <<>> /\ toClient' = <<>>
  /\ kb' = "prompt" /\ net' = "test"
  /\ loop' = "spin"
  /\ UNCHANGED <<networkActive, manualMode, exitFlag, prompt, cmd, c, msg, len,
                 commands, sessions>>

(* No host, no connection or no certificate: exit(-1).  The path that frees*)
(* the object of a refused server and starts the threads all the same      *)
(* (make_tls_client.cpp:129-134) is never taken: SSL_VERIFY_PEER has made  *)
(* the handshake fail before.                                              *)
ConnectFails == loop = "connect" /\ ProcessEnds

(* _closeAndExit(), with the two threads still there.                      *)
CloseAndExit ==
  /\ loop = "spin" /\ exitFlag
  /\ conn' = "freed" /\ linked' = FALSE
  /\ loop' = "closed"
  /\ UNCHANGED <<networkActive, manualMode, exitFlag, keyboardVars, networkVars,
                 toServer, toClient, commands, sessions>>

(* while(client_is_running()) ends in main(), whatever the others do.      *)
MainReturns == Running /\ exitFlag /\ ProcessEnds

(* SIGINT and SIGTERM.                                                     *)
BreakHandler ==
  /\ Running /\ ~exitFlag
  /\ exitFlag' = TRUE
  /\ UNCHANGED <<networkActive, manualMode, conn, keyboardVars, networkVars, loop,
                 toServer, toClient, linked, commands, sessions>>

(* The operator starts the program again.                                  *)
StartAgain ==
  /\ loop = "ended" /\ sessions < MaxSessions
  /\ sessions' = sessions + 1
  /\ networkActive' = TRUE
  /\ loop' = "connect"
  /\ UNCHANGED <<manualMode, exitFlag, conn, keyboardVars, networkVars, toServer,
                 toClient, linked, commands>>

-----------------------------------------------------------------------------
(* networkActive = (len > 0), and = (c > 0) in sendData(): 0 is the end of *)
(* the connection.                                                         *)
ActiveUnlessError(n) == n >= 0
ActiveIfZero(n) == n = 0
Active(n) == n > 0

(* At their end both threads call stopClient() and then EXIT_THREAD.       *)
FreesFirst(place) == place = "free"
StopsFirst(place) == place = "stop"

After(place) == IF place = "stop" THEN "free" ELSE "done"

(* writerThread().                                                         *)

(* The mode decides which kind of input it blocks in, once.                *)
Prompt ==
  /\ kb = "prompt"
  /\ prompt' = IF manualMode THEN "line" ELSE "key"
  /\ kb' = "input"
  /\ UNCHANGED <<sharedVars, cmd, c, networkVars, loop, toServer, toClient,
                 linked, commands, sessions>>

(* The input is of the kind it asked for, whatever the mode is by now.     *)
AskedByNow == IF manualMode THEN "line" ELSE "key"
Asked == prompt

(* A line or a key for sendData(), which sends nothing when the network is *)
(* not active.                                                             *)
Type(command) ==
  /\ kb = "input" /\ command \in CommandsAt(Asked)
  /\ commands < MaxCommands
  /\ IF networkActive
     THEN kb' = "write" /\ cmd' = command
     ELSE kb' = "prompt" /\ UNCHANGED cmd
  /\ UNCHANGED <<sharedVars, prompt, c, networkVars, loop, toServer, toClient,
                 linked, commands, sessions>>

(* A line that is no command, or a key too soon after the last.            *)
Nothing ==
  /\ kb = "input"
  /\ kb' = "prompt"
  /\ UNCHANGED <<sharedVars, prompt, cmd, c, networkVars, loop, toServer, toClient,
                 linked, commands, sessions>>

(* 'q', at the manual prompt only.                                         *)
Quit ==
  /\ kb = "input" /\ prompt = "line"
  /\ kb' = "stop"
  /\ UNCHANGED <<sharedVars, prompt, cmd, c, networkVars, loop, toServer, toClient,
                 linked, commands, sessions>>

(* sslWrite().  To a server that has gone it may seem to work, or fail.    *)
Usable == conn = "open" /\ linked

Write ==
  /\ kb = "write"
  /\ c' \in IF Usable THEN {1} ELSE {1, -1}
  /\ toServer' = IF Usable THEN Append(toServer, cmd) ELSE toServer
  /\ commands' = commands + 1
  /\ kb' = "store"
  /\ UNCHANGED <<sharedVars, prompt, cmd, networkVars, loop, toClient, linked,
                 sessions>>

(* It may also raise SIGPIPE; through a freed object it may do anything.   *)
WriteKills == kb = "write" /\ ~Usable /\ ProcessEnds

(* Whatever readerThread() has found out.                                  *)
StoreWritten ==
  /\ kb = "store"
  /\ networkActive' = Active(c)
  /\ kb' = "prompt"
  /\ UNCHANGED <<manualMode, exitFlag, conn, prompt, cmd, c, networkVars, loop,
                 toServer, toClient, linked, commands, sessions>>

EndKeyboard ==
  /\ kb \in {"stop", "free"}
  /\ exitFlag' = (exitFlag \/ StopsFirst(kb))
  /\ conn' = IF StopsFirst(kb) THEN conn ELSE "freed"
  /\ kb' = After(kb)
  /\ UNCHANGED <<networkActive, manualMode, prompt, cmd, c, networkVars, loop,
                 toServer, toClient, linked, commands, sessions>>

-----------------------------------------------------------------------------
(* readerThread().                                                         *)

TestActive ==
  /\ net = "test"
  /\ net' = IF networkActive THEN "read" ELSE "stop"
  /\ UNCHANGED <<sharedVars, keyboardVars, msg, len, loop, toServer, toClient,
                 linked, commands, sessions>>

(* sslRead() blocks until there is a message or the connection ends.       *)
Read ==
  /\ net = "read"
  /\ \/ /\ conn = "open" /\ toClient # <<>>
        /\ msg' = Head(toClient) /\ len' = 1
        /\ toClient' = Tail(toClient)
     \/ /\ conn = "freed" \/ (toClient = <<>> /\ ~linked)
        /\ len' \in IF conn = "freed" THEN {0, -1} ELSE {0}
        /\ UNCHANGED <<msg, toClient>>
  /\ net' = "store"
  /\ UNCHANGED <<sharedVars, keyboardVars, loop, toServer, linked, commands,
                 sessions>>

StoreRead ==
  /\ net = "store"
  /\ networkActive' = Active(len)
  /\ net' = "check"
  /\ UNCHANGED <<manualMode, exitFlag, conn, keyboardVars, msg, len, loop, toServer,
                 toClient, linked, commands, sessions>>

(* if (networkActive) handleNetwork(): what is in the buffer, which is the *)
(* last message once more if the keyboard thread has set networkActive.    *)
HandleNetwork ==
  /\ net = "check"
  /\ manualMode' = IF networkActive THEN ModeTold(msg, manualMode) ELSE manualMode
  /\ net' = "test"
  /\ UNCHANGED <<networkActive, exitFlag, conn, keyboardVars, msg, len, loop, toServer,
                 toClient, linked, commands, sessions>>

EndNetwork ==
  /\ net \in {"stop", "free"}
  /\ exitFlag' = (exitFlag \/ StopsFirst(net))
  /\ conn' = IF StopsFirst(net) THEN conn ELSE "freed"
  /\ net' = After(net)
  /\ UNCHANGED <<networkActive, manualMode, keyboardVars, msg, len, loop, toServer,
                 toClient, linked, commands, sessions>>

-----------------------------------------------------------------------------
(* The server.                                                             *)
serverless == <<sharedVars, keyboardVars, networkVars, loop, commands, sessions>>

ServerTakes ==
  /\ toServer # <<>> /\ toServer' = Tail(toServer)
  /\ UNCHANGED <<serverless, toClient, linked>>

ServerSends(m) ==
  /\ linked /\ Len(toClient) < MaxMessages
  /\ toClient' = Append(toClient, m)
  /\ UNCHANGED <<serverless, toServer, linked>>

ServerGoes ==
  /\ linked /\ linked' = FALSE
  /\ toServer' = <<>>
  /\ UNCHANGED <<serverless, toClient>>

-----------------------------------------------------------------------------
KeyboardStep == Prompt \/ StoreWritten \/ EndKeyboard
Typing == Nothing \/ Quit \/ \E command \in Command : Type(command)
NetworkStep == TestActive \/ Read \/ StoreRead \/ HandleNetwork \/ EndNetwork
LoopStep == CloseAndExit \/ MainReturns
ServerStep == ServerTakes \/ ServerGoes \/ \E m \in Messages : ServerSends(m)

ClientNext ==
  \/ Connected \/ ConnectFails \/ BreakHandler \/ StartAgain \/ LoopStep
  \/ KeyboardStep \/ Typing \/ Write \/ WriteKills \/ NetworkStep \/ ServerStep

(* The operating system runs every thread; nobody has to type, to connect  *)
(* or to answer.                                                           *)
ClientFairness ==
  /\ WF_clientVars(KeyboardStep) /\ WF_clientVars(Write)
  /\ WF_clientVars(NetworkStep) /\ WF_clientVars(LoopStep)

ClientSpec == ClientInit /\ [][ClientNext]_clientVars /\ ClientFairness

-----------------------------------------------------------------------------
(* What the program looks like from the other end.  A message counts as    *)
(* taken when it is handled.                                               *)
InHand == IF net \in {"store", "check"} /\ len = 1 THEN <<msg>> ELSE <<>>

Unhandled == InHand \o toClient
Session == IF Running THEN "live" ELSE loop

Abstract == INSTANCE Operator WITH
  session <- Session,
  leaving <- exitFlag,
  toClient <- Unhandled

(* However the threads interleave, the server gets commands of the kind    *)
(* the operator was asked for, and the messages change the mode in the     *)
(* order they were sent, each of them once, until the connection is lost   *)
(* (tls-alex-client.cpp:159-194, 239-437).                                 *)
ImplementsOperator == Abstract!OperatorSpec

(* The connection is freed up to three times, by each thread and by the    *)
(* client loop, and used by whoever has not ended yet; but never before    *)
(* the exit flag has told main() to end the program                        *)
(* (tls-alex-client.cpp:189-190, 434-435, make_tls_client.cpp:153-157).    *)
FreedOnlyAtExit == conn = "freed" => exitFlag

(* networkActive, which both threads write, is only false when there is no *)
(* connection to send on: no command is dropped without need               *)
(* (tls-alex-client.cpp:163, 172, 190).                                    *)
ActiveWhileUsable == Running /\ Usable => networkActive

(* The inductive invariant of the two: a command is of the kind asked for, *)
(* a failure has a reason, and nothing of a session outlives it.           *)
Failed(n) == n <= 0
OutOfSession ==
  /\ kb = "none" /\ net = "none" /\ conn = "none"
  /\ prompt = "line" /\ manualMode = TRUE /\ exitFlag = FALSE
  /\ toClient = <<>> /\ linked = FALSE
InSession ==
  /\ kb # "none" /\ net # "none" /\ conn # "none"
  /\ kb \in {"free", "done"} \/ net \in {"free", "done"} => exitFlag
  /\ (kb = "store" /\ Failed(c)) \/ (net \in {"store", "check"} /\ Failed(len)) => ~Usable
ClientInv ==
  /\ ClientTypeOK
  /\ FreedOnlyAtExit /\ ActiveWhileUsable
  /\ kb = "write" => cmd \in CommandsAt(prompt) /\ commands < MaxCommands
  /\ loop = "connect" => networkActive
  /\ IF Running THEN InSession ELSE OutOfSession

(* The operator's program ends when the server does, although the keyboard *)
(* thread may set networkActive after the network thread has cleared it    *)
(* (tls-alex-client.cpp:172, 190).                                         *)
EndsWhenCutOff == Running /\ ~linked ~> loop = "ended"

=============================================================================
