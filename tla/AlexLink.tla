------------------------------- MODULE AlexLink -------------------------------
(***************************************************************************)
(* The whole of Alex over queues of packets: the operator's program as     *)
(* Operator describes it, the server on the Pi, the serial line, and the   *)
(* firmware as a handler of packets.                                       *)
(*                                                                         *)
(* Client has the threads of the operator's program and implements         *)
(* Operator; Server has the threads of the Pi's, which handle a command or *)
(* a packet in one step here.  A packet takes longer to cross the serial   *)
(* line than one pass of the firmware's loop, but not than a tune, a       *)
(* reading or the pulse of a teleop movement, during which the loop reads  *)
(* nothing.                                                                *)
(*                                                                         *)
(* The server may be stopped and started again, which resets the firmware; *)
(* the firmware may be reset by itself; the operator's program may be      *)
(* started again, also while the server still waits for the last one.      *)
(*                                                                         *)
(* ListenAtOnce, AnyPacketGreets, StopInManual, ToggleWithNote,            *)
(* ToggleWithoutMode and ToggleTellsOldMode are wrong on purpose: a run    *)
(* must notice each of them in place of the definition that follows it.    *)
(***************************************************************************)
EXTENDS Operator

CONSTANTS
  RingPackets,  \* whole packets that fit into a ring buffer of the firmware
  MaxEvents,    \* bound on the starts of both programs and the resets by itself
                \* of the firmware, altogether
  MaxInputs     \* bound on these and the commands, altogether

ASSUME LinkAssumption ==
  RingPackets \in Nat \ {0, 1} /\ MaxEvents \in Nat /\ MaxInputs \in Nat

VARIABLES
  srv,          \* where main() of the server is
  portOpen,     \* did startSerial() open the port?
  srvActive,    \* networkActive of the server
  worker,       \* the worker of the client's connection
  route,        \* does tls_conn point to it?
  stale,        \* does a worker still wait for a client that has gone?
  down,         \* packets written to the port that have not arrived
  rx,           \* packets that have arrived and not been read
  robot,        \* where the firmware is
  robotManual,  \* manualMode of the firmware
  motor,        \* "still", "pulse" or "drive"
  tx,           \* packets on their way to the server
  upAligned,    \* are the frames the server cuts the packets sent?
  resets, starts,
  aware,        \* history: does the client know, or will it, the robot's mode?
  word,         \* history: the last steering command of the connection
  hasty,        \* history: was a command sent before all was quiet?
  rash          \* history: other than a stop with no stop ahead of it?

ofOperator == <<session, leaving, manualMode, prompt, commands, sessions>>
serverSide == <<srv, portOpen, srvActive, worker, route, stale>>
robotSide == <<rx, robot, robotManual, motor>>
lines == <<down, tx, upAligned>>
histories == <<aware, word, hasty, rash>>
linkVars == <<operatorVars, serverSide, robotSide, lines, resets, starts, histories>>

(* The commands that start or end a movement.                              *)
Steers(c) == c.do \in {"drive", "nudge", "stop"}
NoWord == [do |-> "none", by |-> "line"]

Hello == [do |-> "hello", by |-> "line"]
Cut == "CUT"        \* a packet the last bytes of which were refused
Packets == Messages \cup {"TEXT", Cut}

LinkTypeOK ==
  /\ OperatorTypeOK
  /\ srv \in {"down", "opened", "listening", "greeted"}
  /\ portOpen \in BOOLEAN /\ srvActive \in BOOLEAN
  /\ worker \in {"none", "read", "gone"}
  /\ route \in BOOLEAN /\ stale \in BOOLEAN
  /\ down \in Seq(Command \cup {Hello}) /\ rx \in Seq(Command \cup {Hello})
  /\ robot \in {"booting", "hello", "garbled", "loop", "busy", "overrun"}
  /\ robotManual \in BOOLEAN
  /\ motor \in {"still", "pulse", "drive"}
  /\ tx \in Seq(Packets) /\ upAligned \in BOOLEAN
  /\ resets \in 0 .. MaxEvents /\ starts \in 0 .. MaxEvents
  /\ aware \in BOOLEAN /\ word \in Command \cup {NoWord}
  /\ hasty \in BOOLEAN /\ rash \in BOOLEAN

(* The firmware has power; the server is not started yet.                  *)
LinkInit ==
  /\ OperatorInit
  /\ srv = "down" /\ portOpen = FALSE /\ srvActive = FALSE
  /\ worker = "none" /\ route = FALSE /\ stale = FALSE
  /\ down = <<>> /\ rx = <<>> /\ tx = <<>> /\ upAligned = TRUE
  /\ robot = "hello" /\ robotManual = TRUE
  /\ motor = "still"
  /\ resets = 0 /\ starts = 0
  /\ aware = TRUE /\ word = NoWord /\ hasty = FALSE /\ rash = FALSE

-----------------------------------------------------------------------------
(* The firmware's transmit buffer: whole packets that surely fit, and one  *)
(* more if enough of the first has left already.                           *)
Sendable(n, k) == n + k <= RingPackets
MaySend(n, k) == n + k <= RingPackets + 1

(* sendResponse() for each packet of ps: bytes that do not fit are refused.*)
Send(ps) ==
  \/ MaySend(Len(tx), Len(ps)) /\ tx' = tx \o ps
  \/ /\ ~Sendable(Len(tx), Len(ps))
     /\ LET room == IF RingPackets > Len(tx) THEN RingPackets - Len(tx) ELSE 0
        IN tx' = tx \o SubSeq(ps, 1, room) \o <<Cut>>

Events == sessions + starts + resets
MoreInputs == commands + Events < MaxInputs
MoreEvents == MoreInputs /\ Events < MaxEvents

(* No steering command is under way in q.                                  *)
NoneSteers(q) == \A i \in DOMAIN q : ~Steers(q[i])

(* Is nothing under way, and the robot greeted and done?                   *)
Quiet ==
  /\ toServer = <<>> /\ down = <<>> /\ rx = <<>>
  /\ robot = "loop"
  /\ tx = <<>> /\ toClient = <<>>

-----------------------------------------------------------------------------
(* The server.                                                             *)

(* The reset that opening the port, or the button, brings about.           *)
Reset(next) ==
  /\ robot' = next /\ robotManual' = TRUE
  /\ motor' = "still" /\ rx' = <<>>

(* main(): startSerial() with all its attempts, which may all fail.        *)
OpenPort ==
  /\ srv = "down" /\ MoreEvents
  /\ starts' = starts + 1
  /\ srv' = "opened"
  /\ portOpen' \in BOOLEAN
  /\ srvActive' = TRUE
  /\ IF portOpen'
     THEN Reset("booting") /\ down' = <<>> /\ tx' = <<>> /\ upAligned' = TRUE
     ELSE UNCHANGED <<robotSide, lines>>
  /\ UNCHANGED <<operatorVars, worker, route, stale, resets, histories>>

(* The firmware's setup() begins to listen, perhaps in the middle of a     *)
(* packet.                                                                 *)
Boot ==
  /\ robot = "booting"
  /\ \/ robot' = "hello" /\ UNCHANGED down
     \/ down # <<>> /\ robot' = "garbled" /\ down' = Tail(down)
  /\ UNCHANGED <<operatorVars, serverSide, rx, robotManual, motor, tx, upAligned,
                 resets, starts, histories>>

(* createServer() after sleep(3), which is longer than that.               *)
ListenAtOnce == TRUE
ListenAfterBoot == robot # "booting"

Listen ==
  /\ srv = "opened"
  /\ ListenAfterBoot
  /\ srv' = "listening"
  /\ UNCHANGED <<operatorVars, portOpen, srvActive, worker, route, stale, robotSide,
                 lines, resets, starts, histories>>

(* uartSendPacket(): serialWrite() drops the packet if there is no port.   *)
Forward(p) ==
  down' = IF portOpen THEN Append(down, p) ELSE down

SendHello ==
  /\ srv = "listening"
  /\ srv' = "greeted"
  /\ Forward(Hello)
  /\ UNCHANGED <<operatorVars, portOpen, srvActive, worker, route, stale, robotSide,
                 tx, upAligned, resets, starts, histories>>

(* The listener and worker(): a new worker, whose client is dropped if the *)
(* session has ended, though its socket is not closed.  An earlier client  *)
(* may not have been missed yet.                                           *)
Works == worker = "read"

Accept ==
  /\ srv \in {"listening", "greeted"}
  /\ Works => toServer = <<>>
  /\ Connect
  /\ worker' = IF srvActive THEN "read" ELSE "gone"
  /\ route' = FALSE
  /\ stale' = (stale \/ Works)
  /\ aware' = (worker = "none") /\ word' = NoWord
  /\ UNCHANGED <<srv, portOpen, srvActive, robotSide, lines, resets, starts, hasty, rash>>

(* sslRead(), networkActive = 1, handleNetworkData(), handleCommand().     *)
Work ==
  /\ Works /\ toServer # <<>>
  /\ Forward(Head(toServer))
  /\ toServer' = Tail(toServer)
  /\ srvActive' = TRUE /\ route' = TRUE
  /\ UNCHANGED <<ofOperator, toClient, linked, srv, portOpen, worker, stale, robotSide,
                 tx, upAligned, resets, starts, histories>>

(* sslRead() finds that the client has gone.                               *)
ReadFails ==
  /\ Works /\ ~linked /\ toServer = <<>>
  /\ srvActive' = FALSE /\ route' = FALSE /\ worker' = "gone"
  /\ UNCHANGED <<operatorVars, srv, portOpen, stale, robotSide, lines, resets, starts,
                 histories>>

(* while(networkActive): another thread that clears it ends a worker that  *)
(* it catches between its last read and this test, also of a live client.  *)
TestsActive ==
  worker' \in IF Works /\ ~srvActive' THEN {"read", "gone"} ELSE {worker}

(* sslRead() in the worker of an earlier client.  It stays if networkActive*)
(* is set again before it tests it.                                        *)
StaleReadFails ==
  /\ stale
  /\ srvActive' = FALSE /\ stale' \in BOOLEAN /\ TestsActive
  /\ route' = (route /\ stale' /\ worker' = worker)
  /\ UNCHANGED <<operatorVars, srv, portOpen, robotSide, lines, resets, starts,
                 histories>>

WorkerStep == Work \/ ReadFails \/ StaleReadFails

(* The process ends: the client reads what was sent and then the end.      *)
ServerStops ==
  /\ srv' = "down" /\ srvActive' = FALSE
  /\ worker' = "none" /\ route' = FALSE /\ stale' = FALSE
  /\ linked' = FALSE /\ toServer' = <<>>

StopServer ==
  /\ srv # "down"
  /\ ServerStops
  /\ UNCHANGED <<ofOperator, toClient, portOpen, robotSide, lines, resets, starts,
                 histories>>

(* uartReceiveThread(): a packet arrives in full.  Nothing behind a packet *)
(* that was cut is where the next is expected.                             *)
Arrives ==
  /\ tx # <<>>
  /\ tx' = Tail(tx)
  /\ upAligned' = (upAligned /\ Head(tx) # Cut)

(* Text is printed, and so are packets that are not good ones; without a   *)
(* server, or a port, the bytes are lost.                                  *)
Relayed == srv # "down" /\ portOpen /\ upAligned /\ Head(tx) \in Messages

ToldInVain ==
  aware' = (aware /\ Head(tx) \notin Modes) /\ UNCHANGED <<word, hasty, rash>>

Drop ==
  /\ Arrives /\ ~(Relayed /\ srvActive)
  /\ ToldInVain
  /\ UNCHANGED <<operatorVars, serverSide, robotSide, down, resets, starts>>

(* sendNetworkData() to the client.                                        *)
Pass ==
  /\ Arrives /\ Relayed /\ srvActive /\ route /\ linked
  /\ toClient' = Append(toClient, Head(tx))
  /\ aware' = (aware \/ Head(tx) \in Modes)
  /\ UNCHANGED <<ofOperator, toServer, linked, serverSide, robotSide, down, resets,
                 starts, word, hasty, rash>>

(* The same without a client, where networkActive is set from a variable   *)
(* that is not, or with one that has gone, where the write may succeed,    *)
(* fail or kill the server.                                                *)
PassToNobody ==
  /\ Arrives /\ Relayed /\ srvActive /\ ~(route /\ linked)
  /\ \/ /\ srvActive' \in BOOLEAN /\ TestsActive
        /\ route' = (route /\ worker' = worker)
        /\ UNCHANGED <<operatorVars, srv, portOpen, stale>>
     \/ /\ route \/ stale
        /\ ServerStops
        /\ UNCHANGED <<ofOperator, toClient, portOpen>>
  /\ ToldInVain
  /\ UNCHANGED <<robotSide, down, resets, starts>>

-----------------------------------------------------------------------------
(* The firmware.                                                           *)

(* The loop reads a packet before the next one has arrived, unless it is   *)
(* busy; two are more than it can read then (ReadAll).                     *)
Receive ==
  /\ down # <<>>
  /\ robot \in {"booting", "overrun"} \/ (robot = "busy" /\ Len(rx) < 2)
  /\ down' = Tail(down)
  /\ rx' = IF robot = "busy" THEN Append(rx, Head(down)) ELSE <<>>
  /\ UNCHANGED <<operatorVars, serverSide, robot, robotManual, motor, tx,
                 upAligned, resets, starts, histories>>

(* readPacket(): what has arrived, or arrives now.                         *)
Packet == Head(rx \o down)

Handles ==
  /\ rx \o down # <<>>
  /\ IF rx # <<>> THEN rx' = Tail(rx) /\ UNCHANGED down
                  ELSE down' = Tail(down) /\ UNCHANGED rx
  /\ UNCHANGED <<operatorVars, serverSide, upAligned, resets, starts, histories>>

(* waitForHello(): anything else is answered RESP_BAD_RESPONSE.            *)
AnyPacketGreets(p) == TRUE
Greets(p) == p = Hello

WaitForHello ==
  /\ robot = "hello" /\ Handles
  /\ Send(<<"ANSWER">>)
  /\ robot' = IF Greets(Packet) THEN "loop" ELSE "hello"
  /\ UNCHANGED <<robotManual, motor>>

(* handlePacket().  It would ignore a greeting, but every one comes after  *)
(* a reset.                                                                *)
InLoop == robot = "loop" /\ Handles

(* COMMAND_FORWARD and the other movements in manual mode: distance 0 is   *)
(* no limit (Drive has the other distances), and power 0 no movement.      *)
Move ==
  /\ InLoop /\ robotManual /\ Packet.do \in {"drive", "nudge"}
  /\ Send(<<"ANSWER">>)
  /\ motor' = IF Packet.do = "drive" THEN "drive" ELSE "still"
  /\ UNCHANGED <<robot, robotManual>>

(* The same in teleop mode: for a fixed time, with a fixed power.          *)
Pulse ==
  /\ InLoop /\ ~robotManual /\ Packet.do \in {"drive", "nudge"}
  /\ Send(<<"ANSWER">>)
  /\ motor' = "pulse"
  /\ robot' = "busy"
  /\ UNCHANGED robotManual

(* COMMAND_STOP.                                                           *)
StopInManual == IF robotManual THEN "still" ELSE motor
StopNow == "still"

Stop ==
  /\ InLoop /\ Packet.do = "stop"
  /\ Send(<<"ANSWER">>)
  /\ motor' = StopNow
  /\ UNCHANGED <<robot, robotManual>>

(* The sensors and the five tunes: RESP_OK, the work, the result.          *)
Query ==
  /\ InLoop /\ Packet.do = "query"
  /\ Send(<<"ANSWER">>)
  /\ robot' = "busy"
  /\ UNCHANGED <<robotManual, motor>>

(* COMMAND_TOGGLE_MANUAL: three packets.                                   *)
ToggleWithNote(manual) ==
  <<"ANSWER", "TEXT", "TEXT", IF manual THEN "ON" ELSE "OFF">>
ToggleWithoutMode(manual) == <<"ANSWER", "TEXT", "MODE">>
ToggleTellsOldMode(manual) == <<"ANSWER", "TEXT", IF manual THEN "OFF" ELSE "ON">>
ToggleAnswers(manual) == <<"ANSWER", "TEXT", IF manual THEN "ON" ELSE "OFF">>

Toggle ==
  /\ InLoop /\ Packet.do = "toggle"
  /\ robotManual' = ~robotManual
  /\ Send(ToggleAnswers(~robotManual))
  /\ UNCHANGED <<robot, motor>>

(* The end of what it was busy with, and the next readPacket(): all that   *)
(* has arrived goes into a buffer of one packet.  Part of a packet may be  *)
(* there behind a whole one.                                               *)
ReadAll ==
  IF Len(rx) >= 2 THEN {"overrun"}
  ELSE IF rx # <<>> /\ down # <<>> THEN {"loop", "overrun"} ELSE {"loop"}

FinishTask ==
  /\ robot = "busy"
  /\ IF motor = "pulse" THEN motor' = "still" /\ UNCHANGED tx
                         ELSE Send(<<"ANSWER">>) /\ UNCHANGED motor
  /\ robot' \in ReadAll
  /\ UNCHANGED <<operatorVars, serverSide, rx, robotManual, down, upAligned,
                 resets, starts, histories>>

(* The button is pressed or the battery drops.  A packet may be cut on     *)
(* either line, after which the receiver never gets a good one.            *)
ResetAlone ==
  /\ MoreEvents /\ robot # "booting"
  /\ resets' = resets + 1
  /\ \E next \in IF down = <<>> THEN {"booting"} ELSE {"booting", "garbled"} : Reset(next)
  /\ tx' \in IF tx = <<>> THEN {tx} ELSE {<<>>, <<Cut>>}
  /\ down' = <<>>
  /\ UNCHANGED <<operatorVars, serverSide, upAligned, starts, histories>>

(* readPacket() of a firmware that cuts its frames in the wrong places.    *)
AnswerGarbled ==
  /\ robot = "garbled" /\ Handles
  /\ Send(<<"ANSWER">>) \/ UNCHANGED tx
  /\ UNCHANGED <<robot, robotManual, motor>>

Handle ==
  \/ WaitForHello \/ Move \/ Pulse \/ Stop \/ Query \/ Toggle \/ AnswerGarbled

-----------------------------------------------------------------------------
Elsewhere == <<serverSide, robotSide, lines, resets, starts>>

(* What the operator and his program do, with its history.                 *)
NoStopAhead == \A q \in {toServer, down, rx} : \A i \in DOMAIN q : q[i].do # "stop"

SendNow(c) ==
  /\ SendCommand(c)
  /\ MoreInputs
  /\ word' = IF Steers(c) THEN c ELSE word
  /\ hasty' = (hasty \/ ~Quiet)
  /\ rash' = (rash \/ ~(Quiet \/ (c.do = "stop" /\ NoStopAhead)))
  /\ UNCHANGED aware

(* What the program does after the connection is lost is seen by nobody,   *)
(* nor are the commands that it loses.  Told to end, it does so at once.   *)
ClientStep ==
  /\ UNCHANGED Elsewhere
  /\ \/ \E c \in Command : SendNow(c)
     \/ /\ \/ linked /\ (ShowPrompt \/ TakeMessage)
           \/ Ends
           \/ MoreEvents /\ StartAgain
        /\ UNCHANGED histories

UartStep == Drop \/ Pass \/ PassToNobody
FirmwareStep == FinishTask \/ Handle

LinkNext ==
  \/ ClientStep
  \/ OpenPort \/ Listen \/ SendHello \/ StopServer \/ Accept
  \/ WorkerStep \/ UartStep
  \/ Boot \/ Receive \/ FirmwareStep \/ ResetAlone

(* The threads of the programs, the serial line and the processor of the   *)
(* robot go on as long as one of them can.  Nobody has to type, to start,  *)
(* to stop or to reset.                                                    *)
Progress ==
  \/ linked /\ TakeMessage /\ UNCHANGED <<Elsewhere, histories>>
  \/ Listen \/ SendHello \/ Work \/ UartStep
  \/ Boot \/ Receive \/ FirmwareStep

LinkFairness == WF_linkVars(Progress)

LinkSpec == LinkInit /\ [][LinkNext]_linkVars /\ LinkFairness

-----------------------------------------------------------------------------
(* Is there nothing between the two modes: no mode on its way up?  A toggle *)
(* on its way down does not matter before the robot has taken it.          *)
Settled == \A q \in {tx, toClient} : \A i \in DOMAIN q : q[i] \notin Modes

(* Does the connection reach the robot's line?                             *)
Connected == linked /\ Works /\ portOpen

(* Client, server and robot work, and none of them has lost a byte.        *)
InSession ==
  /\ session = "live" /\ ~leaving /\ Connected
  /\ robot \in {"hello", "loop", "busy"} /\ resets = 0
  /\ upAligned /\ \A i \in DOMAIN tx : tx[i] # Cut

(* The mode the operator's program goes by when it next shows a prompt is  *)
(* the robot's, although either may have been started anew                 *)
(* (tls-alex-client.cpp:19, Alex-a.ino:526-534).  A client that found an   *)
(* earlier client's robot knows from its first toggle on.  The prompt it   *)
(* shows already may be the old one's: it waits in an input.               *)
ModesAgree ==
  InSession /\ Settled /\ aware => manualMode = robotManual

(* An operator who waits until the robot has answered, and a pulse, whose  *)
(* end is not told, is over, before the next command, never overruns the   *)
(* buffer of a busy robot (Alex-a.ino:352), nor fills the one of its       *)
(* answers (uart.cpp:58).                                                  *)
PatientOperatorLosesNothing ==
  ~hasty /\ resets = 0 =>
    /\ robot \notin {"overrun", "garbled"}
    /\ upAligned /\ \A i \in DOMAIN tx : tx[i] # Cut

(* The operator has the last word: a robot that drives without an end,     *)
(* with no movement and no stop on its way to it, was told to by a line    *)
(* that was the last such command of this connection.  No stop has been    *)
(* overtaken or dropped behind a tune (Alex-a.ino:485), and no key of      *)
(* teleop mode has reached a robot in manual mode and made it drive off,   *)
(* where its distance of 0 has no limit (robotlib.ino:68).                 *)
LastWordHolds ==
  /\ Connected /\ robot # "overrun" /\ word # NoWord
  /\ NoneSteers(toServer) /\ NoneSteers(down) /\ NoneSteers(rx)
  /\ motor = "drive"
  => word = LineCommand("drive")

(* A robot that missed its greeting obeys nobody until the server is       *)
(* started again (Alex-a.ino:547, tls-alex-server.cpp:464).                *)
Stranded ==
  /\ srv = "greeted" /\ robot \in {"booting", "hello"}
  /\ \A q \in {down, rx} : \A i \in DOMAIN q : q[i] # Hello
StrandedStaysStranded ==
  [][ Stranded => Stranded' \/ srv' = "down" \/ robot' = "garbled" ]_linkVars

(* The greeting of a server that has the port reaches the robot, whatever  *)
(* clients send before it.                                                 *)
GreetingIsHeard ==
  srv = "greeted" /\ portOpen ~>
    robot \notin {"booting", "hello"} \/ srv = "down" \/ resets > 0

(* A stop is obeyed, whatever commands, tunes and pulses are ahead of it,  *)
(* unless a movement follows it or the connection is lost: the motors      *)
(* stand still, and nothing that could move them is on its way.  Only who  *)
(* sends more than this one command without waiting may overrun the robot  *)
(* (Alex-a.ino:352), which then may not.                                   *)
Obeyed ==
  /\ motor = "still"
  /\ NoneSteers(toServer) /\ NoneSteers(down) /\ NoneSteers(rx)

StopIsObeyed ==
  Connected /\ word.do = "stop" ~>
    Obeyed \/ word.do # "stop" \/ ~Connected \/ (rash /\ robot = "overrun")

=============================================================================
