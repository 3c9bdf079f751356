------------------------------ MODULE LinkProofs ------------------------------
(***************************************************************************)
(* Proofs about the whole of Alex, for any commands, any number of them,   *)
(* of starts and of resets, and buffers of any size: the type invariant,   *)
(* that the operator has the last word about a robot that drives, that     *)
(* only a restart of the server helps a robot that has missed its          *)
(* greeting, that a patient operator loses nothing, and that client and    *)
(* robot agree about the mode.                                             *)
(***************************************************************************)
EXTENDS AlexLink, TLAPS

USE CommandsAssumption, LinkAssumption

DownPackets == Command \cup {Hello}

(* LinkTypeOK in parts, by who writes the variables.                       *)
ServerTypes ==
  /\ srv \in {"down", "opened", "listening", "greeted"}
  /\ portOpen \in BOOLEAN /\ srvActive \in BOOLEAN
  /\ worker \in {"none", "read", "gone"}
  /\ route \in BOOLEAN /\ stale \in BOOLEAN
RobotTypes ==
  /\ rx \in Seq(DownPackets)
  /\ robot \in {"booting", "hello", "garbled", "loop", "busy", "overrun"}
  /\ robotManual \in BOOLEAN
  /\ motor \in {"still", "pulse", "drive"}
LineTypes ==
  down \in Seq(DownPackets) /\ tx \in Seq(Packets) /\ upAligned \in BOOLEAN
CounterTypes ==
  /\ resets \in 0 .. MaxEvents /\ starts \in 0 .. MaxEvents
  /\ aware \in BOOLEAN /\ word \in Command \cup {NoWord}
  /\ hasty \in BOOLEAN /\ rash \in BOOLEAN

LEMMA TypesSplit ==
  LinkTypeOK <=> OperatorTypeOK /\ ServerTypes /\ RobotTypes /\ LineTypes /\ CounterTypes
BY DEF LinkTypeOK, ServerTypes, RobotTypes, LineTypes, CounterTypes, DownPackets

LEMMA TypesJoin ==
  ASSUME (OperatorTypeOK /\ ServerTypes /\ RobotTypes /\ LineTypes /\ CounterTypes)'
  PROVE  LinkTypeOK'
BY DEF LinkTypeOK, ServerTypes, RobotTypes, LineTypes, CounterTypes, DownPackets

-----------------------------------------------------------------------------
(* Commands and queues.                                                    *)

LEMMA CommandsOfAPrompt ==
  ASSUME NEW p \in {"line", "key"}
  PROVE  CommandsAt(p) \subseteq Command
BY DEF CommandsAt, Command

(* A drive is a line, and no command is a greeting.                        *)
LEMMA DrivesAreLines ==
  ASSUME NEW p \in DownPackets
  PROVE  /\ p.do = "drive" => p.by = "line"
         /\ p # Hello => p \in Command
BY DEF DownPackets, Hello, Command, CommandsAt, LineCommand, KeyCommand, TeleopCommands

LEMMA CommandsAreNoGreeting == Hello \notin Command
BY DEF Hello, Command, CommandsAt, LineCommand, KeyCommand, TeleopCommands, ManualCommands

LEMMA HeadAndTail ==
  ASSUME NEW S, NEW s \in Seq(S), s # <<>>
  PROVE  Head(s) \in S /\ Tail(s) \in Seq(S)
OBVIOUS

LEMMA EmptyQueue == ASSUME NEW S PROVE <<>> \in Seq(S)
OBVIOUS

LEMMA HeadOfBoth ==
  ASSUME NEW S, NEW s \in Seq(S), NEW t \in Seq(S), s \o t # <<>>
  PROVE  /\ s # <<>> => Head(s \o t) = Head(s)
         /\ s = <<>> => Head(s \o t) = Head(t) /\ t # <<>>
<1>1. CASE s = <<>>
  <2>1. s \o t = t
    BY <1>1
  <2>. QED BY <1>1, <2>1
<1>2. CASE s # <<>>
  <2>1. Len(s) >= 1 /\ (s \o t)[1] = s[1]
    BY <1>2
  <2>. QED BY <1>2, <2>1
<1>. QED BY <1>1, <1>2

LEMMA SendTypes ==
  ASSUME NEW ps \in Seq(Packets), tx \in Seq(Packets), Send(ps)
  PROVE  tx' \in Seq(Packets)
<1>. DEFINE room == IF RingPackets > Len(tx) THEN RingPackets - Len(tx) ELSE 0
<1>1. CASE tx' = tx \o ps
  BY <1>1
<1>2. CASE ~Sendable(Len(tx), Len(ps)) /\ tx' = tx \o SubSeq(ps, 1, room) \o <<Cut>>
  <2>1. room \in Nat /\ room <= Len(ps) /\ Cut \in Packets
    BY <1>2 DEF Sendable, Packets
  <2>2. SubSeq(ps, 1, room) \in Seq(Packets)
    BY <2>1
  <2>3. <<Cut>> \in Seq(Packets)
    BY <2>1
  <2>. HIDE DEF room
  <2>4. tx \o SubSeq(ps, 1, room) \in Seq(Packets)
    BY <2>2
  <2>. QED BY <1>2, <2>3, <2>4
<1>. QED BY <1>1, <1>2 DEF Send

LEMMA AnswerTypes ==
  /\ <<"ANSWER">> \in Seq(Packets)
  /\ \A manual \in BOOLEAN : ToggleAnswers(manual) \in Seq(Packets)
<1>1. {"ANSWER", "TEXT", "ON", "OFF"} \subseteq Packets
  BY DEF Packets, Messages, Modes
<1>. QED BY <1>1 DEF ToggleAnswers

LEMMA HandlesTypes ==
  ASSUME RobotTypes, LineTypes, Handles
  PROVE  /\ rx' \in Seq(DownPackets) /\ down' \in Seq(DownPackets)
         /\ Packet \in DownPackets
         /\ \/ rx # <<>> /\ Packet = Head(rx) /\ rx' = Tail(rx) /\ down' = down
            \/ rx = <<>> /\ down # <<>> /\ Packet = Head(down) /\ down' = Tail(down)
               /\ rx' = rx
<1>1. rx \in Seq(DownPackets) /\ down \in Seq(DownPackets)
  BY DEF RobotTypes, LineTypes
<1>2. rx # <<>> => Packet = Head(rx)
  BY <1>1, HeadOfBoth DEF Handles, Packet
<1>3. rx = <<>> => Packet = Head(down) /\ down # <<>>
  BY <1>1, HeadOfBoth DEF Handles, Packet
<1>4. CASE rx # <<>>
  <2>1. Packet = Head(rx) /\ rx' = Tail(rx) /\ down' = down
    BY <1>2, <1>4 DEF Handles
  <2>. QED BY <1>1, <1>4, <2>1, HeadAndTail
<1>5. CASE rx = <<>>
  <2>1. Packet = Head(down) /\ down # <<>> /\ down' = Tail(down) /\ rx' = rx
    BY <1>3, <1>5 DEF Handles
  <2>. QED BY <1>1, <1>5, <2>1, HeadAndTail
<1>. QED BY <1>4, <1>5

LEMMA ForwardTypes ==
  ASSUME NEW p \in DownPackets, down \in Seq(DownPackets), Forward(p)
  PROVE  down' \in Seq(DownPackets)
BY DEF Forward

-----------------------------------------------------------------------------
(* The type invariant.                                                     *)

LEMMA LinkTypeInitial == LinkInit => LinkTypeOK
<1>. SUFFICES ASSUME LinkInit PROVE LinkTypeOK
  OBVIOUS
<1>. USE DEF LinkInit, OperatorInit
<1>1. OperatorTypeOK
  <2>1. 0 \in 0 .. MaxCommands /\ 1 \in 1 .. MaxSessions
    OBVIOUS
  <2>2. <<>> \in Seq(Command) /\ <<>> \in Seq(Messages)
    OBVIOUS
  <2>3. linked \in BOOLEAN /\ leaving \in BOOLEAN /\ manualMode \in BOOLEAN
    BY Zenon
  <2>. QED BY <2>1, <2>2, <2>3 DEF OperatorTypeOK
<1>2. ServerTypes
  BY DEF ServerTypes
<1>3. RobotTypes /\ LineTypes
  BY DEF RobotTypes, LineTypes
<1>4. CounterTypes
  <2>1. aware \in BOOLEAN /\ hasty \in BOOLEAN /\ rash \in BOOLEAN
    BY Zenon
  <2>. QED BY <2>1 DEF CounterTypes
<1>. QED BY <1>1, <1>2, <1>3, <1>4, TypesSplit

(* The operator's program.                                                 *)
LEMMA ClientStepTypes ==
  ASSUME LinkTypeOK, ClientStep
  PROVE  LinkTypeOK'
<1>1. OperatorTypeOK /\ ServerTypes /\ RobotTypes /\ LineTypes /\ CounterTypes
  BY TypesSplit
<1>2. (ServerTypes /\ RobotTypes /\ LineTypes)'
  BY <1>1 DEF ClientStep, Elsewhere, serverSide, robotSide, lines, ServerTypes,
              RobotTypes, LineTypes
<1>3. /\ OperatorTypeOK' /\ aware' \in BOOLEAN /\ hasty' \in BOOLEAN
      /\ word' \in Command \cup {NoWord} /\ rash' \in BOOLEAN
  <2>1. CASE \E c \in Command : SendNow(c)
    <3>1. PICK c \in Command : SendNow(c)
      BY <2>1
    <3>2. toServer' \in Seq(Command) /\ commands' \in 0 .. MaxCommands
      BY <1>1, <3>1 DEF SendNow, SendCommand, OperatorTypeOK
    <3>3. /\ aware' \in BOOLEAN /\ hasty' \in BOOLEAN
          /\ word' \in Command \cup {NoWord} /\ rash' \in BOOLEAN
      <4>1. /\ hasty' = (hasty \/ ~Quiet)
            /\ rash' = (rash \/ ~(Quiet \/ (c.do = "stop" /\ NoStopAhead)))
        BY <3>1 DEF SendNow
      <4>2. hasty' \in BOOLEAN /\ rash' \in BOOLEAN
        BY <4>1, Zenon
      <4>3. word' \in {word, c}
        BY <3>1 DEF SendNow
      <4>. QED BY <1>1, <3>1, <4>2, <4>3 DEF SendNow, CounterTypes
    <3>. QED BY <1>1, <3>1, <3>2, <3>3 DEF SendNow, SendCommand, OperatorTypeOK
  <2>2. CASE ShowPrompt /\ UNCHANGED histories
    BY <1>1, <2>2 DEF ShowPrompt, histories, OperatorTypeOK, CounterTypes
  <2>3. CASE TakeMessage /\ UNCHANGED histories
    <3>1. Head(toClient) \in Messages /\ toClient' \in Seq(Messages)
      BY <1>1, <2>3, HeadAndTail DEF TakeMessage, OperatorTypeOK
    <3>2. manualMode' = IF Head(toClient) \in Modes THEN Head(toClient) = "ON"
                                                     ELSE manualMode
      BY <2>3 DEF TakeMessage, ModeTold
    <3>3. manualMode' \in BOOLEAN
      BY <1>1, <3>2, Zenon DEF OperatorTypeOK
    <3>. QED BY <1>1, <2>3, <3>1, <3>3
             DEF TakeMessage, histories, OperatorTypeOK, CounterTypes
  <2>4. CASE Ends /\ UNCHANGED histories
    <3>1. toServer' \in Seq(Command) /\ toClient' \in Seq(Messages)
      <4>1. toServer' \in {toServer, <<>>} /\ toClient' = <<>>
        BY <2>4 DEF Ends
      <4>2. toServer \in Seq(Command)
        BY <1>1 DEF OperatorTypeOK
      <4>. QED BY <4>1, <4>2, EmptyQueue, Zenon
    <3>2. manualMode' \in BOOLEAN /\ leaving' \in BOOLEAN /\ linked' \in BOOLEAN
      BY <2>4, Zenon DEF Ends
    <3>. QED BY <1>1, <2>4, <3>1, <3>2
             DEF Ends, histories, OperatorTypeOK, CounterTypes
  <2>5. CASE StartAgain /\ UNCHANGED histories
    BY <1>1, <2>5 DEF StartAgain, histories, OperatorTypeOK, CounterTypes
  <2>. QED BY <2>1, <2>2, <2>3, <2>4, <2>5 DEF ClientStep
<1>4. CounterTypes'
  BY <1>1, <1>3 DEF ClientStep, Elsewhere, CounterTypes
<1>. QED BY <1>2, <1>3, <1>4, TypesJoin

(* The server: main(), the listener and the workers.                       *)
LEMMA MainTypes ==
  ASSUME LinkTypeOK, OpenPort \/ Listen \/ SendHello \/ StopServer
  PROVE  LinkTypeOK'
<1>1. OperatorTypeOK /\ ServerTypes /\ RobotTypes /\ LineTypes /\ CounterTypes
  BY TypesSplit
<1>. USE DEF serverSide, robotSide, lines, histories
<1>2. CASE OpenPort
  <2>1. starts' \in 0 .. MaxEvents /\ CounterTypes'
    BY <1>1, <1>2 DEF OpenPort, MoreEvents, Events, CounterTypes, OperatorTypeOK
  <2>2. (RobotTypes /\ LineTypes)'
    <3>1. CASE Reset("booting") /\ down' = <<>> /\ tx' = <<>> /\ upAligned' = TRUE
      <4>1. robotManual' \in BOOLEAN /\ upAligned' \in BOOLEAN
        BY <3>1, Zenon DEF Reset
      <4>. QED BY <3>1, <4>1 DEF Reset, RobotTypes, LineTypes
    <3>2. CASE UNCHANGED <<robotSide, lines>>
      BY <1>1, <3>2 DEF RobotTypes, LineTypes
    <3>. QED BY <1>2, <3>1, <3>2 DEF OpenPort
  <2>3. ServerTypes'
    BY <1>1, <1>2 DEF OpenPort, ServerTypes
  <2>4. OperatorTypeOK'
    BY <1>1, <1>2 DEF OpenPort, operatorVars, OperatorTypeOK
  <2>. QED BY <2>1, <2>2, <2>3, <2>4, TypesJoin
<1>3. CASE Listen
  <2>1. ServerTypes'
    BY <1>1, <1>3 DEF Listen, ServerTypes
  <2>2. (OperatorTypeOK /\ RobotTypes /\ LineTypes /\ CounterTypes)'
    BY <1>1, <1>3 DEF Listen, operatorVars, OperatorTypeOK, RobotTypes, LineTypes,
                      CounterTypes
  <2>. QED BY <2>1, <2>2, TypesJoin
<1>4. CASE SendHello
  <2>1. Hello \in DownPackets
    BY DEF DownPackets
  <2>2. LineTypes'
    BY <1>1, <1>4, <2>1, ForwardTypes DEF SendHello, LineTypes
  <2>3. ServerTypes'
    BY <1>1, <1>4 DEF SendHello, ServerTypes
  <2>4. (OperatorTypeOK /\ RobotTypes /\ CounterTypes)'
    BY <1>1, <1>4 DEF SendHello, operatorVars, OperatorTypeOK, RobotTypes, CounterTypes
  <2>. QED BY <2>2, <2>3, <2>4, TypesJoin
<1>5. CASE StopServer
  <2>1. ServerTypes'
    BY <1>1, <1>5 DEF StopServer, ServerStops, ServerTypes
  <2>2. OperatorTypeOK'
    <3>1. toServer' \in Seq(Command) /\ linked' \in BOOLEAN
      BY <1>5, EmptyQueue, Zenon DEF StopServer, ServerStops
    <3>. QED BY <1>1, <1>5, <3>1 DEF StopServer, ofOperator, OperatorTypeOK
  <2>3. (RobotTypes /\ LineTypes /\ CounterTypes)'
    BY <1>1, <1>5 DEF StopServer, RobotTypes, LineTypes, CounterTypes
  <2>. QED BY <2>1, <2>2, <2>3, TypesJoin
<1>. QED BY <1>2, <1>3, <1>4, <1>5

LEMMA WorkerTypes ==
  ASSUME LinkTypeOK, Accept \/ WorkerStep
  PROVE  LinkTypeOK'
<1>1. OperatorTypeOK /\ ServerTypes /\ RobotTypes /\ LineTypes /\ CounterTypes
  BY TypesSplit
<1>. USE DEF serverSide, robotSide, lines, histories
<1>2. CASE Accept
  <2>1. (RobotTypes /\ LineTypes)'
    BY <1>1, <1>2 DEF Accept, RobotTypes, LineTypes
  <2>2. stale' \in BOOLEAN /\ aware' \in BOOLEAN
    <3>1. stale' = (stale \/ worker = "read") /\ aware' = (worker = "none")
      BY <1>2 DEF Accept, Works
    <3>. QED BY <3>1, Zenon
  <2>3. ServerTypes'
    BY <1>1, <1>2, <2>2 DEF Accept, ServerTypes
  <2>4. OperatorTypeOK'
    BY <1>1, <1>2 DEF Accept, Connect, OperatorTypeOK
  <2>5. CounterTypes'
    BY <1>1, <1>2, <2>2 DEF Accept, CounterTypes
  <2>. QED BY <2>1, <2>3, <2>4, <2>5, TypesJoin
<1>3. CASE Work
  <2>1. Head(toServer) \in DownPackets /\ toServer' \in Seq(Command)
    BY <1>1, <1>3, HeadAndTail DEF Work, OperatorTypeOK, DownPackets
  <2>2. down' \in Seq(DownPackets)
    BY <1>1, <1>3, <2>1, ForwardTypes DEF Work, LineTypes
  <2>3. OperatorTypeOK'
    BY <1>1, <1>3, <2>1 DEF Work, ofOperator, OperatorTypeOK
  <2>4. (RobotTypes /\ LineTypes /\ CounterTypes)'
    BY <1>1, <1>3, <2>2 DEF Work, RobotTypes, LineTypes, CounterTypes
  <2>5. ServerTypes'
    BY <1>1, <1>3 DEF Work, ServerTypes
  <2>. QED BY <2>3, <2>4, <2>5, TypesJoin
<1>4. CASE ReadFails \/ StaleReadFails
  <2>1. ServerTypes'
    <3>1. route' \in BOOLEAN
      <4>1. route' = FALSE \/ route' = (route /\ stale' /\ worker' = worker)
        BY <1>4 DEF ReadFails, StaleReadFails
      <4>. QED BY <4>1, Zenon
    <3>2. worker' \in {"none", "read", "gone"} /\ stale' \in BOOLEAN
      BY <1>1, <1>4 DEF ReadFails, StaleReadFails, TestsActive, ServerTypes
    <3>. QED BY <1>1, <1>4, <3>1, <3>2 DEF ReadFails, StaleReadFails, ServerTypes
  <2>2. OperatorTypeOK'
    BY <1>1, <1>4 DEF ReadFails, StaleReadFails, operatorVars, OperatorTypeOK
  <2>3. (RobotTypes /\ LineTypes /\ CounterTypes)'
    BY <1>1, <1>4 DEF ReadFails, StaleReadFails, RobotTypes, LineTypes, CounterTypes
  <2>. QED BY <2>1, <2>2, <2>3, TypesJoin
<1>. QED BY <1>2, <1>3, <1>4 DEF WorkerStep

(* uartReceiveThread().                                                    *)
LEMMA UartStepTypes ==
  ASSUME LinkTypeOK, UartStep
  PROVE  LinkTypeOK'
<1>1. OperatorTypeOK /\ ServerTypes /\ RobotTypes /\ LineTypes /\ CounterTypes
  BY TypesSplit
<1>. USE DEF serverSide, robotSide, histories
<1>2. Arrives /\ UNCHANGED <<down, robotSide, resets, starts, word, hasty, rash>>
  BY DEF UartStep, Drop, Pass, PassToNobody, ToldInVain
<1>3. tx' \in Seq(Packets) /\ upAligned' \in BOOLEAN /\ Head(tx) \in Packets
  <2>1. tx' \in Seq(Packets) /\ Head(tx) \in Packets
    BY <1>1, <1>2, HeadAndTail DEF Arrives, LineTypes
  <2>2. upAligned' = (upAligned /\ Head(tx) # Cut)
    BY <1>2 DEF Arrives
  <2>. QED BY <2>1, <2>2, Zenon
<1>4. (RobotTypes /\ LineTypes)'
  BY <1>1, <1>2, <1>3 DEF RobotTypes, LineTypes
<1>5. aware' \in BOOLEAN
  <2>1. \/ aware' = (aware /\ Head(tx) \notin Modes)
        \/ aware' = (aware \/ Head(tx) \in Modes)
    BY DEF UartStep, Drop, Pass, PassToNobody, ToldInVain
  <2>. QED BY <2>1, Zenon
<1>6. CounterTypes'
  BY <1>1, <1>2, <1>5 DEF CounterTypes
<1>7. (OperatorTypeOK /\ ServerTypes)'
  <2>1. CASE Drop
    BY <1>1, <2>1 DEF Drop, operatorVars, OperatorTypeOK, ServerTypes
  <2>2. CASE Pass
    <3>1. Head(tx) \in Messages
      BY <2>2 DEF Pass, Relayed
    <3>2. toClient' \in Seq(Messages)
      BY <1>1, <2>2, <3>1 DEF Pass, OperatorTypeOK
    <3>. QED BY <1>1, <2>2, <3>2 DEF Pass, ofOperator, OperatorTypeOK, ServerTypes
  <2>3. CASE PassToNobody
    <3>1. CASE /\ srvActive' \in BOOLEAN /\ TestsActive
               /\ route' = (route /\ worker' = worker)
               /\ UNCHANGED <<operatorVars, srv, portOpen, stale>>
      <4>1. route' \in BOOLEAN
        BY <3>1, Zenon
      <4>2. worker' \in {"none", "read", "gone"}
        BY <1>1, <3>1 DEF TestsActive, ServerTypes
      <4>. QED BY <1>1, <3>1, <4>1, <4>2 DEF operatorVars, OperatorTypeOK, ServerTypes
    <3>2. CASE ServerStops /\ UNCHANGED <<ofOperator, toClient, portOpen>>
      <4>1. toServer' \in Seq(Command) /\ linked' \in BOOLEAN
        BY <3>2, EmptyQueue, Zenon DEF ServerStops
      <4>2. OperatorTypeOK'
        BY <1>1, <3>2, <4>1 DEF ofOperator, OperatorTypeOK
      <4>. QED BY <1>1, <3>2, <4>2 DEF ServerStops, ServerTypes
    <3>. QED BY <2>3, <3>1, <3>2 DEF PassToNobody
  <2>. QED BY <2>1, <2>2, <2>3 DEF UartStep
<1>. QED BY <1>4, <1>6, <1>7, TypesJoin

(* The firmware.                                                           *)
LEMMA HandleTypes ==
  ASSUME LinkTypeOK, Handle
  PROVE  LinkTypeOK'
<1>1. OperatorTypeOK /\ ServerTypes /\ RobotTypes /\ LineTypes /\ CounterTypes
  BY TypesSplit
<1>2. Handles
  BY DEF Handle, WaitForHello, InLoop, Move, Pulse, Stop, Query, Toggle, AnswerGarbled
<1>3. rx' \in Seq(DownPackets) /\ down' \in Seq(DownPackets)
  BY <1>1, <1>2, HandlesTypes
<1>4. (OperatorTypeOK /\ ServerTypes /\ CounterTypes)' /\ upAligned' = upAligned
  BY <1>1, <1>2 DEF Handles, operatorVars, serverSide, histories, OperatorTypeOK,
                    ServerTypes, CounterTypes
<1>5. tx' \in Seq(Packets)
  <2>1. tx \in Seq(Packets) /\ (~robotManual) \in BOOLEAN
    BY <1>1, Zenon DEF LineTypes
  <2>2. Send(<<"ANSWER">>) \/ Send(ToggleAnswers(~robotManual)) \/ tx' = tx
    BY DEF Handle, WaitForHello, Move, Pulse, Stop, Query, Toggle, AnswerGarbled
  <2>. QED BY <2>1, <2>2, AnswerTypes, SendTypes
<1>6. /\ robot' \in {"booting", "hello", "garbled", "loop", "busy", "overrun"}
      /\ motor' \in {"still", "pulse", "drive"}
  BY <1>1 DEF Handle, WaitForHello, Move, Pulse, Stop, StopNow, Query, Toggle,
              AnswerGarbled, RobotTypes
<1>7. robotManual' \in BOOLEAN
  <2>1. robotManual' = robotManual \/ robotManual' = ~robotManual
    BY DEF Handle, WaitForHello, Move, Pulse, Stop, Query, Toggle, AnswerGarbled
  <2>. QED BY <1>1, <2>1 DEF RobotTypes
<1>8. (RobotTypes /\ LineTypes)'
  BY <1>1, <1>3, <1>4, <1>5, <1>6, <1>7 DEF RobotTypes, LineTypes
<1>. QED BY <1>4, <1>8, TypesJoin

LEMMA RobotAloneTypes ==
  ASSUME LinkTypeOK, Boot \/ Receive \/ FinishTask \/ ResetAlone
  PROVE  LinkTypeOK'
<1>1. OperatorTypeOK /\ ServerTypes /\ RobotTypes /\ LineTypes /\ CounterTypes
  BY TypesSplit
<1>2. rx \in Seq(DownPackets) /\ down \in Seq(DownPackets) /\ tx \in Seq(Packets)
  BY <1>1 DEF RobotTypes, LineTypes
<1>3. (OperatorTypeOK /\ ServerTypes)' /\ upAligned' = upAligned
  BY <1>1 DEF Boot, Receive, FinishTask, ResetAlone, operatorVars, serverSide,
              OperatorTypeOK, ServerTypes
<1>4. CounterTypes'
  BY <1>1 DEF Boot, Receive, FinishTask, ResetAlone, MoreEvents, Events, histories,
              OperatorTypeOK, CounterTypes
<1>5. (RobotTypes /\ LineTypes)'
  <2>1. CASE Boot
    <3>1. down' \in Seq(DownPackets)
      BY <1>2, <2>1, HeadAndTail DEF Boot
    <3>. QED BY <1>1, <2>1, <3>1 DEF Boot, RobotTypes, LineTypes
  <2>2. CASE Receive
    <3>1. down' \in Seq(DownPackets) /\ Head(down) \in DownPackets
      BY <1>2, <2>2, HeadAndTail DEF Receive
    <3>2. rx' \in Seq(DownPackets)
      BY <1>2, <2>2, <3>1 DEF Receive
    <3>. QED BY <1>1, <2>2, <3>1, <3>2 DEF Receive, RobotTypes, LineTypes
  <2>3. CASE FinishTask
    <3>1. tx' \in Seq(Packets)
      BY <1>2, <2>3, AnswerTypes, SendTypes DEF FinishTask
    <3>2. robot' \in {"loop", "overrun"} /\ motor' \in {motor, "still"}
      BY <2>3 DEF FinishTask, ReadAll
    <3>. QED BY <1>1, <2>3, <3>1, <3>2 DEF FinishTask, RobotTypes, LineTypes
  <2>4. CASE ResetAlone
    <3>1. rx' = <<>> /\ down' = <<>> /\ tx' \in {tx, <<>>, <<Cut>>}
      BY <2>4 DEF ResetAlone, Reset
    <3>2. tx' \in Seq(Packets)
      <4>1. <<Cut>> \in Seq(Packets)
        BY DEF Packets
      <4>. QED BY <1>2, <3>1, <4>1, EmptyQueue, Zenon
    <3>3. robot' \in {"booting", "garbled"} /\ motor' = "still"
      BY <2>4 DEF ResetAlone, Reset
    <3>4. robotManual' \in BOOLEAN
      BY <2>4, Zenon DEF ResetAlone, Reset
    <3>5. rx' \in Seq(DownPackets) /\ down' \in Seq(DownPackets)
      BY <3>1, EmptyQueue, Zenon
    <3>. QED BY <1>1, <1>3, <3>2, <3>3, <3>4, <3>5 DEF RobotTypes, LineTypes
  <2>. QED BY <2>1, <2>2, <2>3, <2>4
<1>. QED BY <1>3, <1>4, <1>5, TypesJoin

LEMMA LinkTypeNext ==
  ASSUME LinkTypeOK, [LinkNext]_linkVars
  PROVE  LinkTypeOK'
<1>1. CASE ClientStep
  BY <1>1, ClientStepTypes
<1>2. CASE OpenPort \/ Listen \/ SendHello \/ StopServer
  BY <1>2, MainTypes
<1>3. CASE Accept \/ WorkerStep
  BY <1>3, WorkerTypes
<1>4. CASE UartStep
  BY <1>4, UartStepTypes
<1>5. CASE Handle
  BY <1>5, HandleTypes
<1>6. CASE Boot \/ Receive \/ FinishTask \/ ResetAlone
  BY <1>6, RobotAloneTypes
<1>7. CASE UNCHANGED linkVars
  BY <1>7 DEF LinkTypeOK, OperatorTypeOK, linkVars, operatorVars, serverSide,
              robotSide, lines, histories
<1>. QED BY <1>1, <1>2, <1>3, <1>4, <1>5, <1>6, <1>7 DEF LinkNext, FirmwareStep

(* Every variable has a value of its type.                                 *)
THEOREM LinkTypeCorrect == LinkSpec => []LinkTypeOK
<1>1. LinkTypeOK /\ [LinkNext]_linkVars => LinkTypeOK'
  BY LinkTypeNext
<1>. QED BY LinkTypeInitial, <1>1, PTL DEF LinkSpec

-----------------------------------------------------------------------------
(* The last word.                                                          *)

(* The last steering command in q, if there is one, is w.                  *)
LastSteers(q, w) ==
  \A i \in DOMAIN q :
    Steers(q[i]) /\ (\A j \in DOMAIN q : j > i => ~Steers(q[j])) => q[i] = w

LEMMA SteersEmpty ==
  ASSUME NEW w PROVE NoneSteers(<<>>) /\ LastSteers(<<>>, w)
BY DEF NoneSteers, LastSteers

LEMMA SteersAppended ==
  ASSUME NEW S, NEW q \in Seq(S), NEW e \in S, NEW w
  PROVE  /\ NoneSteers(Append(q, e)) <=> NoneSteers(q) /\ ~Steers(e)
         /\ Steers(e) /\ e = w => LastSteers(Append(q, e), w)
         /\ ~Steers(e) /\ LastSteers(q, w) => LastSteers(Append(q, e), w)
<1>. DEFINE p == Append(q, e)  n == Len(q)
<1>1. n \in Nat /\ DOMAIN q = 1 .. n /\ DOMAIN p = 1 .. n + 1
      /\ p[n + 1] = e /\ \A i \in 1 .. n : p[i] = q[i]
  OBVIOUS
<1>. HIDE DEF p, n
<1>2. DOMAIN p = DOMAIN q \cup {n + 1} /\ \A i \in DOMAIN q : n + 1 > i
      /\ i \in DOMAIN p /\ p[i] = q[i] /\ i # n + 1
  BY <1>1
<1>3. NoneSteers(p) <=> NoneSteers(q) /\ ~Steers(e)
  BY <1>1, <1>2 DEF NoneSteers
<1>4. ASSUME Steers(e), e = w PROVE LastSteers(p, w)
  <2>. SUFFICES ASSUME NEW i \in DOMAIN p, \A j \in DOMAIN p : j > i => ~Steers(p[j])
                PROVE  p[i] = w
    BY DEF LastSteers
  <2>1. i = n + 1
    BY <1>1, <1>2, <1>4
  <2>. QED BY <1>1, <1>4, <2>1
<1>5. ASSUME ~Steers(e), LastSteers(q, w) PROVE LastSteers(p, w)
  <2>. SUFFICES ASSUME NEW i \in DOMAIN p, Steers(p[i]),
                       \A j \in DOMAIN p : j > i => ~Steers(p[j])
                PROVE  p[i] = w
    BY DEF LastSteers
  <2>1. i \in DOMAIN q /\ p[i] = q[i]
    BY <1>1, <1>2, <1>5
  <2>. QED BY <1>2, <1>5, <2>1 DEF LastSteers
<1>. QED BY <1>3, <1>4, <1>5 DEF p

LEMMA SteersTaken ==
  ASSUME NEW S, NEW q \in Seq(S), q # <<>>, NEW w
  PROVE  /\ NoneSteers(q) <=> ~Steers(Head(q)) /\ NoneSteers(Tail(q))
         /\ LastSteers(q, w) => LastSteers(Tail(q), w)
         /\ LastSteers(q, w) /\ Steers(Head(q)) /\ NoneSteers(Tail(q)) => Head(q) = w
<1>. DEFINE t == Tail(q)  n == Len(q)
<1>1. n \in Nat /\ n >= 1 /\ DOMAIN q = 1 .. n /\ DOMAIN t = 1 .. n - 1
      /\ Head(q) = q[1] /\ \A i \in 1 .. n - 1 : t[i] = q[i + 1]
  OBVIOUS
<1>. HIDE DEF t, n
<1>2. /\ \A i \in DOMAIN t : i + 1 \in DOMAIN q /\ i + 1 > 1 /\ t[i] = q[i + 1]
      /\ \A j \in DOMAIN q : j # 1 => j - 1 \in DOMAIN t /\ q[j] = t[j - 1] /\ j > 1
      /\ 1 \in DOMAIN q
  BY <1>1
<1>3. NoneSteers(q) <=> ~Steers(Head(q)) /\ NoneSteers(t)
  BY <1>1, <1>2 DEF NoneSteers
<1>4. ASSUME LastSteers(q, w) PROVE LastSteers(t, w)
  <2>. SUFFICES ASSUME NEW i \in DOMAIN t, Steers(t[i]),
                       \A j \in DOMAIN t : j > i => ~Steers(t[j])
                PROVE  t[i] = w
    BY DEF LastSteers
  <2>1. \A j \in DOMAIN q : j > i + 1 => j - 1 \in DOMAIN t /\ j - 1 > i /\ q[j] = t[j - 1]
    BY <1>1
  <2>2. \A j \in DOMAIN q : j > i + 1 => ~Steers(q[j])
    BY <2>1
  <2>. QED BY <1>2, <1>4, <2>2 DEF LastSteers
<1>5. ASSUME LastSteers(q, w), Steers(Head(q)), NoneSteers(t) PROVE Head(q) = w
  <2>1. \A j \in DOMAIN q : j > 1 => ~Steers(q[j])
    BY <1>1, <1>2, <1>5 DEF NoneSteers
  <2>. QED BY <1>1, <1>2, <1>5, <2>1 DEF LastSteers
<1>. QED BY <1>3, <1>4, <1>5 DEF t

(* The last steering command of the connection is the last on its way,     *)
(* wherever that is, and when none is on its way only a drive may keep the *)
(* robot driving.  One that has not been greeted stands still.             *)
AtServer == LastSteers(toServer, word)
OnLine == NoneSteers(toServer) => LastSteers(down, word)
AtRobot == NoneSteers(toServer) /\ NoneSteers(down) => LastSteers(rx, word)
Taken ==
  NoneSteers(toServer) /\ NoneSteers(down) /\ NoneSteers(rx) /\ motor = "drive"
    => word = LineCommand("drive")
Steered == OnLine /\ AtRobot /\ Taken

Speaks == linked /\ worker = "read" /\ word # NoWord
WordInv ==
  /\ srv = "down" => worker = "none"
  /\ robot \in {"booting", "hello", "garbled"} => motor = "still" /\ rx = <<>>
  /\ Speaks => AtServer
  /\ Speaks /\ portOpen /\ robot # "overrun" => Steered

WordView ==
  <<toServer, linked, srv, portOpen, worker, word, down, rx, robot, motor>>

LEMMA WordUntouched ==
  ASSUME WordInv, UNCHANGED WordView
  PROVE  WordInv'
BY DEF WordInv, WordView, Speaks, AtServer, Steered, OnLine, AtRobot, Taken,
       LastSteers, NoneSteers

LEMMA WordInitial == LinkInit => WordInv
BY DEF LinkInit, OperatorInit, WordInv, Speaks

(* A connection that ends, or a worker that does, says nothing more.       *)
LEMMA Silence ==
  ASSUME WordInv, ~Speaks', srv' = "down" => worker' = "none",
         UNCHANGED <<robot, motor, rx>>
  PROVE  WordInv'
BY DEF WordInv

LEMMA ClientHasLastWord ==
  ASSUME LinkTypeOK, WordInv, ClientStep
  PROVE  WordInv'
<1>1. UNCHANGED <<srv, portOpen, worker, down, rx, robot, motor>>
  BY DEF ClientStep, Elsewhere, serverSide, robotSide, lines
<1>2. CASE \E c \in Command : SendNow(c)
  <2>1. PICK c \in Command : SendNow(c)
    BY <1>2
  <2>2. toServer' = Append(toServer, c) /\ linked' = linked
        /\ word' = (IF Steers(c) THEN c ELSE word) /\ toServer \in Seq(Command)
    BY <2>1, TypesSplit DEF SendNow, SendCommand, OperatorTypeOK
  <2>3. CASE Steers(c)
    <3>1. LastSteers(toServer', word') /\ ~NoneSteers(toServer')
      BY <2>2, <2>3, SteersAppended
    <3>. QED BY <1>1, <3>1 DEF WordInv, AtServer, Steered, OnLine, AtRobot, Taken
  <2>4. CASE ~Steers(c)
    <3>1. word' = word /\ (LastSteers(toServer, word) => LastSteers(toServer', word))
          /\ (NoneSteers(toServer') <=> NoneSteers(toServer))
      BY <2>2, <2>4, SteersAppended
    <3>. QED
      BY <1>1, <2>2, <3>1
      DEF WordInv, Speaks, AtServer, Steered, OnLine, AtRobot, Taken
  <2>. QED BY <2>3, <2>4
<1>3. CASE (ShowPrompt \/ TakeMessage \/ StartAgain) /\ UNCHANGED histories
  <2>1. UNCHANGED <<toServer, linked, word>>
    BY <1>3 DEF ShowPrompt, TakeMessage, StartAgain, histories
  <2>. QED BY <1>1, <2>1, WordUntouched DEF WordView
<1>4. CASE Ends
  BY <1>1, <1>4, Silence DEF Ends, Speaks, WordInv
<1>. QED BY <1>2, <1>3, <1>4 DEF ClientStep

LEMMA MainHasLastWord ==
  ASSUME LinkTypeOK, WordInv, OpenPort \/ Listen \/ SendHello \/ StopServer
  PROVE  WordInv'
<1>1. CASE OpenPort
  <2>1. srv' = "opened" /\ worker' = worker /\ worker = "none"
    BY <1>1 DEF OpenPort, WordInv
  <2>2. CASE Reset("booting")
    BY <2>1, <2>2 DEF Reset, WordInv, Speaks
  <2>3. CASE UNCHANGED <<robotSide, lines>>
    BY <2>1, <2>3, Silence DEF Speaks, robotSide
  <2>. QED BY <1>1, <2>2, <2>3 DEF OpenPort
<1>2. CASE Listen
  <2>1. srv = "opened" /\ srv' = "listening"
        /\ UNCHANGED <<toServer, linked, portOpen, worker, word, down, rx, robot, motor>>
    BY <1>2 DEF Listen, operatorVars, robotSide, lines, histories
  <2>. QED
    BY <2>1 DEF WordInv, Speaks, AtServer, Steered, OnLine, AtRobot, Taken,
                LastSteers, NoneSteers
<1>3. CASE SendHello
  <2>1. srv = "listening" /\ srv' = "greeted" /\ Forward(Hello)
        /\ UNCHANGED <<toServer, linked, portOpen, worker, word, rx, robot, motor>>
    BY <1>3 DEF SendHello, operatorVars, robotSide, histories
  <2>2. Hello \in DownPackets /\ ~Steers(Hello) /\ down \in Seq(DownPackets)
    BY TypesSplit DEF DownPackets, Hello, Steers, LineTypes
  <2>3. /\ LastSteers(down, word) => LastSteers(down', word)
        /\ NoneSteers(down') <=> NoneSteers(down)
    BY <2>1, <2>2, SteersAppended DEF Forward
  <2>. QED
    BY <2>1, <2>3 DEF WordInv, Speaks, AtServer, Steered, OnLine, AtRobot, Taken,
                      LastSteers, NoneSteers
<1>4. CASE StopServer
  BY <1>4, Silence DEF StopServer, ServerStops, Speaks, robotSide
<1>. QED BY <1>1, <1>2, <1>3, <1>4

(* A command goes from one queue into the next.                            *)
LEMMA WorkerHasLastWord ==
  ASSUME LinkTypeOK, WordInv, Accept \/ WorkerStep
  PROVE  WordInv'
<1>1. CASE Accept
  BY <1>1, Silence DEF Accept, Speaks, robotSide
<1>2. CASE Work
  <2>1. /\ toServer # <<>> /\ toServer' = Tail(toServer) /\ Forward(Head(toServer))
        /\ UNCHANGED <<linked, srv, portOpen, worker, word, rx, robot, motor>>
    BY <1>2 DEF Work, ofOperator, robotSide, histories
  <2>2. toServer \in Seq(Command) /\ down \in Seq(DownPackets)
        /\ Head(toServer) \in DownPackets
    <3>1. toServer \in Seq(Command) /\ down \in Seq(DownPackets)
      BY TypesSplit DEF OperatorTypeOK, LineTypes
    <3>. QED BY <2>1, <3>1, HeadAndTail DEF DownPackets
  <2>3. /\ NoneSteers(toServer) <=> ~Steers(Head(toServer)) /\ NoneSteers(toServer')
        /\ LastSteers(toServer, word) => LastSteers(toServer', word)
        /\ LastSteers(toServer, word) /\ Steers(Head(toServer)) /\ NoneSteers(toServer')
             => Head(toServer) = word
    BY <2>1, <2>2, SteersTaken
  <2>4. portOpen =>
          /\ NoneSteers(down') <=> NoneSteers(down) /\ ~Steers(Head(toServer))
          /\ Steers(Head(toServer)) /\ Head(toServer) = word => LastSteers(down', word)
          /\ ~Steers(Head(toServer)) /\ LastSteers(down, word) => LastSteers(down', word)
    BY <2>1, <2>2, SteersAppended DEF Forward
  <2>5. Speaks' => Speaks /\ AtServer'
    BY <2>1, <2>3 DEF WordInv, Speaks, AtServer
  <2>6. ASSUME (Speaks /\ portOpen /\ robot # "overrun")' PROVE Steered'
    <3>1. AtServer /\ Steered /\ portOpen
      BY <2>1, <2>5, <2>6 DEF WordInv
    <3>. QED BY <2>1, <2>3, <2>4, <3>1
             DEF AtServer, Steered, OnLine, AtRobot, Taken, NoneSteers, LastSteers
  <2>. QED BY <2>1, <2>5, <2>6 DEF WordInv
<1>3. CASE ReadFails \/ StaleReadFails
  <2>1. /\ worker' = worker \/ (worker = "read" /\ worker' = "gone")
        /\ UNCHANGED <<toServer, linked, srv, portOpen, word, down, rx, robot, motor>>
    BY <1>3 DEF ReadFails, StaleReadFails, TestsActive, Works, operatorVars, robotSide,
                lines, histories
  <2>2. CASE worker' = worker
    BY <2>1, <2>2, WordUntouched DEF WordView
  <2>3. CASE worker' = "gone"
    BY <2>1, <2>3, Silence DEF WordInv, Speaks
  <2>. QED BY <2>1, <2>2, <2>3
<1>. QED BY <1>1, <1>2, <1>3 DEF WorkerStep

LEMMA UartStepKeepsWord ==
  ASSUME WordInv, UartStep
  PROVE  WordInv'
<1>1. /\ UNCHANGED <<down, rx, robot, motor, word>>
      /\ \/ UNCHANGED <<toServer, linked, srv, portOpen, worker>>
         \/ UNCHANGED <<toServer, linked, srv, portOpen>> /\ worker = "read"
            /\ worker' = "gone"
         \/ ~linked' /\ srv' = "down" /\ worker' = "none"
  <2>1. CASE Drop
    BY <2>1 DEF Drop, ToldInVain, operatorVars, serverSide, robotSide
  <2>2. CASE Pass
    BY <2>2 DEF Pass, ofOperator, serverSide, robotSide
  <2>3. CASE PassToNobody
    BY <2>3 DEF PassToNobody, ToldInVain, ServerStops, TestsActive, Works,
                operatorVars, ofOperator, robotSide
  <2>. QED BY <2>1, <2>2, <2>3 DEF UartStep
<1>2. CASE UNCHANGED <<toServer, linked, srv, portOpen, worker>>
  BY <1>1, <1>2, WordUntouched DEF WordView
<1>3. CASE worker' = "gone" /\ srv' = srv /\ worker = "read"
  BY <1>1, <1>3, Silence DEF WordInv, Speaks
<1>4. CASE ~linked' /\ worker' = "none"
  BY <1>1, <1>4, Silence DEF Speaks
<1>. QED BY <1>1, <1>2, <1>3, <1>4

(* What the robot takes is the oldest on its way: the last word itself, or *)
(* a command before it.                                                    *)
LEMMA HandleHeedsWord ==
  ASSUME LinkTypeOK, WordInv, Handle
  PROVE  WordInv'
<1>1. Handles
  BY DEF Handle, WaitForHello, InLoop, Move, Pulse, Stop, Query, Toggle, AnswerGarbled
<1>2. /\ Packet \in DownPackets
      /\ \/ rx # <<>> /\ Packet = Head(rx) /\ rx' = Tail(rx) /\ down' = down
         \/ rx = <<>> /\ down # <<>> /\ Packet = Head(down) /\ down' = Tail(down)
            /\ rx' = rx
      /\ UNCHANGED <<toServer, linked, srv, portOpen, worker, word>>
  BY <1>1, TypesSplit, HandlesTypes DEF Handles, operatorVars, serverSide, histories
<1>3. rx \in Seq(DownPackets) /\ down \in Seq(DownPackets)
  BY TypesSplit DEF RobotTypes, LineTypes
<1>4. /\ NoneSteers(down) /\ NoneSteers(rx)
           <=> NoneSteers(down') /\ NoneSteers(rx') /\ ~Steers(Packet)
      /\ NoneSteers(down) => NoneSteers(down')
      /\ LastSteers(down, word) => LastSteers(down', word)
      /\ LastSteers(rx, word) => LastSteers(rx', word)
      /\ LastSteers(down, word) /\ (NoneSteers(down) => LastSteers(rx, word))
         /\ NoneSteers(down') /\ NoneSteers(rx') /\ Steers(Packet) => Packet = word
  <2>1. CASE rx # <<>> /\ Packet = Head(rx) /\ rx' = Tail(rx) /\ down' = down
    BY <1>3, <2>1, SteersTaken
  <2>2. CASE rx = <<>> /\ down # <<>> /\ Packet = Head(down) /\ down' = Tail(down)
             /\ rx' = rx
    BY <1>3, <2>2, SteersTaken, SteersEmpty
  <2>. QED BY <1>2, <2>1, <2>2
<1>5. \/ motor' = motor /\ robot \in {"hello", "garbled"}
      \/ motor' = motor /\ ~Steers(Packet) /\ robot = "loop"
      \/ Packet.do # "drive" /\ motor' # "drive" /\ robot = "loop"
      \/ Packet.do = "drive" /\ robot = "loop"
  BY DEF Handle, WaitForHello, InLoop, Move, Pulse, Stop, StopNow, Query, Toggle,
         AnswerGarbled, Steers
<1>6. /\ robot' \in {"booting", "hello", "garbled"} => robot' = robot /\ motor' = motor
      /\ robot' # "overrun" => robot # "overrun"
  BY DEF Handle, WaitForHello, InLoop, Move, Pulse, Stop, Query, Toggle, AnswerGarbled
<1>7. /\ srv' = "down" => worker' = "none"
      /\ robot' \in {"booting", "hello", "garbled"} => motor' = "still" /\ rx' = <<>>
  BY <1>2, <1>6 DEF WordInv
<1>8. Speaks' => Speaks /\ AtServer'
  BY <1>2 DEF WordInv, Speaks, AtServer, LastSteers
<1>9. ASSUME (Speaks /\ portOpen /\ robot # "overrun")' PROVE Steered'
  <2>1. Steered
    BY <1>2, <1>6, <1>8, <1>9 DEF WordInv
  <2>2. NoneSteers(toServer') <=> NoneSteers(toServer)
    BY <1>2
  <2>3. OnLine' /\ AtRobot'
    <3>1. CASE rx' = Tail(rx) /\ down' = down
      BY <1>2, <1>4, <2>1, <2>2, <3>1 DEF Steered, OnLine, AtRobot
    <3>2. CASE rx = <<>> /\ rx' = rx
      BY <1>2, <1>4, <2>1, <2>2, <3>2, SteersEmpty DEF Steered, OnLine, AtRobot
    <3>. QED BY <1>2, <3>1, <3>2
  <2>4. ASSUME NoneSteers(toServer'), NoneSteers(down'), NoneSteers(rx'), motor' = "drive"
        PROVE  word' = LineCommand("drive")
    <3>1. Steers(Packet) => Packet = word
      BY <1>4, <2>1, <2>2, <2>4 DEF Steered, OnLine, AtRobot
    <3>2. ~Steers(Packet) /\ motor = "drive" => word = LineCommand("drive")
      BY <1>4, <2>1, <2>2, <2>4 DEF Steered, Taken
    <3>3. Packet.do = "drive" => Packet = LineCommand("drive") /\ Steers(Packet)
      BY <1>2 DEF DownPackets, Hello, Command, CommandsAt, LineCommand, KeyCommand,
                  TeleopCommands, Steers
    <3>4. robot = "loop" \/ (motor' = motor /\ motor = "still")
      BY <1>5 DEF WordInv
    <3>. QED BY <1>2, <1>5, <2>4, <3>1, <3>2, <3>3, <3>4
  <2>. QED BY <2>3, <2>4 DEF Steered, Taken
<1>. QED BY <1>7, <1>8, <1>9 DEF WordInv

(* A packet moves on, or is lost by a robot that stands still.             *)
LEMMA RobotAloneHeedsWord ==
  ASSUME LinkTypeOK, WordInv, Boot \/ Receive \/ FinishTask \/ ResetAlone
  PROVE  WordInv'
<1>1. rx \in Seq(DownPackets) /\ down \in Seq(DownPackets)
      /\ (down # <<>> => Head(down) \in DownPackets)
  <2>1. rx \in Seq(DownPackets) /\ down \in Seq(DownPackets)
    BY TypesSplit DEF RobotTypes, LineTypes
  <2>. QED BY <2>1, HeadAndTail
<1>2. UNCHANGED <<toServer, linked, srv, portOpen, worker, word>>
  BY DEF Boot, Receive, FinishTask, ResetAlone, operatorVars, serverSide, histories
<1>3. Speaks' => Speaks /\ AtServer'
  BY <1>2 DEF WordInv, Speaks, AtServer, LastSteers
<1>4. srv' = "down" => worker' = "none"
  BY <1>2 DEF WordInv
<1>5. CASE Boot
  <2>1. robot = "booting" /\ robot' \in {"hello", "garbled"} /\ rx' = rx
        /\ motor' = motor /\ motor = "still" /\ rx = <<>>
        /\ (down' = down \/ (down # <<>> /\ down' = Tail(down)))
    BY <1>5 DEF Boot, WordInv
  <2>2. LastSteers(down, word) => LastSteers(down', word)
    BY <1>1, <2>1, SteersTaken
  <2>3. Speaks' /\ portOpen' => Steered'
    BY <1>2, <1>3, <2>1, <2>2, SteersEmpty
    DEF WordInv, Steered, OnLine, AtRobot, Taken
  <2>. QED BY <1>3, <1>4, <2>1, <2>3 DEF WordInv
<1>6. CASE Receive
  <2>1. /\ down # <<>> /\ down' = Tail(down) /\ robot' = robot /\ motor' = motor
        /\ robot \in {"booting", "overrun", "busy"}
        /\ rx' = (IF robot = "busy" THEN Append(rx, Head(down)) ELSE <<>>)
    BY <1>6 DEF Receive
  <2>2. /\ NoneSteers(down) <=> ~Steers(Head(down)) /\ NoneSteers(down')
        /\ LastSteers(down, word) => LastSteers(down', word)
        /\ LastSteers(down, word) /\ Steers(Head(down)) /\ NoneSteers(down')
             => Head(down) = word
    BY <1>1, <2>1, SteersTaken
  <2>3. CASE robot = "busy"
    <3>1. /\ NoneSteers(rx') <=> NoneSteers(rx) /\ ~Steers(Head(down))
          /\ Steers(Head(down)) /\ Head(down) = word => LastSteers(rx', word)
          /\ ~Steers(Head(down)) /\ LastSteers(rx, word) => LastSteers(rx', word)
      BY <1>1, <2>1, <2>3, SteersAppended
    <3>2. Speaks' /\ portOpen' => Steered'
      BY <1>2, <1>3, <2>1, <2>2, <2>3, <3>1
      DEF WordInv, Steered, OnLine, AtRobot, Taken
    <3>. QED BY <1>3, <1>4, <2>1, <2>3, <3>2 DEF WordInv
  <2>4. CASE robot = "booting"
    <3>1. motor = "still" /\ rx' = <<>>
      BY <2>1, <2>4 DEF WordInv
    <3>2. Speaks' /\ portOpen' => Steered'
      BY <1>2, <1>3, <2>1, <2>2, <2>4, <3>1, SteersEmpty
      DEF WordInv, Steered, OnLine, AtRobot, Taken
    <3>. QED BY <1>3, <1>4, <2>1, <3>1, <3>2 DEF WordInv
  <2>5. CASE robot = "overrun"
    BY <1>3, <1>4, <2>1, <2>5 DEF WordInv
  <2>. QED BY <2>1, <2>3, <2>4, <2>5
<1>7. CASE FinishTask
  <2>1. robot = "busy" /\ robot' \in {"loop", "overrun"} /\ rx' = rx /\ down' = down
        /\ (motor' = motor \/ motor' = "still")
    BY <1>7 DEF FinishTask, ReadAll
  <2>2. Speaks' /\ portOpen' => Steered'
    BY <1>2, <1>3, <2>1 DEF WordInv, Steered, OnLine, AtRobot, Taken, NoneSteers, LastSteers
  <2>. QED BY <1>3, <1>4, <2>1, <2>2 DEF WordInv
<1>8. CASE ResetAlone
  <2>1. motor' = "still" /\ rx' = <<>> /\ down' = <<>>
    BY <1>8 DEF ResetAlone, Reset
  <2>2. Steered'
    BY <2>1, SteersEmpty DEF Steered, OnLine, AtRobot, Taken
  <2>. QED BY <1>3, <1>4, <2>1, <2>2 DEF WordInv
<1>. QED BY <1>5, <1>6, <1>7, <1>8

LEMMA WordNext ==
  ASSUME LinkTypeOK, WordInv, [LinkNext]_linkVars
  PROVE  WordInv'
<1>1. CASE ClientStep
  BY <1>1, ClientHasLastWord
<1>2. CASE OpenPort \/ Listen \/ SendHello \/ StopServer
  BY <1>2, MainHasLastWord
<1>3. CASE Accept \/ WorkerStep
  BY <1>3, WorkerHasLastWord
<1>4. CASE UartStep
  BY <1>4, UartStepKeepsWord
<1>5. CASE Handle
  BY <1>5, HandleHeedsWord
<1>6. CASE Boot \/ Receive \/ FinishTask \/ ResetAlone
  BY <1>6, RobotAloneHeedsWord
<1>7. CASE UNCHANGED linkVars
  <2>1. UNCHANGED WordView
    BY <1>7 DEF linkVars, operatorVars, serverSide, robotSide, lines, histories, WordView
  <2>. QED BY <2>1, WordUntouched
<1>. QED BY <1>1, <1>2, <1>3, <1>4, <1>5, <1>6, <1>7 DEF LinkNext, FirmwareStep

(* A robot that drives without an end while no movement and no stop is on  *)
(* its way to it was last told to drive, on a line of manual mode.         *)
THEOREM OperatorHasLastWord == LinkSpec => []LastWordHolds
<1>1. LinkTypeOK /\ WordInv /\ [LinkNext]_linkVars => WordInv'
  BY WordNext
<1>2. WordInv => LastWordHolds
  BY DEF WordInv, Steered, Taken, Speaks, LastWordHolds, Connected, Works
<1>. QED BY LinkTypeCorrect, WordInitial, <1>1, <1>2, PTL DEF LinkSpec

-----------------------------------------------------------------------------
(* The greeting.                                                           *)

NoHello(q) == \A i \in DOMAIN q : q[i] # Hello

LEMMA TailHasNoHello ==
  ASSUME NEW q \in Seq(DownPackets), q # <<>>, NoHello(q)
  PROVE  Head(q) # Hello /\ NoHello(Tail(q))
<1>1. Head(q) = q[1] /\ 1 \in DOMAIN q
  OBVIOUS
<1>2. \A i \in DOMAIN Tail(q) : i + 1 \in DOMAIN q /\ Tail(q)[i] = q[i + 1]
  OBVIOUS
<1>. QED BY <1>1, <1>2 DEF NoHello

LEMMA AppendHasNoHello ==
  ASSUME NEW q \in Seq(DownPackets), NEW p \in DownPackets, p # Hello, NoHello(q)
  PROVE  NoHello(Append(q, p))
BY DEF NoHello

LEMMA EmptyHasNoHello == NoHello(<<>>)
BY DEF NoHello

LEMMA StrandedSplit ==
  Stranded <=> /\ srv = "greeted" /\ robot \in {"booting", "hello"}
               /\ NoHello(down) /\ NoHello(rx)
BY DEF Stranded, NoHello

LEMMA StrandedJoin ==
  ASSUME srv' = "greeted", robot' \in {"booting", "hello"},
         NoHello(down)', NoHello(rx)'
  PROVE  Stranded'
BY DEF Stranded, NoHello

(* Only a restart of the server, or a reset that garbles the line for good,*)
(* ends the wait of a robot that has missed its greeting.                  *)
THEOREM OnlyARestartHelps == LinkSpec => StrandedStaysStranded
<1>. DEFINE Stays == Stranded => Stranded' \/ srv' = "down" \/ robot' = "garbled"
<1>1. LinkTypeOK /\ [LinkNext]_linkVars => [Stays]_linkVars
  <2>. SUFFICES ASSUME LinkTypeOK, LinkNext, Stranded, srv' # "down",
                       robot' # "garbled"
                PROVE  Stranded'
    OBVIOUS
  <2>1. /\ rx \in Seq(DownPackets) /\ down \in Seq(DownPackets)
        /\ toServer \in Seq(Command) /\ RobotTypes /\ LineTypes
    BY TypesSplit DEF RobotTypes, LineTypes, OperatorTypeOK
  <2>2. /\ srv = "greeted" /\ robot \in {"booting", "hello"}
        /\ NoHello(down) /\ NoHello(rx)
    BY StrandedSplit
  <2>3. CASE UNCHANGED <<srv, robot, rx, down>>
    BY <2>2, <2>3, StrandedJoin
  <2>4. CASE Work
    <3>1. Head(toServer) \in DownPackets /\ Head(toServer) # Hello
      BY <2>1, <2>4, HeadAndTail, CommandsAreNoGreeting DEF Work, DownPackets
    <3>2. NoHello(down)'
      BY <2>1, <2>2, <2>4, <3>1, AppendHasNoHello DEF Work, Forward
    <3>. QED BY <2>2, <2>4, <3>2, StrandedJoin DEF Work, robotSide
  <2>5. CASE Boot
    <3>1. robot' = "hello" /\ down' = down
      BY <2>5 DEF Boot
    <3>. QED BY <2>2, <2>5, <3>1, StrandedJoin DEF Boot, serverSide
  <2>6. CASE Receive
    <3>1. robot = "booting" /\ rx' = <<>> /\ NoHello(down)'
      BY <2>1, <2>2, <2>6, TailHasNoHello DEF Receive
    <3>. QED BY <2>2, <2>6, <3>1, EmptyHasNoHello, StrandedJoin DEF Receive, serverSide
  <2>7. CASE WaitForHello
    <3>1. /\ Packet \in DownPackets
          /\ \/ rx # <<>> /\ Packet = Head(rx) /\ rx' = Tail(rx) /\ down' = down
             \/ rx = <<>> /\ down # <<>> /\ Packet = Head(down) /\ down' = Tail(down)
                /\ rx' = rx
      BY <2>1, <2>7, HandlesTypes DEF WaitForHello
    <3>2. Packet # Hello /\ NoHello(rx)' /\ NoHello(down)'
      BY <2>1, <2>2, <3>1, TailHasNoHello
    <3>3. robot' = "hello" /\ srv' = srv
      BY <2>7, <3>2 DEF WaitForHello, Greets, Handles, serverSide
    <3>. QED BY <2>2, <3>2, <3>3, StrandedJoin
  <2>8. CASE ResetAlone
    <3>1. robot' = "booting" /\ rx' = <<>> /\ down' = <<>> /\ srv' = srv
      BY <2>8 DEF ResetAlone, Reset, serverSide
    <3>. QED BY <2>2, <3>1, EmptyHasNoHello, StrandedJoin
  <2>. QED
    BY <2>2, <2>3, <2>4, <2>5, <2>6, <2>7, <2>8
    DEF LinkNext, ClientStep, Elsewhere, OpenPort, Listen, SendHello, StopServer,
        ServerStops, Accept, WorkerStep, ReadFails, StaleReadFails, UartStep, Drop, Pass, PassToNobody,
        FirmwareStep, FinishTask, Handle, InLoop, Move, Pulse, Stop, Query, Toggle,
        AnswerGarbled, robotSide, serverSide, lines
<1>. QED BY LinkTypeCorrect, <1>1, PTL DEF LinkSpec, StrandedStaysStranded

-----------------------------------------------------------------------------
(* Patience.                                                               *)

(* The commands and greetings under way.                                   *)
Load == Len(toServer) + Len(down) + Len(rx)

NoCut(q) == \A i \in DOMAIN q : q[i] # Cut
OnlyHello(q) == \A i \in DOMAIN q : q[i] = Hello

(* A patient operator and the server have at most one packet under way     *)
(* between them, none while the robot is busy, and the robot has room for  *)
(* all its answers when it takes the packet.                               *)
PortInv ==
  /\ srv \in {"down", "opened"} => ~linked /\ toServer = <<>>
  /\ portOpen /\ srv \in {"opened", "listening"} =>
       robot \in {"booting", "hello"} /\ down = <<>> /\ rx = <<>>
LoadInv ==
  /\ robot = "booting" => srv \in {"down", "opened"} /\ down = <<>> /\ rx = <<>>
  /\ robot \in {"booting", "hello"} =>
       /\ toServer = <<>> /\ tx = <<>>
       /\ OnlyHello(down) /\ OnlyHello(rx)
  /\ robot = "loop" /\ Load > 0 => tx = <<>>
  /\ robot = "busy" => Load = 0 /\ Len(tx) <= 1
  /\ Load <= 1
  /\ robot \in {"booting", "hello", "loop", "busy"}
Calm == PortInv /\ LoadInv /\ upAligned /\ NoCut(tx)
PatientInv == ~hasty /\ resets = 0 => Calm

LEMMA Lengths ==
  ASSUME NEW S, NEW s \in Seq(S)
  PROVE  /\ Len(s) \in Nat
         /\ s = <<>> <=> Len(s) = 0
         /\ s # <<>> => Len(Tail(s)) = Len(s) - 1
         /\ \A e \in S : Len(Append(s, e)) = Len(s) + 1
OBVIOUS

LEMMA LoadOfQueues ==
  ASSUME LinkTypeOK
  PROVE  /\ toServer \in Seq(Command) /\ down \in Seq(DownPackets)
         /\ rx \in Seq(DownPackets) /\ tx \in Seq(Packets)
         /\ Len(toServer) \in Nat /\ Len(down) \in Nat /\ Len(rx) \in Nat
         /\ Load \in Nat /\ Load = Len(toServer) + Len(down) + Len(rx)
         /\ Load = 0 <=> toServer = <<>> /\ down = <<>> /\ rx = <<>>
<1>1. /\ toServer \in Seq(Command) /\ down \in Seq(DownPackets)
      /\ rx \in Seq(DownPackets) /\ tx \in Seq(Packets)
  BY TypesSplit DEF OperatorTypeOK, RobotTypes, LineTypes
<1>2. /\ Len(toServer) \in Nat /\ Len(down) \in Nat /\ Len(rx) \in Nat
      /\ toServer = <<>> <=> Len(toServer) = 0
      /\ down = <<>> <=> Len(down) = 0
      /\ rx = <<>> <=> Len(rx) = 0
  BY <1>1, Lengths
<1>. QED BY <1>1, <1>2 DEF Load

LEMMA SendFits ==
  ASSUME tx \in Seq(Packets), NEW ps \in Seq(Packets), Send(ps),
         Len(tx) + Len(ps) <= RingPackets, NoCut(tx), NoCut(ps)
  PROVE  NoCut(tx)' /\ Len(tx') = Len(tx) + Len(ps)
<1>1. tx' = tx \o ps
  BY DEF Send, Sendable
<1>2. Len(tx \o ps) = Len(tx) + Len(ps)
  OBVIOUS
<1>3. \A i \in DOMAIN (tx \o ps) : (tx \o ps)[i] # Cut
  <2>. SUFFICES ASSUME NEW i \in 1 .. Len(tx) + Len(ps) PROVE (tx \o ps)[i] # Cut
    BY <1>2
  <2>1. CASE i <= Len(tx)
    BY <2>1 DEF NoCut
  <2>2. CASE i > Len(tx)
    <3>1. (tx \o ps)[i] = ps[i - Len(tx)] /\ i - Len(tx) \in DOMAIN ps
      BY <2>2
    <3>. QED BY <3>1 DEF NoCut
  <2>. QED BY <2>1, <2>2
<1>. QED BY <1>1, <1>2, <1>3 DEF NoCut

LEMMA TailHasNoCut ==
  ASSUME NEW q \in Seq(Packets), q # <<>>, NoCut(q)
  PROVE  Head(q) # Cut /\ NoCut(Tail(q))
<1>1. Head(q) = q[1] /\ 1 \in DOMAIN q
  OBVIOUS
<1>2. \A i \in DOMAIN Tail(q) : i + 1 \in DOMAIN q /\ Tail(q)[i] = q[i + 1]
  OBVIOUS
<1>. QED BY <1>1, <1>2 DEF NoCut

LEMMA OnlyHelloKept ==
  ASSUME NEW q \in Seq(DownPackets), OnlyHello(q)
  PROVE  /\ q # <<>> => Head(q) = Hello /\ OnlyHello(Tail(q))
         /\ OnlyHello(Append(q, Hello))
<1>1. OnlyHello(Append(q, Hello))
  BY DEF OnlyHello
<1>2. ASSUME q # <<>> PROVE Head(q) = Hello /\ OnlyHello(Tail(q))
  <2>1. Head(q) = q[1] /\ 1 \in DOMAIN q
    BY <1>2
  <2>2. \A i \in DOMAIN Tail(q) : i + 1 \in DOMAIN q /\ Tail(q)[i] = q[i + 1]
    BY <1>2
  <2>. QED BY <2>1, <2>2 DEF OnlyHello
<1>. QED BY <1>1, <1>2

LEMMA AnswersAreWhole ==
  /\ NoCut(<<"ANSWER">>) /\ Len(<<"ANSWER">>) = 1
  /\ \A manual \in BOOLEAN :
       NoCut(ToggleAnswers(manual)) /\ Len(ToggleAnswers(manual)) = 3
BY DEF NoCut, Cut, ToggleAnswers

LEMMA AnswersFit ==
  ASSUME tx \in Seq(Packets), NoCut(tx), NEW ps \in Seq(Packets), NoCut(ps),
         NEW n \in Nat, Len(ps) = n, Len(tx) + n <= RingPackets, Send(ps)
  PROVE  NoCut(tx)' /\ Len(tx') = Len(tx) + n
BY SendFits

LEMMA CalmInitial == LinkInit => Calm
<1>. SUFFICES ASSUME LinkInit PROVE Calm
  OBVIOUS
<1>1. Len(<<>>) = 0
  OBVIOUS
<1>2. Load = 0
  BY <1>1 DEF LinkInit, OperatorInit, Load
<1>3. PortInv
  BY DEF LinkInit, OperatorInit, PortInv
<1>4. LoadInv
  BY <1>2 DEF LinkInit, OperatorInit, LoadInv, OnlyHello
<1>. QED BY <1>3, <1>4 DEF LinkInit, Calm, NoCut

(* The operator sends a command when nothing is under way.                 *)
LEMMA ClientIsCalm ==
  ASSUME LinkTypeOK, Calm, ClientStep, ~hasty'
  PROVE  Calm'
<1>1. UNCHANGED <<serverSide, robotSide, lines>>
  BY DEF ClientStep, Elsewhere
<1>2. upAligned' /\ NoCut(tx)'
  BY <1>1 DEF Calm, lines, NoCut
<1>3. CASE \E c \in Command : SendNow(c)
  <2>1. PICK c \in Command : SendNow(c)
    BY <1>3
  <2>2. Quiet
    <3>1. hasty' = (hasty \/ ~Quiet)
      BY <2>1 DEF SendNow
    <3>. QED BY <3>1
  <2>3. robot = "loop" /\ tx = <<>> /\ Load = 0
    BY <2>2, LoadOfQueues DEF Quiet
  <2>4. toServer' = Append(toServer, c) /\ linked /\ linked' = linked
    BY <2>1 DEF SendNow, SendCommand
  <2>5. Load' = 1
    <3>1. Len(toServer') = Len(toServer) + 1
      BY <2>4, Lengths, LoadOfQueues
    <3>. QED BY <1>1, <2>3, <3>1, LoadOfQueues DEF Load, lines, robotSide
  <2>6. PortInv'
    BY <1>1, <2>4 DEF Calm, PortInv, serverSide, robotSide, lines
  <2>7. LoadInv'
    BY <1>1, <2>3, <2>5 DEF LoadInv, robotSide, lines
  <2>. QED BY <1>2, <2>6, <2>7 DEF Calm
<1>4. CASE toServer' \in {toServer, <<>>} /\ (linked' => linked)
  <2>1. Len(toServer') \in 0 .. Len(toServer)
    BY <1>4, LoadOfQueues
  <2>2. Load' \in 0 .. Load /\ Len(tx') = Len(tx)
    BY <1>1, <2>1, LoadOfQueues DEF Load, lines, robotSide
  <2>3. PortInv'
    BY <1>1, <1>4 DEF Calm, PortInv, serverSide, robotSide, lines
  <2>4. LoadInv'
    BY <1>1, <1>4, <2>2, LoadOfQueues DEF Calm, LoadInv, OnlyHello, serverSide, robotSide, lines
  <2>. QED BY <1>2, <2>3, <2>4 DEF Calm
<1>5. ShowPrompt \/ TakeMessage \/ Ends \/ StartAgain
        => toServer' \in {toServer, <<>>} /\ (linked' => linked)
  BY DEF ShowPrompt, TakeMessage, Ends, StartAgain
<1>. QED BY <1>3, <1>4, <1>5 DEF ClientStep

(* The port is opened with nothing under way; the greeting is the first    *)
(* packet on it.                                                           *)
LEMMA MainIsCalm ==
  ASSUME LinkTypeOK, Calm, OpenPort \/ Listen \/ SendHello \/ StopServer
  PROVE  Calm'
<1>. USE LoadOfQueues
<1>1. CASE OpenPort
  <2>1. linked' = linked /\ toServer' = toServer /\ toServer = <<>> /\ ~linked
        /\ srv' = "opened" /\ UNCHANGED <<resets, histories>>
    BY <1>1 DEF OpenPort, operatorVars, Calm, PortInv
  <2>2. CASE portOpen' /\ Reset("booting") /\ down' = <<>> /\ tx' = <<>> /\ upAligned' = TRUE
    <3>1. robot' = "booting" /\ rx' = <<>> /\ down' = <<>> /\ tx' = <<>> /\ upAligned'
      BY <2>2 DEF Reset
    <3>2. Load' = 0
      <4>1. Len(<<>>) = 0
        OBVIOUS
      <4>. QED BY <2>1, <3>1, <4>1 DEF Load
    <3>3. PortInv'
      BY <2>1, <3>1 DEF PortInv
    <3>4. LoadInv'
      BY <2>1, <3>1, <3>2 DEF LoadInv, OnlyHello
    <3>. QED BY <3>1, <3>3, <3>4 DEF Calm, NoCut
  <2>3. CASE ~portOpen' /\ UNCHANGED <<robotSide, lines>>
    <3>1. Load' = Load
      BY <2>1, <2>3 DEF Load, robotSide, lines
    <3>2. PortInv'
      BY <2>1, <2>3 DEF PortInv
    <3>3. LoadInv'
      BY <2>1, <2>3, <3>1 DEF Calm, LoadInv, OnlyHello, robotSide, lines
    <3>. QED BY <2>3, <3>2, <3>3 DEF Calm, NoCut, lines
  <2>. QED BY <1>1, <2>2, <2>3 DEF OpenPort
<1>2. CASE Listen
  <2>1. UNCHANGED <<operatorVars, portOpen, robotSide, lines>> /\ robot # "booting"
        /\ srv = "opened" /\ srv' = "listening"
    BY <1>2 DEF Listen, ListenAfterBoot
  <2>2. Load' = Load
    BY <2>1 DEF Load, operatorVars, robotSide, lines
  <2>3. PortInv'
    BY <2>1 DEF Calm, PortInv, robotSide, lines
  <2>4. LoadInv'
    BY <2>1, <2>2 DEF Calm, LoadInv, OnlyHello, operatorVars, robotSide, lines
  <2>. QED BY <2>1, <2>3, <2>4 DEF Calm, NoCut, lines
<1>3. CASE SendHello
  <2>1. UNCHANGED <<operatorVars, portOpen, robotSide, tx, upAligned>>
        /\ srv = "listening" /\ srv' = "greeted" /\ Forward(Hello)
    BY <1>3 DEF SendHello
  <2>2. CASE portOpen
    <3>1. robot = "hello" /\ down = <<>> /\ rx = <<>> /\ toServer = <<>> /\ tx = <<>>
      BY <2>1, <2>2 DEF Calm, PortInv, LoadInv
    <3>2. down' = Append(down, Hello) /\ Hello \in DownPackets
      BY <2>1, <2>2 DEF Forward, DownPackets
    <3>3. Load' = 1
      <4>1. Len(down') = Len(down) + 1
        BY <3>2, Lengths
      <4>. QED BY <2>1, <3>1, <4>1 DEF Load, operatorVars, robotSide
    <3>4. OnlyHello(down)' /\ OnlyHello(rx)'
      <4>1. OnlyHello(down) /\ OnlyHello(rx)
        BY <3>1 DEF OnlyHello
      <4>. QED BY <2>1, <3>2, <4>1, OnlyHelloKept DEF OnlyHello, robotSide
    <3>5. PortInv'
      BY <2>1 DEF PortInv
    <3>6. LoadInv'
      BY <2>1, <3>1, <3>3, <3>4 DEF LoadInv, operatorVars, robotSide
    <3>. QED BY <2>1, <3>5, <3>6 DEF Calm, NoCut
  <2>3. CASE ~portOpen
    <3>1. down' = down
      BY <2>1, <2>3 DEF Forward
    <3>2. Load' = Load
      BY <2>1, <3>1 DEF Load, operatorVars, robotSide
    <3>3. PortInv'
      BY <2>1 DEF PortInv
    <3>4. LoadInv'
      BY <2>1, <3>1, <3>2 DEF Calm, LoadInv, OnlyHello, operatorVars, robotSide
    <3>. QED BY <2>1, <3>3, <3>4 DEF Calm, NoCut
  <2>. QED BY <2>2, <2>3
<1>4. CASE StopServer
  <2>1. srv' = "down" /\ ~linked' /\ toServer' = <<>>
        /\ UNCHANGED <<portOpen, robotSide, lines>>
    BY <1>4 DEF StopServer, ServerStops
  <2>2. Load' \in 0 .. Load
    <3>1. Len(<<>>) = 0
      OBVIOUS
    <3>. QED BY <2>1, <3>1 DEF Load, robotSide, lines
  <2>3. PortInv'
    BY <2>1 DEF PortInv
  <2>4. LoadInv'
    BY <2>1, <2>2 DEF Calm, LoadInv, OnlyHello, robotSide, lines
  <2>. QED BY <2>1, <2>3, <2>4 DEF Calm, NoCut, lines
<1>. QED BY <1>1, <1>2, <1>3, <1>4

(* A command goes on to the robot, which is waiting for it.                *)
LEMMA WorkerIsCalm ==
  ASSUME LinkTypeOK, Calm, Accept \/ WorkerStep
  PROVE  Calm'
<1>. USE LoadOfQueues
<1>1. CASE Accept
  <2>1. srv \in {"listening", "greeted"} /\ toServer' = <<>>
        /\ UNCHANGED <<srv, portOpen, robotSide, lines>>
    BY <1>1 DEF Accept, Connect
  <2>2. Load' \in 0 .. Load
    <3>1. Len(<<>>) = 0
      OBVIOUS
    <3>. QED BY <2>1, <3>1 DEF Load, robotSide, lines
  <2>3. PortInv'
    BY <2>1 DEF Calm, PortInv, robotSide, lines
  <2>4. LoadInv'
    BY <2>1, <2>2 DEF Calm, LoadInv, OnlyHello, robotSide, lines
  <2>. QED BY <2>1, <2>3, <2>4 DEF Calm, NoCut, lines
<1>2. CASE Work
  <2>1. toServer # <<>> /\ toServer' = Tail(toServer) /\ Forward(Head(toServer))
        /\ UNCHANGED <<linked, srv, portOpen, robotSide, tx, upAligned>>
    BY <1>2 DEF Work
  <2>2. robot = "loop" /\ Load = 1 /\ tx = <<>>
    <3>1. Load > 0
      BY <2>1
    <3>. QED BY <2>1, <3>1 DEF Calm, LoadInv
  <2>3. Load' \in 0 .. 1
    <3>1. Head(toServer) \in DownPackets
      BY <2>1, HeadAndTail DEF DownPackets
    <3>2. Len(down') \in {Len(down), Len(down) + 1}
      BY <2>1, <3>1, Lengths DEF Forward
    <3>3. Len(toServer') = Len(toServer) - 1 /\ Len(rx') = Len(rx)
      BY <2>1, Lengths DEF robotSide
    <3>. QED BY <2>1, <2>2, <3>2, <3>3 DEF Load
  <2>4. PortInv'
    <3>1. ~(srv \in {"down", "opened"}) /\ ~(portOpen /\ srv = "listening")
      BY <2>1, <2>2 DEF Calm, PortInv
    <3>. QED BY <2>1, <3>1 DEF PortInv
  <2>5. LoadInv'
    BY <2>1, <2>2, <2>3 DEF LoadInv, robotSide
  <2>. QED BY <2>1, <2>4, <2>5 DEF Calm, NoCut
<1>3. CASE ReadFails \/ StaleReadFails
  <2>1. UNCHANGED <<operatorVars, srv, portOpen, robotSide, lines>>
    BY <1>3 DEF ReadFails, StaleReadFails
  <2>2. Load' = Load
    BY <2>1 DEF Load, operatorVars, robotSide, lines
  <2>3. PortInv'
    BY <2>1 DEF Calm, PortInv, operatorVars, robotSide, lines
  <2>4. LoadInv'
    BY <2>1, <2>2 DEF Calm, LoadInv, OnlyHello, operatorVars, robotSide, lines
  <2>. QED BY <2>1, <2>3, <2>4 DEF Calm, NoCut, lines
<1>. QED BY <1>1, <1>2, <1>3 DEF WorkerStep

LEMMA UartStepIsCalm ==
  ASSUME LinkTypeOK, Calm, UartStep
  PROVE  Calm'
<1>. USE LoadOfQueues
<1>1. tx # <<>> /\ tx' = Tail(tx) /\ upAligned' = (upAligned /\ Head(tx) # Cut)
      /\ UNCHANGED <<robotSide, down>>
  BY DEF UartStep, Drop, Pass, PassToNobody, Arrives
<1>2. upAligned' /\ NoCut(tx)'
  <2>1. Head(tx) # Cut /\ NoCut(tx)'
    BY <1>1, TailHasNoCut DEF Calm, NoCut
  <2>. QED BY <1>1, <2>1 DEF Calm
<1>3. robot \in {"loop", "busy"} /\ robot' = robot /\ (robot = "loop" => Load = 0)
  BY <1>1 DEF Calm, LoadInv, robotSide
<1>4. \/ srv' = srv /\ linked' = linked /\ toServer' = toServer /\ portOpen' = portOpen
      \/ srv' = "down" /\ ~linked' /\ toServer' = <<>> /\ portOpen' = portOpen
  BY DEF UartStep, Drop, Pass, PassToNobody, ServerStops, ofOperator, operatorVars,
         serverSide
<1>5. Load' \in 0 .. Load
  <2>1. Len(toServer') \in 0 .. Len(toServer)
    BY <1>4
  <2>. QED BY <1>1, <2>1 DEF Load, robotSide
<1>6. Len(tx') = Len(tx) - 1 /\ Len(tx) \in Nat
  BY <1>1, Lengths
<1>7. PortInv'
  BY <1>1, <1>4 DEF Calm, PortInv, robotSide
<1>8. LoadInv'
  BY <1>3, <1>5, <1>6 DEF Calm, LoadInv
<1>. QED BY <1>2, <1>7, <1>8 DEF Calm

(* The robot has room for its answers, and is not sent another command     *)
(* before it has given the last of them.                                   *)
LEMMA HandleIsCalm ==
  ASSUME LinkTypeOK, Calm, Handle, RingPackets >= 3
  PROVE  Calm'
<1>. /\ toServer \in Seq(Command) /\ down \in Seq(DownPackets)
     /\ rx \in Seq(DownPackets) /\ tx \in Seq(Packets)
     /\ Len(toServer) \in Nat /\ Len(down) \in Nat /\ Len(rx) \in Nat
     /\ Load \in Nat /\ Load = Len(toServer) + Len(down) + Len(rx)
     /\ Load = 0 <=> toServer = <<>> /\ down = <<>> /\ rx = <<>>
  BY LoadOfQueues
<1>1. Handles
  BY DEF Handle, WaitForHello, InLoop, Move, Pulse, Stop, Query, Toggle, AnswerGarbled
<1>2. /\ \/ rx # <<>> /\ Packet = Head(rx) /\ rx' = Tail(rx) /\ down' = down
         \/ rx = <<>> /\ down # <<>> /\ Packet = Head(down) /\ down' = Tail(down)
            /\ rx' = rx
      /\ UNCHANGED <<operatorVars, serverSide, upAligned>>
  BY <1>1, TypesSplit, HandlesTypes DEF Handles
<1>3. Load = 1 /\ Load' = 0
  <2>1. /\ Len(down') \in Nat /\ Len(rx') \in Nat /\ Len(toServer') = Len(toServer)
        /\ \/ Len(rx') = Len(rx) - 1 /\ Len(down') = Len(down)
           \/ Len(down') = Len(down) - 1 /\ Len(rx') = Len(rx)
    <3>1. Len(down') \in Nat /\ Len(rx') \in Nat
      BY <1>1, TypesSplit, HandlesTypes, Lengths
    <3>2. Len(toServer') = Len(toServer)
      BY <1>2 DEF operatorVars
    <3>3. CASE rx' = Tail(rx) /\ rx # <<>> /\ down' = down
      BY <3>1, <3>2, <3>3, Lengths
    <3>4. CASE down' = Tail(down) /\ down # <<>> /\ rx' = rx
      BY <3>1, <3>2, <3>4, Lengths
    <3>. QED BY <1>2, <3>3, <3>4
  <2>2. Load' = Load - 1
    <3>1. Load' = Len(toServer') + Len(down') + Len(rx')
      BY DEF Load
    <3>. HIDE DEF Load
    <3>. DEFINE a == Len(toServer)  b == Len(down)  c == Len(rx)
                d == Len(down')  e == Len(rx')
    <3>2. a \in Nat /\ b \in Nat /\ c \in Nat /\ d \in Nat /\ e \in Nat
      BY <2>1
    <3>3. Load = a + b + c /\ Load' = a + d + e
      BY <2>1, <3>1
    <3>4. (e = c - 1 /\ d = b) \/ (d = b - 1 /\ e = c)
      BY <2>1
    <3>. HIDE DEF a, b, c, d, e
    <3>5. a + d + e = a + b + c - 1
      BY <3>2, <3>4
    <3>. QED BY <3>2, <3>3, <3>5
  <2>3. Load # 0 /\ Load <= 1
    BY <1>2 DEF Calm, LoadInv
  <2>. QED BY <2>2, <2>3
<1>4. robot \in {"hello", "loop"} /\ tx = <<>>
  <2>1. robot \notin {"booting", "busy"}
    BY <1>2, <1>3 DEF Calm, LoadInv
  <2>. QED BY <2>1, <1>3 DEF Calm, LoadInv
<1>5. /\ robot' \in {"loop", "busy"}
      /\ robot' = "busy" => Len(tx') <= 1
      /\ NoCut(tx)'
  <2>1. Len(tx) = 0 /\ tx \in Seq(Packets) /\ NoCut(tx)
    BY <1>4 DEF Calm
  <2>2. CASE Toggle
    <3>1. (~robotManual) \in BOOLEAN
      BY Zenon
    <3>2. ToggleAnswers(~robotManual) \in Seq(Packets)
          /\ NoCut(ToggleAnswers(~robotManual)) /\ Len(ToggleAnswers(~robotManual)) = 3
      BY <3>1, AnswerTypes, AnswersAreWhole
    <3>3. Send(ToggleAnswers(~robotManual))
      BY <2>2 DEF Toggle
    <3>4. Len(tx) + 3 <= RingPackets
      BY <2>1
    <3>. DEFINE ps == ToggleAnswers(~robotManual)
    <3>. HIDE DEF ps
    <3>5. NoCut(tx)'
      <4>1. ps \in Seq(Packets) /\ NoCut(ps) /\ Len(ps) = 3 /\ Send(ps)
        BY <3>2, <3>3 DEF ps
      <4>. QED BY <2>1, <3>4, <4>1, AnswersFit
    <3>. QED BY <2>2, <3>5 DEF Toggle, InLoop
  <2>3. CASE WaitForHello \/ Move \/ Pulse \/ Stop \/ Query
    <3>1. Send(<<"ANSWER">>)
      BY <2>3 DEF WaitForHello, Move, Pulse, Stop, Query
    <3>2. NoCut(tx)' /\ Len(tx') = 1
      <4>1. <<"ANSWER">> \in Seq(Packets) /\ NoCut(<<"ANSWER">>) /\ Len(<<"ANSWER">>) = 1
        BY AnswerTypes, AnswersAreWhole
      <4>2. Len(tx) + 1 <= RingPackets
        BY <2>1
      <4>3. NoCut(tx)' /\ Len(tx') = Len(tx) + 1
        BY <2>1, <3>1, <4>1, <4>2, AnswersFit
      <4>. QED BY <2>1, <4>3
    <3>3. CASE WaitForHello
      <4>1. OnlyHello(rx) /\ OnlyHello(down)
        BY <3>3 DEF WaitForHello, Calm, LoadInv
      <4>2. Packet = Hello
        BY <1>2, <4>1, OnlyHelloKept
      <4>. QED BY <3>2, <3>3, <4>2 DEF WaitForHello, Greets
    <3>4. CASE Move \/ Pulse \/ Stop \/ Query
      BY <3>2, <3>4 DEF Move, Pulse, Stop, Query, InLoop
    <3>. QED BY <2>3, <3>3, <3>4
  <2>4. ~AnswerGarbled
    BY <1>4 DEF AnswerGarbled
  <2>. QED BY <2>2, <2>3, <2>4 DEF Handle
<1>6. PortInv'
  <2>1. ~(portOpen /\ srv \in {"opened", "listening"})
    BY <1>2 DEF Calm, PortInv
  <2>. QED BY <1>2, <2>1 DEF Calm, PortInv, operatorVars, serverSide
<1>7. LoadInv'
  BY <1>3, <1>5 DEF LoadInv
<1>. QED BY <1>2, <1>5, <1>6, <1>7 DEF Calm

LEMMA RobotAloneIsCalm ==
  ASSUME LinkTypeOK, Calm, Boot \/ Receive \/ FinishTask, RingPackets >= 3
  PROVE  Calm'
<1>. USE LoadOfQueues
<1>1. ~Receive
  BY DEF Receive, Calm, LoadInv
<1>2. CASE Boot
  <2>1. robot = "booting" /\ robot' = "hello" /\ down' = down
        /\ UNCHANGED <<operatorVars, serverSide, rx, tx, upAligned>>
    BY <1>2 DEF Boot, Calm, LoadInv
  <2>2. Load' = Load
    BY <2>1 DEF Load, operatorVars
  <2>3. PortInv'
    BY <2>1 DEF Calm, PortInv, operatorVars, serverSide
  <2>4. LoadInv'
    BY <2>1, <2>2 DEF Calm, LoadInv, OnlyHello, operatorVars
  <2>. QED BY <2>1, <2>3, <2>4 DEF Calm, NoCut
<1>3. CASE FinishTask
  <2>1. robot = "busy" /\ Load = 0 /\ Len(tx) <= 1 /\ Len(tx) \in Nat
    BY <1>3, Lengths DEF FinishTask, Calm, LoadInv
  <2>2. robot' = "loop"
    BY <1>3, <2>1 DEF FinishTask, ReadAll
  <2>3. UNCHANGED <<operatorVars, serverSide, rx, down, upAligned>>
    BY <1>3 DEF FinishTask
  <2>4. Load' = 0
    BY <2>1, <2>3 DEF Load, operatorVars
  <2>5. NoCut(tx)'
    <3>1. CASE tx' = tx
      BY <3>1 DEF Calm, NoCut
    <3>2. CASE Send(<<"ANSWER">>)
      <4>1. Len(tx) + 1 <= RingPackets
        BY <2>1
      <4>. QED BY <3>2, <4>1, AnswerTypes, AnswersAreWhole, SendFits DEF Calm
    <3>. QED BY <1>3, <3>1, <3>2 DEF FinishTask
  <2>6. PortInv'
    BY <2>1, <2>3 DEF Calm, PortInv, operatorVars, serverSide
  <2>7. LoadInv'
    BY <2>2, <2>4 DEF LoadInv
  <2>. QED BY <2>3, <2>5, <2>6, <2>7 DEF Calm
<1>. QED BY <1>1, <1>2, <1>3

(* Neither history is ever undone.                                         *)
LEMMA HistoriesGrow ==
  ASSUME LinkTypeOK, LinkNext, ~hasty', resets' = 0
  PROVE  ~hasty /\ resets = 0 /\ ~ResetAlone
<1>1. resets \in Nat
  BY TypesSplit DEF CounterTypes
<1>2. ~ResetAlone
  BY <1>1 DEF ResetAlone
<1>3. resets' = resets
  BY <1>2 DEF LinkNext, ClientStep, Elsewhere, OpenPort, Listen, SendHello, StopServer,
              Accept, WorkerStep, Work, ReadFails, StaleReadFails, UartStep, Drop, Pass, PassToNobody, Boot,
              Receive, FirmwareStep, FinishTask, Handle, Handles, InLoop,
              WaitForHello, Move, Pulse, Stop, Query, Toggle, AnswerGarbled
<1>4. hasty => hasty'
  <2>1. (\E c \in Command : SendNow(c)) \/ hasty' = hasty
    BY <1>2 DEF LinkNext, ClientStep, OpenPort, Listen, SendHello, StopServer,
              Accept, WorkerStep, Work, ReadFails, StaleReadFails, UartStep, Drop, Pass, PassToNobody, ToldInVain,
              Boot, Receive, FirmwareStep, FinishTask, Handle, Handles, InLoop,
              WaitForHello, Move, Pulse, Stop, Query, Toggle, AnswerGarbled, histories
  <2>2. (\E c \in Command : SendNow(c)) => hasty' = (hasty \/ ~Quiet)
    BY DEF SendNow
  <2>. QED BY <2>1, <2>2, Zenon
<1>. QED BY <1>2, <1>3, <1>4

LEMMA PatientNext ==
  ASSUME LinkTypeOK, PatientInv, [LinkNext]_linkVars, RingPackets >= 3
  PROVE  PatientInv'
<1>1. CASE LinkNext
  <2>. SUFFICES ASSUME ~hasty', resets' = 0 PROVE Calm'
    BY DEF PatientInv
  <2>1. Calm /\ ~ResetAlone
    BY <1>1, HistoriesGrow DEF PatientInv
  <2>2. CASE ClientStep
    BY <2>1, <2>2, ClientIsCalm
  <2>3. CASE OpenPort \/ Listen \/ SendHello \/ StopServer
    BY <2>1, <2>3, MainIsCalm
  <2>4. CASE Accept \/ WorkerStep
    BY <2>1, <2>4, WorkerIsCalm
  <2>5. CASE UartStep
    BY <2>1, <2>5, UartStepIsCalm
  <2>6. CASE Handle
    BY <2>1, <2>6, HandleIsCalm
  <2>7. CASE Boot \/ Receive \/ FinishTask
    BY <2>1, <2>7, RobotAloneIsCalm
  <2>. QED BY <1>1, <2>1, <2>2, <2>3, <2>4, <2>5, <2>6, <2>7 DEF LinkNext, FirmwareStep
<1>2. CASE UNCHANGED linkVars
  BY <1>2 DEF PatientInv, Calm, PortInv, LoadInv, Load, NoCut, OnlyHello, linkVars,
              operatorVars, serverSide, robotSide, lines, histories
<1>. QED BY <1>1, <1>2

(* An operator who waits for the last answer loses nothing, if a transmit  *)
(* buffer takes the three answers to a toggle.                             *)
THEOREM PatienceIsEnough ==
  ASSUME RingPackets >= 3
  PROVE  LinkSpec => []PatientOperatorLosesNothing
<1>1. LinkInit => PatientInv
  BY CalmInitial DEF PatientInv
<1>2. LinkTypeOK /\ PatientInv /\ [LinkNext]_linkVars => PatientInv'
  BY PatientNext
<1>3. PatientInv => PatientOperatorLosesNothing
  BY DEF PatientInv, Calm, LoadInv, NoCut, PatientOperatorLosesNothing
<1>. QED BY LinkTypeCorrect, <1>1, <1>2, <1>3, PTL DEF LinkSpec


-----------------------------------------------------------------------------
(* The two modes.                                                          *)

NoModes(q) == \A i \in DOMAIN q : q[i] \notin Modes

(* The last mode in q is r, unless a packet was cut behind it.             *)
TellsLast(q, i) ==
  q[i] \in Modes /\ \A j \in DOMAIN q : j > i => q[j] \notin Modes \cup {Cut}
LastTold(q, r) == \A i \in DOMAIN q : TellsLast(q, i) => ((q[i] = "ON") <=> r)

(* The client knows the robot's mode: by the last of the modes on their    *)
(* way to it, and if there is none by itself.                              *)
Undamaged ==
  /\ session = "live" /\ linked /\ worker = "read" /\ portOpen
  /\ resets = 0 /\ upAligned /\ NoCut(tx) /\ aware
Knows ==
  LastTold(toClient, robotManual) /\ (NoModes(toClient) => manualMode = robotManual)

(* A new client is in manual mode, and so is a robot that has had no       *)
(* client since the server was started.  What the robot says of its mode   *)
(* is true, whoever hears it.                                              *)
FirstInv ==
  /\ srv = "down" => worker = "none"
  /\ session # "live" => manualMode
  /\ worker = "none" /\ srv # "down" /\ portOpen =>
       robotManual /\ OnlyHello(down) /\ OnlyHello(rx)
ToldInv == LastTold(tx, robotManual)
KnownInv == Undamaged /\ NoModes(tx) => Knows
ModeInv == FirstInv /\ ToldInv /\ KnownInv

LEMMA ModesAppended ==
  ASSUME NEW S, NEW q \in Seq(S), NEW e \in S, NEW r
  PROVE  /\ NoModes(Append(q, e)) <=> NoModes(q) /\ e \notin Modes
         /\ NoCut(Append(q, e)) <=> NoCut(q) /\ e # Cut
         /\ e \in Modes /\ ((e = "ON") <=> r) => LastTold(Append(q, e), r)
         /\ e \notin Modes /\ LastTold(q, r) => LastTold(Append(q, e), r)
         /\ e = Cut => LastTold(Append(q, e), r)
<1>. DEFINE p == Append(q, e)  n == Len(q)
<1>1. n \in Nat /\ DOMAIN q = 1 .. n /\ DOMAIN p = 1 .. n + 1
      /\ p[n + 1] = e /\ \A i \in 1 .. n : p[i] = q[i]
  OBVIOUS
<1>. HIDE DEF p, n
<1>2. DOMAIN p = DOMAIN q \cup {n + 1} /\ \A i \in DOMAIN q : n + 1 > i
      /\ i \in DOMAIN p /\ p[i] = q[i] /\ i # n + 1
  BY <1>1
<1>3. NoModes(p) <=> NoModes(q) /\ e \notin Modes
  BY <1>1, <1>2 DEF NoModes
<1>4. NoCut(p) <=> NoCut(q) /\ e # Cut
  BY <1>1, <1>2 DEF NoCut
<1>5. ASSUME e \in Modes, (e = "ON") <=> r PROVE LastTold(p, r)
  <2>. SUFFICES ASSUME NEW i \in DOMAIN p, TellsLast(p, i) PROVE (p[i] = "ON") <=> r
    BY DEF LastTold
  <2>1. i = n + 1
    BY <1>1, <1>2, <1>5 DEF TellsLast
  <2>. QED BY <1>1, <1>5, <2>1
<1>6. ASSUME e \notin Modes, LastTold(q, r) PROVE LastTold(p, r)
  <2>. SUFFICES ASSUME NEW i \in DOMAIN p, TellsLast(p, i) PROVE (p[i] = "ON") <=> r
    BY DEF LastTold
  <2>1. i \in DOMAIN q /\ p[i] = q[i]
    BY <1>1, <1>2, <1>6 DEF TellsLast
  <2>2. TellsLast(q, i)
    BY <1>2, <2>1 DEF TellsLast
  <2>. QED BY <1>6, <2>1, <2>2 DEF LastTold
<1>7. ASSUME e = Cut PROVE LastTold(p, r)
  <2>. SUFFICES ASSUME NEW i \in DOMAIN p, TellsLast(p, i) PROVE FALSE
    BY DEF LastTold
  <2>1. Cut \notin Modes
    BY DEF Cut, Modes
  <2>. QED BY <1>1, <1>2, <1>7, <2>1 DEF TellsLast
<1>. QED BY <1>3, <1>4, <1>5, <1>6, <1>7 DEF p

LEMMA ModesTaken ==
  ASSUME NEW S, NEW q \in Seq(S), q # <<>>, NEW r
  PROVE  /\ NoModes(q) <=> Head(q) \notin Modes /\ NoModes(Tail(q))
         /\ NoCut(q) <=> Head(q) # Cut /\ NoCut(Tail(q))
         /\ LastTold(q, r) => LastTold(Tail(q), r)
         /\ LastTold(q, r) /\ Head(q) \in Modes /\ NoModes(Tail(q)) /\ NoCut(Tail(q))
              => ((Head(q) = "ON") <=> r)
<1>. DEFINE t == Tail(q)  n == Len(q)
<1>1. n \in Nat /\ n >= 1 /\ DOMAIN q = 1 .. n /\ DOMAIN t = 1 .. n - 1
      /\ Head(q) = q[1] /\ \A i \in 1 .. n - 1 : t[i] = q[i + 1]
  OBVIOUS
<1>. HIDE DEF t, n
<1>2. /\ \A i \in DOMAIN t : i + 1 \in DOMAIN q /\ i + 1 > 1 /\ t[i] = q[i + 1]
      /\ \A j \in DOMAIN q : j # 1 => j - 1 \in DOMAIN t /\ q[j] = t[j - 1] /\ j > 1
      /\ 1 \in DOMAIN q
  BY <1>1
<1>3. NoModes(q) <=> Head(q) \notin Modes /\ NoModes(t)
  BY <1>1, <1>2 DEF NoModes
<1>4. NoCut(q) <=> Head(q) # Cut /\ NoCut(t)
  BY <1>1, <1>2 DEF NoCut
<1>5. ASSUME LastTold(q, r) PROVE LastTold(t, r)
  <2>. SUFFICES ASSUME NEW i \in DOMAIN t, TellsLast(t, i) PROVE (t[i] = "ON") <=> r
    BY DEF LastTold
  <2>1. \A j \in DOMAIN q : j > i + 1 => j - 1 \in DOMAIN t /\ j - 1 > i /\ q[j] = t[j - 1]
    BY <1>1
  <2>2. TellsLast(q, i + 1)
    BY <1>2, <2>1 DEF TellsLast
  <2>. QED BY <1>2, <1>5, <2>2 DEF LastTold
<1>6. ASSUME LastTold(q, r), Head(q) \in Modes, NoModes(t), NoCut(t)
      PROVE  (Head(q) = "ON") <=> r
  <2>1. TellsLast(q, 1)
    BY <1>1, <1>2, <1>6 DEF TellsLast, NoModes, NoCut
  <2>. QED BY <1>1, <1>2, <1>6, <2>1 DEF LastTold
<1>. QED BY <1>3, <1>4, <1>5, <1>6 DEF t

(* An answer that is not cut ends with its last packet.                    *)
LEMMA AnswersAppended ==
  ASSUME tx \in Seq(Packets), NEW manual \in BOOLEAN
  PROVE  /\ Send(<<"ANSWER">>) =>
              \/ tx' = Append(tx, "ANSWER")
              \/ \E q \in Seq(Packets) : tx' = Append(q, Cut)
         /\ Send(ToggleAnswers(manual)) =>
              \/ \E q \in Seq(Packets) : tx' = Append(q, IF manual THEN "ON" ELSE "OFF")
              \/ \E q \in Seq(Packets) : tx' = Append(q, Cut)
<1>. DEFINE mode == IF manual THEN "ON" ELSE "OFF"
<1>1. {"ANSWER", "TEXT", "ON", "OFF", Cut} \subseteq Packets
  BY DEF Packets, Messages, Modes
<1>2. ASSUME NEW ps \in Seq(Packets), Send(ps)
      PROVE  tx' = tx \o ps \/ \E q \in Seq(Packets) : tx' = Append(q, Cut)
  <2>. DEFINE room == IF RingPackets > Len(tx) THEN RingPackets - Len(tx) ELSE 0
              some == SubSeq(ps, 1, room)
  <2>1. CASE tx' = tx \o ps
    BY <2>1
  <2>2. CASE ~Sendable(Len(tx), Len(ps)) /\ tx' = tx \o some \o <<Cut>>
    <3>1. room \in Nat /\ room <= Len(ps)
      BY <2>2 DEF Sendable
    <3>2. some \in Seq(Packets)
      BY <3>1
    <3>. HIDE DEF room, some
    <3>3. tx \o some \in Seq(Packets)
      BY <3>2
    <3>4. (tx \o some) \o <<Cut>> = Append(tx \o some, Cut)
      BY <1>1, <3>3
    <3>. QED BY <2>2, <3>3, <3>4
  <2>. QED BY <1>2, <2>1, <2>2 DEF Send
<1>3. tx \o <<"ANSWER">> = Append(tx, "ANSWER")
  OBVIOUS
<1>4. /\ tx \o <<"ANSWER", "TEXT">> \in Seq(Packets)
      /\ tx \o ToggleAnswers(manual) = Append(tx \o <<"ANSWER", "TEXT">>, mode)
  <2>1. <<"ANSWER", "TEXT">> \in Seq(Packets)
    BY <1>1
  <2>. HIDE DEF mode
  <2>2. tx \o <<"ANSWER", "TEXT", mode>> = Append(tx \o <<"ANSWER", "TEXT">>, mode)
    OBVIOUS
  <2>3. ToggleAnswers(manual) = <<"ANSWER", "TEXT", mode>>
    BY DEF ToggleAnswers, mode
  <2>. QED BY <2>1, <2>2, <2>3
<1>. QED BY <1>2, <1>3, <1>4, AnswerTypes

(* What the robot sends, it says truly, and it says nothing of its mode    *)
(* but when it changes.                                                    *)
LEMMA AnswersAreTrue ==
  ASSUME tx \in Seq(Packets), ToldInv, NEW manual \in BOOLEAN,
         \/ robotManual' = robotManual /\ (Send(<<"ANSWER">>) \/ tx' = tx)
         \/ robotManual' = manual /\ Send(ToggleAnswers(manual))
  PROVE  /\ ToldInv'
         /\ (NoModes(tx) /\ NoCut(tx))'
              => NoModes(tx) /\ NoCut(tx) /\ robotManual' = robotManual
<1>1. {"ANSWER", "ON", "OFF", Cut} \subseteq Packets /\ Cut \notin Modes
      /\ "ANSWER" \notin Modes /\ "ON" \in Modes /\ "OFF" \in Modes
  BY DEF Packets, Messages, Modes, Cut
<1>2. CASE \E q \in Seq(Packets) : tx' = Append(q, Cut)
  <2>1. LastTold(tx', robotManual') /\ ~NoCut(tx')
    BY <1>1, <1>2, ModesAppended
  <2>. QED BY <2>1 DEF ToldInv, NoCut
<1>3. CASE tx' = tx /\ robotManual' = robotManual
  BY <1>3 DEF ToldInv, NoModes, NoCut
<1>4. CASE tx' = Append(tx, "ANSWER") /\ robotManual' = robotManual
  <2>1. LastTold(Append(tx, "ANSWER"), robotManual)
        /\ (NoModes(Append(tx, "ANSWER")) => NoModes(tx))
        /\ (NoCut(Append(tx, "ANSWER")) => NoCut(tx))
    BY <1>1, ModesAppended DEF ToldInv
  <2>. QED BY <1>4, <2>1 DEF ToldInv, NoModes, NoCut
<1>5. CASE /\ robotManual' = manual
           /\ \E q \in Seq(Packets) : tx' = Append(q, IF manual THEN "ON" ELSE "OFF")
  <2>. DEFINE mode == IF manual THEN "ON" ELSE "OFF"
  <2>1. mode \in Packets /\ mode \in Modes /\ ((mode = "ON") <=> manual)
    BY <1>1
  <2>2. PICK q \in Seq(Packets) : tx' = Append(q, mode)
    BY <1>5
  <2>. HIDE DEF mode
  <2>3. LastTold(Append(q, mode), manual) /\ ~NoModes(Append(q, mode))
    BY <2>1, ModesAppended
  <2>. QED BY <1>5, <2>2, <2>3 DEF ToldInv, NoModes
<1>. QED BY <1>2, <1>3, <1>4, <1>5, AnswersAppended

(* What a step has to leave alone so that nothing changes for a client.    *)
ModeView == <<session, manualMode, toClient, linked, srv, portOpen, worker, tx,
              robotManual, upAligned, resets, aware>>

LEMMA ModeUntouched ==
  ASSUME ModeInv, UNCHANGED ModeView, OnlyHello(down)' \/ worker # "none",
         OnlyHello(rx)' \/ worker # "none"
  PROVE  ModeInv'
<1>1. FirstInv'
  BY DEF ModeInv, FirstInv, ModeView, OnlyHello
<1>2. ToldInv'
  BY DEF ModeInv, ToldInv, ModeView
<1>3. KnownInv'
  BY DEF ModeInv, KnownInv, Undamaged, Knows, NoModes, NoCut, ModeView
<1>. QED BY <1>1, <1>2, <1>3 DEF ModeInv

LEMMA ModeInitial == LinkInit => ModeInv
BY DEF LinkInit, OperatorInit, ModeInv, FirstInv, ToldInv, KnownInv, Undamaged,
       LastTold

(* The operator's program takes the mode from the message.                 *)
LEMMA ClientKnowsMode ==
  ASSUME LinkTypeOK, ModeInv, ClientStep
  PROVE  ModeInv'
<1>1. UNCHANGED <<serverSide, robotSide, lines, resets>>
  BY DEF ClientStep, Elsewhere
<1>2. /\ srv' = srv /\ portOpen' = portOpen /\ worker' = worker
      /\ robotManual' = robotManual /\ down' = down /\ rx' = rx /\ tx' = tx
      /\ upAligned' = upAligned
  BY <1>1 DEF serverSide, robotSide, lines
<1>3. ToldInv'
  BY <1>2 DEF ModeInv, ToldInv
<1>4. aware' = aware
  BY DEF ClientStep, SendNow, histories
<1>5. CASE (\E c \in Command : SendNow(c)) \/ ShowPrompt
  <2>1. UNCHANGED <<session, manualMode, toClient, linked>>
    BY <1>5 DEF SendNow, SendCommand, ShowPrompt
  <2>2. FirstInv'
    BY <1>2, <2>1 DEF ModeInv, FirstInv, OnlyHello
  <2>3. KnownInv'
    BY <1>1, <1>2, <1>4, <2>1 DEF ModeInv, KnownInv, Undamaged, Knows, NoModes, NoCut
  <2>. QED BY <1>3, <2>2, <2>3 DEF ModeInv
<1>6. CASE TakeMessage
  <2>1. /\ session = "live" /\ session' = session /\ linked' = linked
        /\ toClient # <<>> /\ toClient' = Tail(toClient)
        /\ manualMode' = IF Head(toClient) \in Modes THEN Head(toClient) = "ON"
                                                      ELSE manualMode
    BY <1>6 DEF TakeMessage, ModeTold
  <2>2. FirstInv'
    BY <1>2, <2>1 DEF ModeInv, FirstInv, OnlyHello
  <2>3. ASSUME (Undamaged /\ NoModes(tx))' PROVE Knows'
    <3>1. Knows
      BY <1>1, <1>2, <1>4, <2>1, <2>3 DEF ModeInv, KnownInv, Undamaged, NoModes, NoCut
    <3>2. toClient \in Seq(Messages)
      BY TypesSplit DEF OperatorTypeOK
    <3>3. NoCut(toClient) /\ Cut \notin Messages
      BY <3>2 DEF NoCut, Cut, Messages, Modes
    <3>4. /\ NoModes(toClient) <=> Head(toClient) \notin Modes /\ NoModes(Tail(toClient))
          /\ NoCut(Tail(toClient))
          /\ LastTold(Tail(toClient), robotManual)
          /\ Head(toClient) \in Modes /\ NoModes(Tail(toClient))
               => ((Head(toClient) = "ON") <=> robotManual)
      BY <2>1, <3>1, <3>2, <3>3, ModesTaken DEF Knows
    <3>5. LastTold(toClient, robotManual)'
      BY <1>2, <2>1, <3>4 DEF LastTold, TellsLast
    <3>6. ASSUME NoModes(toClient)' PROVE manualMode' = robotManual
      <4>1. NoModes(Tail(toClient))
        BY <2>1, <3>6 DEF NoModes
      <4>2. CASE Head(toClient) \in Modes
        <5>1. robotManual \in BOOLEAN /\ manualMode' = (Head(toClient) = "ON")
          BY <2>1, <4>2, TypesSplit DEF RobotTypes
        <5>2. (Head(toClient) = "ON") <=> robotManual
          BY <3>4, <4>1, <4>2
        <5>. QED BY <5>1, <5>2, Zenon
      <4>3. CASE Head(toClient) \notin Modes
        BY <2>1, <3>1, <3>4, <4>1, <4>3 DEF Knows
      <4>. QED BY <4>2, <4>3
    <3>. QED BY <1>2, <3>5, <3>6 DEF Knows, NoModes
  <2>. QED BY <1>3, <2>2, <2>3 DEF ModeInv, KnownInv
<1>7. CASE Ends \/ StartAgain
  <2>1. session' # "live" /\ manualMode'
    BY <1>7 DEF Ends, StartAgain, ModeInv, FirstInv
  <2>2. FirstInv'
    BY <1>2, <2>1 DEF ModeInv, FirstInv, OnlyHello
  <2>. QED BY <1>3, <2>1, <2>2 DEF ModeInv, KnownInv, Undamaged
<1>. QED BY <1>5, <1>6, <1>7 DEF ClientStep

(* A robot whose port is opened starts anew, and is only greeted before    *)
(* the first client comes.                                                 *)
LEMMA MainKnowsMode ==
  ASSUME LinkTypeOK, ModeInv, OpenPort \/ Listen \/ SendHello \/ StopServer
  PROVE  ModeInv'
<1>1. CASE OpenPort
  <2>1. srv = "down" /\ srv' = "opened" /\ worker' = worker /\ worker = "none"
        /\ session' = session /\ manualMode' = manualMode
    BY <1>1 DEF OpenPort, operatorVars, ModeInv, FirstInv
  <2>2. ~Undamaged'
    BY <2>1 DEF Undamaged
  <2>3. CASE Reset("booting") /\ down' = <<>> /\ tx' = <<>>
    <3>1. robotManual' /\ rx' = <<>> /\ down' = <<>> /\ tx' = <<>>
      BY <2>3 DEF Reset
    <3>2. FirstInv' /\ ToldInv'
      BY <2>1, <3>1 DEF ModeInv, FirstInv, ToldInv, OnlyHello, LastTold
    <3>. QED BY <2>2, <3>2 DEF ModeInv, KnownInv
  <2>4. CASE ~portOpen' /\ UNCHANGED <<robotSide, lines>>
    <3>1. FirstInv' /\ ToldInv'
      BY <2>1, <2>4 DEF ModeInv, FirstInv, ToldInv, robotSide, lines
    <3>. QED BY <2>2, <3>1 DEF ModeInv, KnownInv
  <2>. QED BY <1>1, <2>3, <2>4 DEF OpenPort
<1>2. CASE Listen \/ SendHello
  <2>1. /\ srv \notin {"down"} /\ srv' # "down"
        /\ UNCHANGED <<session, manualMode, toClient, linked, portOpen, worker, tx, rx,
                       robotManual, upAligned, resets, aware>>
        /\ down' = down \/ Forward(Hello)
    BY <1>2 DEF Listen, SendHello, operatorVars, robotSide, lines, histories
  <2>2. OnlyHello(down) => OnlyHello(down)'
    <3>1. down \in Seq(DownPackets)
      BY TypesSplit DEF LineTypes
    <3>2. OnlyHello(down) => OnlyHello(Append(down, Hello))
      BY <3>1, OnlyHelloKept
    <3>. QED BY <2>1, <3>2 DEF Forward, OnlyHello
  <2>3. FirstInv'
    BY <2>1, <2>2 DEF ModeInv, FirstInv, OnlyHello
  <2>4. ToldInv'
    BY <2>1 DEF ModeInv, ToldInv
  <2>5. KnownInv'
    BY <2>1 DEF ModeInv, KnownInv, Undamaged, Knows, NoModes, NoCut
  <2>. QED BY <2>3, <2>4, <2>5 DEF ModeInv
<1>3. CASE StopServer
  <2>1. srv' = "down" /\ worker' = "none" /\ ~linked'
        /\ UNCHANGED <<session, manualMode, robotManual, tx>>
    BY <1>3 DEF StopServer, ServerStops, ofOperator, robotSide, lines
  <2>2. FirstInv' /\ ToldInv'
    BY <2>1 DEF ModeInv, FirstInv, ToldInv
  <2>. QED BY <2>1, <2>2 DEF ModeInv, KnownInv, Undamaged
<1>. QED BY <1>1, <1>2, <1>3

(* Client and robot of a first connection are both in manual mode.         *)
LEMMA WorkerKnowsMode ==
  ASSUME LinkTypeOK, ModeInv, Accept \/ WorkerStep
  PROVE  ModeInv'
<1>1. CASE Accept
  <2>1. /\ srv \in {"listening", "greeted"} /\ srv' = srv /\ portOpen' = portOpen
        /\ session = "connect" /\ session' = "live" /\ toClient' = <<>>
        /\ manualMode' = manualMode /\ worker' # "none"
        /\ aware' = (worker = "none")
        /\ robotManual' = robotManual /\ tx' = tx
    BY <1>1 DEF Accept, Connect, robotSide, lines
  <2>2. manualMode
    BY <2>1 DEF ModeInv, FirstInv
  <2>3. FirstInv' /\ ToldInv'
    BY <2>1 DEF ModeInv, FirstInv, ToldInv
  <2>4. KnownInv'
    <3>. SUFFICES ASSUME Undamaged' PROVE Knows'
      BY DEF KnownInv
    <3>1. worker = "none" /\ portOpen
      BY <2>1 DEF Undamaged
    <3>2. robotManual
      BY <2>1, <3>1 DEF ModeInv, FirstInv
    <3>3. manualMode' = robotManual'
      <4>1. robotManual \in BOOLEAN /\ manualMode \in BOOLEAN
        BY TypesSplit DEF RobotTypes, OperatorTypeOK
      <4>. QED BY <2>1, <2>2, <3>2, <4>1
    <3>. QED BY <2>1, <3>3 DEF Knows, LastTold
  <2>. QED BY <2>3, <2>4 DEF ModeInv
<1>2. CASE Work
  <2>1. UNCHANGED ModeView /\ worker # "none"
    BY <1>2 DEF Work, Works, ModeView, ofOperator, robotSide, histories
  <2>. QED BY <2>1, ModeUntouched
<1>3. CASE ReadFails \/ StaleReadFails
  <2>1. /\ worker' # worker => worker' = "gone" /\ worker = "read"
        /\ UNCHANGED <<session, manualMode, toClient, linked, srv, portOpen, tx, rx,
                       robotManual, upAligned, resets, aware, down>>
    <3>1. worker' # worker => worker' = "gone" /\ worker = "read"
      BY <1>3 DEF ReadFails, StaleReadFails, TestsActive, Works
    <3>2. UNCHANGED <<operatorVars, srv, portOpen, robotSide, lines, resets, histories>>
      BY <1>3 DEF ReadFails, StaleReadFails
    <3>. QED BY <3>1, <3>2 DEF operatorVars, robotSide, lines, histories
  <2>2. FirstInv'
    BY <2>1 DEF ModeInv, FirstInv, OnlyHello
  <2>3. ToldInv'
    BY <2>1 DEF ModeInv, ToldInv
  <2>4. KnownInv'
    BY <2>1 DEF ModeInv, KnownInv, Undamaged, Knows, NoModes, NoCut
  <2>. QED BY <2>2, <2>3, <2>4 DEF ModeInv
<1>. QED BY <1>1, <1>2, <1>3 DEF WorkerStep

(* A mode that reaches the client is the last the robot told; one that     *)
(* does not leaves the client unaware.                                     *)
LEMMA UartStepKnowsMode ==
  ASSUME LinkTypeOK, ModeInv, UartStep
  PROVE  ModeInv'
<1>1. /\ tx # <<>> /\ tx' = Tail(tx) /\ upAligned' = (upAligned /\ Head(tx) # Cut)
      /\ UNCHANGED <<session, manualMode, robotManual, rx, down, resets, portOpen>>
  BY DEF UartStep, Drop, Pass, PassToNobody, Arrives, operatorVars, ofOperator,
         robotSide, serverSide
<1>2. tx \in Seq(Packets) /\ toClient \in Seq(Messages)
  BY TypesSplit DEF LineTypes, OperatorTypeOK
<1>3. /\ NoModes(tx) <=> Head(tx) \notin Modes /\ NoModes(Tail(tx))
      /\ NoCut(tx) <=> Head(tx) # Cut /\ NoCut(Tail(tx))
      /\ LastTold(Tail(tx), robotManual)
      /\ Head(tx) \in Modes /\ NoModes(Tail(tx)) /\ NoCut(Tail(tx))
           => ((Head(tx) = "ON") <=> robotManual)
  BY <1>1, <1>2, ModesTaken DEF ModeInv, ToldInv
<1>4. ToldInv'
  BY <1>1, <1>3 DEF ToldInv
<1>5. ASSUME (Undamaged /\ NoModes(tx))'
      PROVE  upAligned /\ NoCut(tx) /\ NoModes(Tail(tx)) /\ NoCut(Tail(tx)) /\ resets = 0
  BY <1>1, <1>3, <1>5 DEF Undamaged, NoModes, NoCut
<1>6. CASE Pass
  <2>1. /\ UNCHANGED <<linked, srv, worker>> /\ linked
        /\ toClient' = Append(toClient, Head(tx)) /\ Head(tx) \in Messages
        /\ aware' = (aware \/ Head(tx) \in Modes)
    BY <1>6 DEF Pass, Relayed, ofOperator, serverSide
  <2>2. FirstInv'
    BY <1>1, <2>1 DEF ModeInv, FirstInv, OnlyHello
  <2>3. ASSUME (Undamaged /\ NoModes(tx))' PROVE Knows'
    <3>1. CASE Head(tx) \in Modes
      <4>1. (Head(tx) = "ON") <=> robotManual
        BY <1>3, <1>5, <2>3, <3>1
      <4>2. LastTold(toClient', robotManual) /\ ~NoModes(toClient')
        BY <1>2, <2>1, <3>1, <4>1, ModesAppended
      <4>. QED BY <1>1, <4>2 DEF Knows, NoModes
    <3>2. CASE Head(tx) \notin Modes
      <4>1. aware
        BY <2>1, <2>3, <3>2 DEF Undamaged
      <4>2. Knows
        BY <1>1, <1>3, <1>5, <2>1, <2>3, <3>2, <4>1 DEF ModeInv, KnownInv, Undamaged
      <4>3. LastTold(toClient', robotManual)
            /\ (NoModes(toClient') => NoModes(toClient))
        BY <1>2, <2>1, <3>2, <4>2, ModesAppended DEF Knows
      <4>. QED BY <1>1, <4>2, <4>3 DEF Knows, NoModes
    <3>. QED BY <3>1, <3>2
  <2>. QED BY <1>4, <2>2, <2>3 DEF ModeInv, KnownInv
<1>7. CASE Drop \/ PassToNobody
  <2>1. /\ \/ UNCHANGED <<linked, srv, worker>>
           \/ UNCHANGED <<linked, srv>> /\ worker = "read" /\ worker' = "gone"
           \/ ~linked' /\ srv' = "down" /\ worker' = "none"
        /\ toClient' = toClient
        /\ aware' = (aware /\ Head(tx) \notin Modes)
    <3>1. CASE Drop
      BY <3>1 DEF Drop, ToldInVain, operatorVars, serverSide
    <3>2. CASE PassToNobody
      BY <3>2 DEF PassToNobody, ToldInVain, ServerStops, TestsActive, Works,
                  operatorVars, ofOperator
    <3>. QED BY <1>7, <3>1, <3>2
  <2>2. FirstInv'
    BY <1>1, <2>1 DEF ModeInv, FirstInv, OnlyHello
  <2>3. ASSUME (Undamaged /\ NoModes(tx))' PROVE Knows'
    <3>1. aware /\ Head(tx) \notin Modes /\ UNCHANGED <<linked, srv, worker>>
      BY <2>1, <2>3 DEF Undamaged
    <3>2. Knows
      BY <1>1, <1>3, <1>5, <2>3, <3>1 DEF ModeInv, KnownInv, Undamaged
    <3>. QED BY <1>1, <2>1, <3>2 DEF Knows, NoModes
  <2>. QED BY <1>4, <2>2, <2>3 DEF ModeInv, KnownInv
<1>. QED BY <1>6, <1>7 DEF UartStep

(* The robot changes its mode only for a client, and says so; a mode that  *)
(* is cut off is noticed.                                                  *)
LEMMA RobotTellsMode ==
  ASSUME LinkTypeOK, ModeInv, Handle \/ FinishTask
  PROVE  ModeInv'
<1>1. UNCHANGED <<session, manualMode, toClient, linked, srv, portOpen, worker,
                  upAligned, resets, aware>>
  BY DEF Handle, WaitForHello, InLoop, Move, Pulse, Stop, Query, Toggle, AnswerGarbled,
         FinishTask, Handles, operatorVars, serverSide, histories
<1>2. tx \in Seq(Packets) /\ rx \in Seq(DownPackets) /\ down \in Seq(DownPackets)
      /\ (~robotManual) \in BOOLEAN
  <2>1. (~robotManual) \in BOOLEAN
    BY Zenon
  <2>. QED BY <2>1, TypesSplit DEF LineTypes, RobotTypes
<1>3. CASE Toggle
  <2>1. robotManual' = ~robotManual /\ Send(ToggleAnswers(~robotManual))
    BY <1>3 DEF Toggle
  <2>2. ToldInv' /\ ((NoModes(tx) /\ NoCut(tx))' => robotManual' = robotManual)
    BY <1>2, <2>1, AnswersAreTrue DEF ModeInv
  <2>3. Packet.do = "toggle" /\ Handles
    BY <1>3 DEF Toggle, InLoop
  <2>4. ~(OnlyHello(down) /\ OnlyHello(rx))
    <3>1. Packet # Hello
      BY <2>3 DEF Hello
    <3>. QED BY <1>2, <2>3, <3>1, TypesSplit, HandlesTypes, OnlyHelloKept
  <2>5. FirstInv'
    BY <1>1, <2>4 DEF ModeInv, FirstInv
  <2>6. KnownInv'
    BY <2>1, <2>2 DEF KnownInv, Undamaged
  <2>. QED BY <2>2, <2>5, <2>6 DEF ModeInv
<1>4. CASE ~Toggle
  <2>1. robotManual' = robotManual /\ (Send(<<"ANSWER">>) \/ tx' = tx)
    BY <1>4 DEF Handle, WaitForHello, InLoop, Move, Pulse, Stop, Query, AnswerGarbled,
                FinishTask
  <2>2. ToldInv' /\ ((NoModes(tx) /\ NoCut(tx))' => NoModes(tx) /\ NoCut(tx))
    BY <1>2, <2>1, AnswersAreTrue DEF ModeInv
  <2>3. OnlyHello(down) /\ OnlyHello(rx) => OnlyHello(down)' /\ OnlyHello(rx)'
    <3>1. CASE Handle
      <4>1. Handles
        BY <3>1 DEF Handle, WaitForHello, InLoop, Move, Pulse, Stop, Query, Toggle,
                    AnswerGarbled
      <4>. QED BY <1>2, <4>1, TypesSplit, HandlesTypes, OnlyHelloKept DEF OnlyHello
    <3>2. CASE FinishTask
      BY <3>2 DEF FinishTask, OnlyHello
    <3>. QED BY <3>1, <3>2
  <2>4. FirstInv'
    BY <1>1, <2>1, <2>3 DEF ModeInv, FirstInv
  <2>5. ASSUME (Undamaged /\ NoModes(tx))' PROVE Knows'
    <3>1. Undamaged /\ NoModes(tx)
      BY <1>1, <2>2, <2>5 DEF Undamaged
    <3>. QED BY <1>1, <2>1, <3>1 DEF ModeInv, KnownInv, Knows, NoModes
  <2>. QED BY <2>2, <2>4, <2>5 DEF ModeInv, KnownInv
<1>. QED BY <1>3, <1>4

LEMMA RobotAloneKeepsMode ==
  ASSUME LinkTypeOK, ModeInv, Boot \/ Receive \/ ResetAlone
  PROVE  ModeInv'
<1>1. down \in Seq(DownPackets) /\ rx \in Seq(DownPackets) /\ resets \in Nat
  BY TypesSplit DEF LineTypes, RobotTypes, CounterTypes
<1>2. CASE Boot \/ Receive
  <2>1. UNCHANGED ModeView
    BY <1>2 DEF Boot, Receive, ModeView, operatorVars, serverSide, histories
  <2>2. /\ down' # down => down # <<>> /\ down' = Tail(down)
        /\ \/ rx' = rx \/ rx' = <<>>
           \/ down # <<>> /\ rx' = Append(rx, Head(down))
    <3>1. CASE Boot
      BY <3>1 DEF Boot
    <3>2. CASE Receive
      BY <3>2 DEF Receive
    <3>. QED BY <1>2, <3>1, <3>2
  <2>3. OnlyHello(down) /\ OnlyHello(rx) => OnlyHello(down)' /\ OnlyHello(rx)'
    <3>. SUFFICES ASSUME OnlyHello(down), OnlyHello(rx) PROVE OnlyHello(down)' /\ OnlyHello(rx)'
      OBVIOUS
    <3>1. down # <<>> => Head(down) = Hello /\ OnlyHello(Tail(down))
      BY <1>1, OnlyHelloKept
    <3>2. OnlyHello(Append(rx, Hello)) /\ OnlyHello(<<>>)
      BY <1>1, OnlyHelloKept DEF OnlyHello
    <3>. QED BY <2>2, <3>1, <3>2 DEF OnlyHello
  <2>4. FirstInv'
    BY <2>1, <2>3 DEF ModeInv, FirstInv, ModeView
  <2>5. ToldInv'
    BY <2>1 DEF ModeInv, ToldInv, ModeView
  <2>6. KnownInv'
    BY <2>1 DEF ModeInv, KnownInv, Undamaged, Knows, NoModes, NoCut, ModeView
  <2>. QED BY <2>4, <2>5, <2>6 DEF ModeInv
<1>3. CASE ResetAlone
  <2>1. /\ robotManual' /\ rx' = <<>> /\ down' = <<>> /\ resets' = resets + 1
        /\ tx' \in {<<>>, <<Cut>>}
        /\ UNCHANGED <<session, manualMode, srv, worker>>
    BY <1>3 DEF ResetAlone, Reset, operatorVars, serverSide
  <2>2. FirstInv'
    BY <2>1 DEF ModeInv, FirstInv, OnlyHello
  <2>3. ToldInv'
    BY <2>1 DEF ToldInv, LastTold, TellsLast, Cut, Modes
  <2>4. ~Undamaged'
    BY <1>1, <2>1 DEF Undamaged
  <2>. QED BY <2>2, <2>3, <2>4 DEF ModeInv, KnownInv
<1>. QED BY <1>2, <1>3

LEMMA ModeNext ==
  ASSUME LinkTypeOK, ModeInv, [LinkNext]_linkVars
  PROVE  ModeInv'
<1>1. CASE ClientStep
  BY <1>1, ClientKnowsMode
<1>2. CASE OpenPort \/ Listen \/ SendHello \/ StopServer
  BY <1>2, MainKnowsMode
<1>3. CASE Accept \/ WorkerStep
  BY <1>3, WorkerKnowsMode
<1>4. CASE UartStep
  BY <1>4, UartStepKnowsMode
<1>5. CASE Handle \/ FinishTask
  BY <1>5, RobotTellsMode
<1>6. CASE Boot \/ Receive \/ ResetAlone
  BY <1>6, RobotAloneKeepsMode
<1>7. CASE UNCHANGED linkVars
  <2>1. UNCHANGED <<ModeView, down, rx>>
    BY <1>7 DEF linkVars, operatorVars, serverSide, robotSide, lines, histories, ModeView
  <2>2. FirstInv'
    BY <2>1 DEF ModeInv, FirstInv, ModeView, OnlyHello
  <2>3. ToldInv'
    BY <2>1 DEF ModeInv, ToldInv, ModeView
  <2>4. KnownInv'
    BY <2>1 DEF ModeInv, KnownInv, Undamaged, Knows, NoModes, NoCut, ModeView
  <2>. QED BY <2>2, <2>3, <2>4 DEF ModeInv
<1>. QED BY <1>1, <1>2, <1>3, <1>4, <1>5, <1>6, <1>7 DEF LinkNext, FirmwareStep

(* The modes of a client that knows its robot, and of the robot, agree as  *)
(* soon as no mode is on its way.                                          *)
THEOREM ClientAndRobotAgree == LinkSpec => []ModesAgree
<1>1. LinkTypeOK /\ ModeInv /\ [LinkNext]_linkVars => ModeInv'
  BY ModeNext
<1>2. ModeInv => ModesAgree
  BY DEF ModeInv, KnownInv, Undamaged, Knows, NoModes, NoCut, ModesAgree, InSession,
         Connected, Works, Settled
<1>. QED BY LinkTypeCorrect, ModeInitial, <1>1, <1>2, PTL DEF LinkSpec

=============================================================================
