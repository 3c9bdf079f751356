----------------------------- MODULE ClientProofs -----------------------------
(***************************************************************************)
(* Proofs about the operator's program, for any commands and any number of *)
(* them, of messages and of sessions: its inductive invariant, and that    *)
(* its threads implement what Operator promises.                           *)
(***************************************************************************)
EXTENDS Client, TLAPS

USE CommandsAssumption, ClientAssumption

LEMMA CommandsOfAPrompt ==
  ASSUME NEW p \in {"line", "key"}
  PROVE  CommandsAt(p) \subseteq Command
BY DEF CommandsAt, Command

LEMMA HeadAndTail ==
  ASSUME NEW S, NEW s \in Seq(S), s # <<>>
  PROVE  Head(s) \in S /\ Tail(s) \in Seq(S)
OBVIOUS

(* A process that ends leaves nothing behind.                              *)
LEMMA EndedIsClean ==
  ASSUME ClientTypeOK, ProcessEnds
  PROVE  ClientInv'
<1>. USE DEF ProcessEnds
<1>1. ClientTypeOK'
  <2>1. NoCommand \in Command \cup {NoCommand} /\ "ANSWER" \in Messages
    BY DEF Messages
  <2>2. toServer \in Seq(Command) /\ commands \in 0 .. MaxCommands
        /\ sessions \in 1 .. MaxSessions
    BY DEF ClientTypeOK
  <2>3. <<>> \in Seq(Messages) /\ <<>> \in Seq(Command) /\ 0 \in -1 .. 1
    OBVIOUS
  <2>4. toServer' \in Seq(Command) /\ toClient' \in Seq(Messages)
    BY <2>2, <2>3, Zenon
  <2>5. commands' \in 0 .. MaxCommands /\ sessions' \in 1 .. MaxSessions
    BY <2>2, Zenon
  <2>6. networkActive' \in BOOLEAN /\ manualMode' \in BOOLEAN /\ exitFlag' \in BOOLEAN
        /\ linked' \in BOOLEAN
    BY Zenon
  <2>7. msg' \in Messages /\ cmd' \in Command \cup {NoCommand} /\ c' \in -1 .. 1
        /\ len' \in -1 .. 1
    BY <2>1, <2>3, Zenon
  <2>8. conn' = "none" /\ kb' = "none" /\ prompt' = "line" /\ net' = "none" /\ loop' = "ended"
    BY Zenon
  <2>. QED BY <2>4, <2>5, <2>6, <2>7, <2>8 DEF ClientTypeOK
<1>2. ~Running' /\ OutOfSession'
  BY DEF Running, OutOfSession
<1>. QED BY <1>1, <1>2 DEF ClientInv, FreedOnlyAtExit, ActiveWhileUsable, Usable

LEMMA ClientInitInv == ClientInit => ClientInv
<1>. SUFFICES ASSUME ClientInit PROVE ClientInv
  OBVIOUS
<1>. USE DEF ClientInit
<1>1. ClientTypeOK
  <2>1. "ANSWER" \in Messages /\ <<>> \in Seq(Command) /\ <<>> \in Seq(Messages)
    BY DEF Messages
  <2>2. 0 \in -1 .. 1 /\ 0 \in 0 .. MaxCommands /\ 1 \in 1 .. MaxSessions
    OBVIOUS
  <2>3. networkActive \in BOOLEAN /\ manualMode \in BOOLEAN /\ exitFlag \in BOOLEAN
        /\ linked \in BOOLEAN
    BY Zenon
  <2>4. toServer \in Seq(Command) /\ toClient \in Seq(Messages)
    BY <2>1, Zenon
  <2>5. msg \in Messages /\ cmd \in Command \cup {NoCommand}
    BY <2>1, Zenon
  <2>6. c \in -1 .. 1 /\ len \in -1 .. 1 /\ commands \in 0 .. MaxCommands
        /\ sessions \in 1 .. MaxSessions
    BY <2>2, Zenon
  <2>7. conn = "none" /\ kb = "none" /\ prompt = "line" /\ net = "none" /\ loop = "connect"
    BY Zenon
  <2>. QED BY <2>3, <2>4, <2>5, <2>6, <2>7 DEF ClientTypeOK
<1>2. ~Running /\ OutOfSession
  BY DEF Running, OutOfSession
<1>. QED BY <1>1, <1>2 DEF ClientInv, FreedOnlyAtExit, ActiveWhileUsable, Usable

-----------------------------------------------------------------------------
(* Every step keeps the types.                                             *)
LEMMA ClientTypeNext ==
  ASSUME ClientTypeOK, [ClientNext]_clientVars,
         kb = "write" => cmd \in CommandsAt(prompt) /\ commands < MaxCommands
  PROVE  ClientTypeOK'
<1>. USE DEF ClientTypeOK
<1>1. CASE ProcessEnds
  BY <1>1, EndedIsClean DEF ClientInv
<1>2. CASE Connected
  BY <1>2 DEF Connected
<1>3. CASE CloseAndExit
  BY <1>3 DEF CloseAndExit, keyboardVars, networkVars
<1>4. CASE BreakHandler
  BY <1>4 DEF BreakHandler, keyboardVars, networkVars
<1>5. CASE StartAgain
  BY <1>5 DEF StartAgain, keyboardVars, networkVars
<1>6. CASE KeyboardStep
  <2>1. CASE Prompt
    BY <2>1 DEF Prompt, sharedVars, networkVars
  <2>2. CASE StoreWritten
    <3>1. networkActive' \in BOOLEAN
      BY <2>2 DEF StoreWritten, Active
    <3>. QED BY <2>2, <3>1 DEF StoreWritten, networkVars
  <2>3. CASE EndKeyboard
    <3>1. exitFlag' \in BOOLEAN
      BY <2>3 DEF EndKeyboard, StopsFirst
    <3>2. conn' \in {"none", "open", "freed"}
      BY <2>3 DEF EndKeyboard
    <3>3. kb' \in {"free", "done"}
      BY <2>3 DEF EndKeyboard, After
    <3>. QED BY <2>3, <3>1, <3>2, <3>3 DEF EndKeyboard, networkVars
  <2>. QED BY <1>6, <2>1, <2>2, <2>3 DEF KeyboardStep
<1>7. CASE Typing
  <2>1. CASE Nothing \/ Quit
    BY <2>1 DEF Nothing, Quit, sharedVars, networkVars
  <2>2. ASSUME NEW command \in Command, Type(command) PROVE ClientTypeOK'
    BY <2>2 DEF Type, sharedVars, networkVars
  <2>. QED BY <1>7, <2>1, <2>2 DEF Typing
<1>8. CASE Write
  <2>1. cmd \in Command
    BY <1>8, CommandsOfAPrompt DEF Write
  <2>2. toServer' \in Seq(Command)
    BY <1>8, <2>1 DEF Write
  <2>3. commands' \in 0 .. MaxCommands
    BY <1>8 DEF Write
  <2>4. c' = 1 \/ c' = -1
    BY <1>8, Zenon DEF Write
  <2>5. c' \in -1 .. 1
    BY <2>4
  <2>. QED BY <1>8, <2>2, <2>3, <2>5 DEF Write, sharedVars, networkVars
<1>9. CASE NetworkStep
  <2>1. CASE TestActive
    BY <2>1 DEF TestActive, sharedVars, keyboardVars
  <2>2. CASE Read
    <3>0. toClient # <<>> => Head(toClient) \in Messages /\ Tail(toClient) \in Seq(Messages)
      BY HeadAndTail
    <3>1. toClient' \in Seq(Messages)
      BY <2>2, <3>0, Zenon DEF Read
    <3>2. msg' \in Messages
      BY <2>2, <3>0, Zenon DEF Read
    <3>3. len' \in -1 .. 1
      BY <2>2 DEF Read
    <3>. QED BY <2>2, <3>1, <3>2, <3>3 DEF Read, sharedVars, keyboardVars
  <2>3. CASE StoreRead
    <3>1. networkActive' \in BOOLEAN
      BY <2>3 DEF StoreRead, Active
    <3>. QED BY <2>3, <3>1 DEF StoreRead, keyboardVars
  <2>4. CASE HandleNetwork
    <3>1. manualMode' \in BOOLEAN
      BY <2>4 DEF HandleNetwork, ModeTold
    <3>. QED BY <2>4, <3>1 DEF HandleNetwork, keyboardVars
  <2>5. CASE EndNetwork
    <3>1. exitFlag' \in BOOLEAN
      BY <2>5 DEF EndNetwork, StopsFirst
    <3>2. conn' \in {"none", "open", "freed"}
      BY <2>5 DEF EndNetwork
    <3>3. net' \in {"free", "done"}
      BY <2>5 DEF EndNetwork, After
    <3>. QED BY <2>5, <3>1, <3>2, <3>3 DEF EndNetwork, keyboardVars
  <2>. QED BY <1>9, <2>1, <2>2, <2>3, <2>4, <2>5 DEF NetworkStep
<1>10. CASE ServerStep
  <2>. USE DEF serverless, sharedVars, keyboardVars, networkVars
  <2>1. CASE ServerTakes
    BY <2>1 DEF ServerTakes
  <2>2. CASE ServerGoes
    <3>1. toServer' \in Seq(Command) /\ linked' \in BOOLEAN
      <4>1. <<>> \in Seq(Command)
        OBVIOUS
      <4>. QED BY <2>2, <4>1, Zenon DEF ServerGoes
    <3>. QED BY <2>2, <3>1 DEF ServerGoes
  <2>3. ASSUME NEW m \in Messages, ServerSends(m) PROVE ClientTypeOK'
    BY <2>3 DEF ServerSends
  <2>. QED BY <1>10, <2>1, <2>2, <2>3 DEF ServerStep
<1>11. CASE UNCHANGED clientVars
  BY <1>11 DEF clientVars, sharedVars, keyboardVars, networkVars
<1>. QED BY <1>1, <1>2, <1>3, <1>4, <1>5, <1>6, <1>7, <1>8, <1>9, <1>10, <1>11
         DEF ClientNext, ConnectFails, LoopStep, MainReturns, WriteKills

-----------------------------------------------------------------------------
(* The rest of the invariant, that is what the threads know of each other. *)
ThreadsInv ==
  /\ FreedOnlyAtExit /\ ActiveWhileUsable
  /\ kb = "write" => cmd \in CommandsAt(prompt) /\ commands < MaxCommands
  /\ loop = "connect" => networkActive
  /\ IF Running THEN InSession ELSE OutOfSession

LEMMA InvSplit == ClientInv <=> ClientTypeOK /\ ThreadsInv
BY DEF ClientInv, ThreadsInv

(* Steps of the client loop, of main() and of the operator.                *)
LEMMA LoopKeepsThreadsInv ==
  ASSUME ClientTypeOK, ThreadsInv,
         Connected \/ CloseAndExit \/ BreakHandler \/ StartAgain
  PROVE  ThreadsInv'
<1>. USE DEF ThreadsInv, FreedOnlyAtExit, ActiveWhileUsable, Running, InSession,
             OutOfSession, Usable, Failed
<1>1. CASE Connected
  BY <1>1 DEF Connected
<1>2. CASE CloseAndExit
  BY <1>2 DEF CloseAndExit, keyboardVars, networkVars
<1>3. CASE BreakHandler
  BY <1>3 DEF BreakHandler, keyboardVars, networkVars
<1>4. CASE StartAgain
  BY <1>4 DEF StartAgain, keyboardVars, networkVars
<1>. QED BY <1>1, <1>2, <1>3, <1>4

(* Steps of writerThread().                                                *)
LEMMA KeyboardKeepsThreadsInv ==
  ASSUME ClientTypeOK, ThreadsInv, KeyboardStep \/ Typing \/ Write
  PROVE  ThreadsInv'
<1>1. kb # "none" => Running /\ InSession
  BY DEF ThreadsInv, OutOfSession
<1>2. Running /\ InSession /\ kb # "none"
  BY <1>1 DEF KeyboardStep, Typing, Write, Prompt, StoreWritten, EndKeyboard, Nothing, Quit,
              Type
<1>. USE DEF ThreadsInv, FreedOnlyAtExit, ActiveWhileUsable, Running, InSession, Usable
<1>3. CASE Prompt
  BY <1>2, <1>3 DEF Prompt, sharedVars, networkVars
<1>4. CASE StoreWritten
  <2>0. c \in -1 .. 1
    BY DEF ClientTypeOK
  <2>1. ~networkActive' => Failed(c)
    <3>1. networkActive' = (c > 0)
      BY <1>4, Zenon DEF StoreWritten, Active
    <3>2. ~(c > 0) => c <= 0
      BY <2>0
    <3>. QED BY <3>1, <3>2, Zenon DEF Failed
  <2>. QED BY <1>2, <1>4, <2>1 DEF StoreWritten, networkVars
<1>5. CASE EndKeyboard
  BY <1>2, <1>5 DEF EndKeyboard, StopsFirst, After, networkVars
<1>6. CASE Nothing \/ Quit
  BY <1>2, <1>6 DEF Nothing, Quit, sharedVars, networkVars
<1>7. ASSUME NEW command \in Command, Type(command) PROVE ThreadsInv'
  <2>1. kb' = "write" => cmd' \in CommandsAt(prompt') /\ commands' < MaxCommands
    BY <1>7 DEF Type, Asked
  <2>. QED BY <1>2, <1>7, <2>1 DEF Type, sharedVars, networkVars
<1>8. CASE Write
  <2>1. Failed(c') => ~Usable
    BY <1>8 DEF Write, Failed
  <2>. QED BY <1>2, <1>8, <2>1 DEF Write, sharedVars, networkVars
<1>. QED BY <1>3, <1>4, <1>5, <1>6, <1>7, <1>8 DEF KeyboardStep, Typing

(* Steps of readerThread().                                                *)
LEMMA NetworkKeepsThreadsInv ==
  ASSUME ClientTypeOK, ThreadsInv, NetworkStep
  PROVE  ThreadsInv'
<1>1. net # "none" => Running /\ InSession
  BY DEF ThreadsInv, OutOfSession
<1>2. Running /\ InSession /\ net # "none"
  BY <1>1 DEF NetworkStep, TestActive, Read, StoreRead, HandleNetwork, EndNetwork
<1>. USE DEF ThreadsInv, FreedOnlyAtExit, ActiveWhileUsable, Running, InSession, Usable
<1>3. CASE TestActive
  BY <1>2, <1>3 DEF TestActive, sharedVars, keyboardVars
<1>4. CASE Read
  <2>1. Failed(len') => ~Usable
    BY <1>4 DEF Read, Failed
  <2>. QED BY <1>2, <1>4, <2>1 DEF Read, sharedVars, keyboardVars
<1>5. CASE StoreRead
  <2>0. len \in -1 .. 1
    BY DEF ClientTypeOK
  <2>1. ~networkActive' => Failed(len)
    <3>1. networkActive' = (len > 0)
      BY <1>5, Zenon DEF StoreRead, Active
    <3>2. ~(len > 0) => len <= 0
      BY <2>0
    <3>. QED BY <3>1, <3>2, Zenon DEF Failed
  <2>. QED BY <1>2, <1>5, <2>1 DEF StoreRead, keyboardVars
<1>6. CASE HandleNetwork
  BY <1>2, <1>6 DEF HandleNetwork, keyboardVars
<1>7. CASE EndNetwork
  BY <1>2, <1>7 DEF EndNetwork, StopsFirst, After, keyboardVars
<1>. QED BY <1>3, <1>4, <1>5, <1>6, <1>7 DEF NetworkStep

(* Steps of the server, and of nobody.                                     *)
LEMMA ServerKeepsThreadsInv ==
  ASSUME ClientTypeOK, ThreadsInv, ServerStep \/ UNCHANGED clientVars
  PROVE  ThreadsInv'
<1>. USE DEF ThreadsInv, FreedOnlyAtExit, ActiveWhileUsable, Running, InSession,
             OutOfSession, Usable, sharedVars, keyboardVars, networkVars, serverless
<1>1. CASE ServerTakes
  BY <1>1 DEF ServerTakes
<1>2. CASE ServerGoes
  BY <1>2 DEF ServerGoes
<1>3. ASSUME NEW m \in Messages, ServerSends(m) PROVE ThreadsInv'
  BY <1>3 DEF ServerSends
<1>4. CASE UNCHANGED clientVars
  BY <1>4 DEF clientVars
<1>. QED BY <1>1, <1>2, <1>3, <1>4 DEF ServerStep

LEMMA ClientNextInv ==
  ASSUME ClientInv, [ClientNext]_clientVars
  PROVE  ClientInv'
<1>1. ClientTypeOK /\ ThreadsInv
  BY InvSplit
<1>2. ClientTypeOK'
  BY <1>1, ClientTypeNext DEF ThreadsInv
<1>3. ProcessEnds => ClientInv'
  BY <1>1, EndedIsClean
<1>4. ProcessEnds \/ ThreadsInv'
  <2>1. \/ ProcessEnds \/ Connected \/ CloseAndExit \/ BreakHandler \/ StartAgain
        \/ KeyboardStep \/ Typing \/ Write \/ NetworkStep \/ ServerStep
        \/ UNCHANGED clientVars
    BY DEF ClientNext, ConnectFails, LoopStep, MainReturns, WriteKills
  <2>. QED BY <1>1, <2>1, LoopKeepsThreadsInv, KeyboardKeepsThreadsInv,
              NetworkKeepsThreadsInv, ServerKeepsThreadsInv
<1>. QED BY <1>2, <1>3, <1>4 DEF ClientInv, ThreadsInv

(* The invariant of the program.                                           *)
THEOREM ClientSafe == ClientSpec => []ClientInv
<1>1. ClientInv /\ [ClientNext]_clientVars => ClientInv'
  BY ClientNextInv
<1>. QED BY ClientInitInv, <1>1, PTL DEF ClientSpec

(* No connection is freed before the program has been told to end.         *)
THEOREM FreesOnlyAtExit == ClientSpec => []FreedOnlyAtExit
<1>1. ClientInv => FreedOnlyAtExit
  BY DEF ClientInv
<1>. QED BY ClientSafe, <1>1, PTL

(* No command is dropped while there is a connection to send it on.        *)
THEOREM StaysActive == ClientSpec => []ActiveWhileUsable
<1>1. ClientInv => ActiveWhileUsable
  BY DEF ClientInv
<1>. QED BY ClientSafe, <1>1, PTL

-----------------------------------------------------------------------------
(* Lemmas about sequences.                                                 *)
LEMMA NothingInFront == ASSUME NEW S, NEW s \in Seq(S) PROVE <<>> \o s = s
OBVIOUS

LEMMA OneInFront ==
  ASSUME NEW S, NEW m \in S, NEW s \in Seq(S)
  PROVE  /\ <<m>> \o s # <<>>
         /\ Head(<<m>> \o s) = m
         /\ Tail(<<m>> \o s) = s
OBVIOUS

LEMMA HeadInFront ==
  ASSUME NEW S, NEW s \in Seq(S), s # <<>>
  PROVE  <<Head(s)>> \o Tail(s) = s
OBVIOUS

LEMMA BothEnds ==
  ASSUME NEW S, NEW t \in Seq(S), NEW s \in Seq(S), NEW m \in S
  PROVE  t \o Append(s, m) = Append(t \o s, m)
OBVIOUS

-----------------------------------------------------------------------------
(* What the other end sees.                                                *)
AbstractStep == Abstract!Connect \/ Abstract!Operate \/ Abstract!AnyServer

LEMMA UnhandledTypes ==
  ASSUME ClientTypeOK
  PROVE  InHand \in Seq(Messages) /\ Unhandled \in Seq(Messages)
<1>1. msg \in Messages /\ toClient \in Seq(Messages)
  BY DEF ClientTypeOK
<1>2. <<msg>> \in Seq(Messages) /\ <<>> \in Seq(Messages)
  BY <1>1
<1>3. InHand \in Seq(Messages)
  BY <1>2, Zenon DEF InHand
<1>. QED BY <1>1, <1>3 DEF Unhandled

LEMMA NothingInHand ==
  ASSUME ClientTypeOK, net \notin {"store", "check"} \/ len # 1
  PROVE  Unhandled = toClient
<1>1. InHand = <<>>
  BY Zenon DEF InHand
<1>2. toClient \in Seq(Messages)
  BY DEF ClientTypeOK
<1>. QED BY <1>1, <1>2, NothingInFront DEF Unhandled

LEMMA HandUnchanged ==
  ASSUME UNCHANGED <<networkVars, toClient>>
  PROVE  UNCHANGED Unhandled
BY DEF networkVars, Unhandled, InHand

LEMMA SessionUnchanged ==
  ASSUME UNCHANGED loop
  PROVE  UNCHANGED Session
BY DEF Session, Running

LEMMA LiveSession == ASSUME Running PROVE Session = "live"
BY DEF Session

(* Both use the same commands and messages.                                *)
LEMMA SameCommands ==
  /\ \A p : Abstract!CommandsAt(p) = CommandsAt(p)
  /\ Abstract!Command = Command
BY DEF Abstract!CommandsAt, Abstract!LineCommand, Abstract!KeyCommand, Abstract!Command,
       CommandsAt, LineCommand, KeyCommand, Command

LEMMA SameMessages ==
  /\ Abstract!Messages = Messages
  /\ \A m, mode : Abstract!ModeTold(m, mode) = ModeTold(m, mode)
BY DEF Abstract!Messages, Abstract!Modes, Abstract!ModeTold, Messages, Modes, ModeTold

(* The end of the process, for each of its reasons.                        *)
LEMMA ProcessEndIsEnd ==
  ASSUME ClientTypeOK, ProcessEnds, loop = "connect" \/ (Running /\ (exitFlag \/ ~linked))
  PROVE  Abstract!Operate
<1>1. Session' = "ended" /\ ~Running'
  BY DEF ProcessEnds, Session, Running
<1>2. Unhandled' = <<>>
  <2>1. InHand' = <<>> /\ toClient' = <<>>
    BY DEF ProcessEnds, InHand
  <2>. QED BY <2>1 DEF Unhandled
<1>3. Session # "ended" /\ (Session = "connect" \/ exitFlag \/ ~linked)
  BY DEF Session, Running
<1>4. Abstract!Ends
  BY <1>1, <1>2, <1>3 DEF ProcessEnds, Abstract!Ends
<1>. QED BY <1>3, <1>4 DEF Abstract!End, Abstract!Operate

LEMMA LoopRefines ==
  ASSUME ClientInv,
         Connected \/ ConnectFails \/ BreakHandler \/ StartAgain \/ LoopStep
  PROVE  AbstractStep \/ UNCHANGED Abstract!operatorVars
<1>0. ClientTypeOK
  BY DEF ClientInv
<1>1. CASE Connected
  <2>1. Session = "connect" /\ Session' = "live"
    BY <1>1 DEF Connected, Session, Running
  <2>2. Unhandled' = <<>>
    <3>1. InHand' = <<>> /\ toClient' = <<>>
      BY <1>1 DEF Connected, InHand
    <3>. QED BY <3>1 DEF Unhandled
  <2>3. Abstract!Connect
    BY <1>1, <2>1, <2>2 DEF Connected, Abstract!Connect
  <2>. QED BY <2>3 DEF AbstractStep
<1>2. CASE ConnectFails \/ MainReturns
  <2>1. Abstract!Operate
    BY <1>0, <1>2, ProcessEndIsEnd DEF ConnectFails, MainReturns
  <2>. QED BY <2>1 DEF AbstractStep
<1>3. CASE BreakHandler
  <2>1. UNCHANGED Session /\ UNCHANGED Unhandled /\ Session = "live"
    BY <1>3, HandUnchanged, SessionUnchanged, LiveSession DEF BreakHandler
  <2>2. Abstract!Leave
    BY <1>3, <2>1 DEF BreakHandler, keyboardVars, Abstract!Leave
  <2>. QED BY <2>2 DEF AbstractStep, Abstract!Operate
<1>4. CASE StartAgain
  <2>1. UNCHANGED Unhandled
    BY <1>4, HandUnchanged DEF StartAgain
  <2>2. Session = "ended" /\ Session' = "connect"
    BY <1>4 DEF StartAgain, Session, Running
  <2>3. Abstract!StartAgain
    BY <1>4, <2>1, <2>2 DEF StartAgain, keyboardVars, Abstract!StartAgain
  <2>. QED BY <2>3 DEF AbstractStep, Abstract!Operate
<1>5. CASE CloseAndExit
  <2>1. UNCHANGED Unhandled
    BY <1>5, HandUnchanged DEF CloseAndExit
  <2>2. Session = "live" /\ Session' = "live"
    BY <1>5 DEF CloseAndExit, Session, Running
  <2>3. CASE linked
    <3>1. Abstract!HangUp
      BY <1>5, <2>1, <2>2, <2>3 DEF CloseAndExit, keyboardVars, Abstract!HangUp
    <3>. QED BY <3>1 DEF AbstractStep, Abstract!Operate
  <2>4. CASE ~linked
    <3>1. linked' = linked
      BY <1>0, <1>5, <2>4 DEF CloseAndExit, ClientTypeOK
    <3>. QED BY <1>5, <2>1, <2>2, <3>1
             DEF CloseAndExit, keyboardVars, Abstract!operatorVars
  <2>. QED BY <2>3, <2>4
<1>. QED BY <1>1, <1>2, <1>3, <1>4, <1>5 DEF LoopStep

LEMMA KeyboardRefines ==
  ASSUME ClientInv, KeyboardStep \/ Typing \/ Write \/ WriteKills
  PROVE  AbstractStep \/ UNCHANGED Abstract!operatorVars
<1>0. ClientTypeOK
  BY DEF ClientInv
<1>1. Running /\ InSession
  <2>1. kb # "none"
    BY DEF KeyboardStep, Typing, Write, WriteKills, Prompt, StoreWritten, EndKeyboard,
           Nothing, Quit, Type
  <2>. QED BY <2>1 DEF ClientInv, OutOfSession
<1>2. Session = "live"
  BY <1>1, LiveSession
<1>3. ~Usable => exitFlag \/ ~linked
  BY <1>0, <1>1 DEF Usable, InSession, ClientInv, FreedOnlyAtExit, ClientTypeOK
<1>4. CASE Prompt
  <2>1. UNCHANGED Session /\ UNCHANGED Unhandled
    BY <1>4, HandUnchanged, SessionUnchanged DEF Prompt
  <2>2. Abstract!ShowPrompt
    BY <1>2, <1>4, <2>1 DEF Prompt, sharedVars, Abstract!ShowPrompt
  <2>. QED BY <2>2 DEF AbstractStep, Abstract!Operate
<1>5. CASE StoreWritten \/ Nothing \/ Quit \/ \E command \in Command : Type(command)
  <2>1. UNCHANGED Session /\ UNCHANGED Unhandled
    <3>1. UNCHANGED <<networkVars, toClient, loop>>
      BY <1>5 DEF StoreWritten, Nothing, Quit, Type
    <3>. QED BY <3>1, HandUnchanged, SessionUnchanged
  <2>. QED BY <1>5, <2>1
           DEF StoreWritten, Nothing, Quit, Type, sharedVars, Abstract!operatorVars
<1>6. CASE EndKeyboard
  <2>1. UNCHANGED Session /\ UNCHANGED Unhandled
    BY <1>6, HandUnchanged, SessionUnchanged DEF EndKeyboard
  <2>2. exitFlag' = TRUE
    <3>1. kb = "free" => exitFlag
      BY <1>1 DEF InSession
    <3>2. kb = "stop" \/ exitFlag
      BY <1>6, <3>1 DEF EndKeyboard
    <3>. QED BY <1>0, <1>6, <3>2 DEF EndKeyboard, StopsFirst, ClientTypeOK
  <2>3. Abstract!Leave
    BY <1>2, <1>6, <2>1, <2>2 DEF EndKeyboard, Abstract!Leave
  <2>. QED BY <2>3 DEF AbstractStep, Abstract!Operate
<1>7. CASE Write
  <2>1. UNCHANGED Session /\ UNCHANGED Unhandled
    BY <1>7, HandUnchanged, SessionUnchanged DEF Write
  <2>2. cmd \in CommandsAt(prompt) /\ commands < MaxCommands
    BY <1>7 DEF Write, ClientInv
  <2>3. CASE Usable
    <3>1. cmd \in Command
      BY <1>0, <2>2, CommandsOfAPrompt DEF ClientTypeOK
    <3>2. cmd \in Abstract!CommandsAt(prompt) /\ cmd \in Abstract!Command
      BY <2>2, <3>1, SameCommands
    <3>3. Abstract!SendCommand(cmd)
      BY <1>2, <1>7, <2>1, <2>2, <2>3, <3>2
         DEF Write, Usable, sharedVars, Abstract!SendCommand
    <3>. QED BY <3>2, <3>3 DEF AbstractStep, Abstract!Operate
  <2>4. CASE ~Usable
    <3>1. Abstract!LoseCommand
      BY <1>2, <1>3, <1>7, <2>1, <2>2, <2>4 DEF Write, sharedVars, Abstract!LoseCommand
    <3>. QED BY <3>1 DEF AbstractStep, Abstract!Operate
  <2>. QED BY <2>3, <2>4
<1>8. CASE WriteKills
  <2>1. Abstract!Operate
    BY <1>0, <1>1, <1>3, <1>8, ProcessEndIsEnd DEF WriteKills
  <2>. QED BY <2>1 DEF AbstractStep
<1>. QED BY <1>4, <1>5, <1>6, <1>7, <1>8 DEF KeyboardStep, Typing

LEMMA NetworkRefines ==
  ASSUME ClientInv, NetworkStep
  PROVE  AbstractStep \/ UNCHANGED Abstract!operatorVars
<1>0. ClientTypeOK /\ msg \in Messages /\ toClient \in Seq(Messages)
  BY DEF ClientInv, ClientTypeOK
<1>1. Running /\ InSession
  <2>1. net # "none"
    BY DEF NetworkStep, TestActive, Read, StoreRead, HandleNetwork, EndNetwork
  <2>. QED BY <2>1 DEF ClientInv, OutOfSession
<1>2. Session = "live" /\ UNCHANGED Session
  <2>1. UNCHANGED loop
    BY DEF NetworkStep, TestActive, Read, StoreRead, HandleNetwork, EndNetwork
  <2>. QED BY <1>1, <2>1, LiveSession, SessionUnchanged
<1>3. ~Usable => exitFlag \/ ~linked
  BY <1>0, <1>1 DEF Usable, InSession, ClientInv, FreedOnlyAtExit, ClientTypeOK
<1>4. CASE TestActive \/ StoreRead
  <2>1. UNCHANGED Unhandled
    BY <1>4 DEF TestActive, StoreRead, Unhandled, InHand
  <2>. QED BY <1>2, <1>4, <2>1
           DEF TestActive, StoreRead, sharedVars, keyboardVars, Abstract!operatorVars
<1>5. CASE Read
  <2>1. Unhandled = toClient
    BY <1>0, <1>5, NothingInHand DEF Read
  <2>2. Unhandled' = toClient
    <3>1. CASE toClient # <<>> /\ msg' = Head(toClient) /\ len' = 1 /\ toClient' = Tail(toClient)
      <4>1. InHand' = <<Head(toClient)>>
        BY <1>5, <3>1 DEF Read, InHand
      <4>2. <<Head(toClient)>> \o Tail(toClient) = toClient
        BY <1>0, <3>1, HeadInFront
      <4>. QED BY <3>1, <4>1, <4>2 DEF Unhandled
    <3>2. CASE len' \in {0, -1} /\ toClient' = toClient
      <4>1. InHand' = <<>>
        BY <3>2 DEF InHand
      <4>2. <<>> \o toClient = toClient
        BY <1>0, NothingInFront
      <4>. QED BY <3>2, <4>1, <4>2 DEF Unhandled
    <3>. QED BY <1>5, <3>1, <3>2 DEF Read
  <2>. QED BY <1>2, <1>5, <2>1, <2>2
           DEF Read, sharedVars, keyboardVars, Abstract!operatorVars
<1>6. CASE HandleNetwork
  <2>1. Unhandled' = toClient
    <3>1. InHand' = <<>> /\ toClient' = toClient
      BY <1>6 DEF HandleNetwork, InHand
    <3>2. <<>> \o toClient = toClient
      BY <1>0, NothingInFront
    <3>. QED BY <3>1, <3>2 DEF Unhandled
  <2>2. manualMode' \in BOOLEAN
    BY <1>0, <1>6 DEF HandleNetwork, ModeTold, ClientTypeOK
  <2>3. CASE len = 1
    <3>1. Unhandled # <<>> /\ Head(Unhandled) = msg /\ Tail(Unhandled) = toClient
      <4>1. Unhandled = <<msg>> \o toClient
        BY <1>6, <2>3 DEF HandleNetwork, Unhandled, InHand
      <4>. QED BY <1>0, <4>1, OneInFront
    <3>2. CASE networkActive
      <4>1. manualMode' = Abstract!ModeTold(Head(Unhandled), manualMode)
        BY <1>6, <3>1, <3>2, SameMessages DEF HandleNetwork
      <4>2. Abstract!TakeMessage
        BY <1>2, <1>6, <2>1, <3>1, <4>1
           DEF HandleNetwork, keyboardVars, Abstract!TakeMessage
      <4>. QED BY <4>2 DEF AbstractStep, Abstract!Operate
    <3>3. CASE ~networkActive
      <4>1. ~Usable
        BY <1>1, <3>3 DEF ClientInv, ActiveWhileUsable
      <4>2. Abstract!MixUpMessages
        BY <1>2, <1>3, <1>6, <2>1, <2>2, <3>1, <4>1
           DEF HandleNetwork, keyboardVars, Abstract!MixUpMessages
      <4>. QED BY <4>2 DEF AbstractStep, Abstract!Operate
    <3>. QED BY <3>2, <3>3
  <2>4. CASE len # 1
    <3>1. Unhandled = toClient
      BY <1>0, <2>4, NothingInHand
    <3>2. Failed(len)
      BY <1>0, <2>4 DEF Failed, ClientTypeOK
    <3>3. ~Usable
      BY <1>1, <1>6, <3>2 DEF HandleNetwork, InSession
    <3>4. Abstract!MixUpMessages
      BY <1>2, <1>3, <1>6, <2>1, <2>2, <3>1, <3>3
         DEF HandleNetwork, keyboardVars, Abstract!MixUpMessages
    <3>. QED BY <3>4 DEF AbstractStep, Abstract!Operate
  <2>. QED BY <2>3, <2>4
<1>7. CASE EndNetwork
  <2>1. UNCHANGED Unhandled
    BY <1>7 DEF EndNetwork, After, Unhandled, InHand
  <2>2. exitFlag' = TRUE
    <3>1. net = "free" => exitFlag
      BY <1>1 DEF InSession
    <3>2. net = "stop" \/ exitFlag
      BY <1>7, <3>1 DEF EndNetwork
    <3>. QED BY <1>0, <1>7, <3>2 DEF EndNetwork, StopsFirst, ClientTypeOK
  <2>3. Abstract!Leave
    BY <1>2, <1>7, <2>1, <2>2 DEF EndNetwork, keyboardVars, Abstract!Leave
  <2>. QED BY <2>3 DEF AbstractStep, Abstract!Operate
<1>. QED BY <1>4, <1>5, <1>6, <1>7 DEF NetworkStep

LEMMA ServerRefines ==
  ASSUME ClientInv, ServerStep
  PROVE  AbstractStep
<1>1. toClient \in Seq(Messages) /\ InHand \in Seq(Messages)
  BY UnhandledTypes DEF ClientInv, ClientTypeOK
<1>2. UNCHANGED <<Session, InHand, exitFlag, manualMode, prompt, commands, sessions>>
  BY DEF ServerStep, ServerTakes, ServerGoes, ServerSends, serverless, sharedVars,
         keyboardVars, networkVars, Session, Running, InHand
<1>3. CASE ServerTakes
  <2>1. UNCHANGED Unhandled
    BY <1>2, <1>3 DEF ServerTakes, Unhandled
  <2>2. Abstract!ServerTakes
    BY <1>2, <1>3, <2>1 DEF ServerTakes, Abstract!ServerTakes
  <2>. QED BY <2>2 DEF AbstractStep, Abstract!AnyServer
<1>4. CASE ServerGoes
  <2>1. UNCHANGED Unhandled
    BY <1>2, <1>4 DEF ServerGoes, Unhandled
  <2>2. Abstract!ServerGoes
    BY <1>2, <1>4, <2>1 DEF ServerGoes, Abstract!ServerGoes
  <2>. QED BY <2>2 DEF AbstractStep, Abstract!AnyServer
<1>5. ASSUME NEW m \in Messages, ServerSends(m) PROVE AbstractStep
  <2>1. Unhandled' = Append(Unhandled, m)
    <3>1. Unhandled' = InHand \o Append(toClient, m)
      BY <1>2, <1>5 DEF ServerSends, Unhandled
    <3>2. InHand \o Append(toClient, m) = Append(InHand \o toClient, m)
      BY <1>1, BothEnds
    <3>. QED BY <3>1, <3>2 DEF Unhandled
  <2>2. Abstract!ServerSends(m)
    BY <1>2, <1>5, <2>1 DEF ServerSends, Abstract!ServerSends
  <2>3. m \in Abstract!Messages
    BY SameMessages
  <2>. QED BY <2>2, <2>3 DEF AbstractStep, Abstract!AnyServer
<1>. QED BY <1>3, <1>4, <1>5 DEF ServerStep

LEMMA InitRefines == ClientInit => Abstract!OperatorInit
<1>. SUFFICES ASSUME ClientInit PROVE Abstract!OperatorInit
  OBVIOUS
<1>1. Session = "connect"
  BY DEF ClientInit, Session, Running
<1>2. Unhandled = <<>>
  <2>1. InHand = <<>> /\ toClient = <<>>
    BY DEF ClientInit, InHand
  <2>. QED BY <2>1 DEF Unhandled
<1>. QED BY <1>1, <1>2 DEF ClientInit, Abstract!OperatorInit

(* The threads, however they interleave, do what Operator promises.        *)
THEOREM ClientImplementsOperator == ClientSpec => ImplementsOperator
<1>1. ClientInv /\ [ClientNext]_clientVars
        => [Abstract!Connect \/ Abstract!Operate \/ Abstract!AnyServer]_Abstract!operatorVars
  <2>. SUFFICES ASSUME ClientInv, [ClientNext]_clientVars
                PROVE  AbstractStep \/ UNCHANGED Abstract!operatorVars
    BY DEF AbstractStep
  <2>1. CASE UNCHANGED clientVars
    <3>1. UNCHANGED Unhandled /\ UNCHANGED Session
      BY <2>1 DEF clientVars, networkVars, Unhandled, InHand, Session, Running
    <3>. QED BY <2>1, <3>1
             DEF clientVars, sharedVars, keyboardVars, Abstract!operatorVars
  <2>. QED BY <2>1, LoopRefines, KeyboardRefines, NetworkRefines, ServerRefines
           DEF ClientNext
<1>. QED BY InitRefines, ClientSafe, <1>1, PTL
         DEF ClientSpec, ImplementsOperator, Abstract!OperatorSpec

=============================================================================
