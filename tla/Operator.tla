------------------------------- MODULE Operator -------------------------------
(***************************************************************************)
(* What the operator's program promises to whoever is at the other end of  *)
(* its connection (Client is the program itself, thread by thread): it     *)
(* sends commands that suit the prompt it shows, shows the prompt of some  *)
(* mode it has been in, and takes the messages one by one in their order.  *)
(***************************************************************************)
EXTENDS Commands

VARIABLES
  session,      \* "connect", "live" or "ended"
  leaving,      \* has the program been told to end?
  manualMode,
  prompt,       \* what it waits for: a "line" or a "key"
  toServer, toClient,       \* what is under way on the connection
  linked,       \* is the connection open at both ends?
  commands, sessions

operatorVars == <<session, leaving, manualMode, prompt, toServer, toClient, linked,
                  commands, sessions>>

OperatorTypeOK ==
  /\ session \in {"connect", "live", "ended"}
  /\ leaving \in BOOLEAN /\ manualMode \in BOOLEAN
  /\ prompt \in {"line", "key"}
  /\ toServer \in Seq(Command) /\ toClient \in Seq(Messages)
  /\ linked \in BOOLEAN
  /\ commands \in 0 .. MaxCommands /\ sessions \in 1 .. MaxSessions

OperatorInit ==
  /\ session = "connect" /\ leaving = FALSE
  /\ manualMode = TRUE /\ prompt = "line"
  /\ toServer = <<>> /\ toClient = <<>> /\ linked = FALSE
  /\ commands = 0 /\ sessions = 1

-----------------------------------------------------------------------------
Connect ==
  /\ session = "connect"
  /\ session' = "live" /\ linked' = TRUE
  /\ toServer' = <<>> /\ toClient' = <<>>
  /\ UNCHANGED <<leaving, manualMode, prompt, commands, sessions>>

(* The mode is looked at before the program blocks in an input of its kind.*)
ShowPrompt ==
  /\ session = "live"
  /\ prompt' = IF manualMode THEN "line" ELSE "key"
  /\ UNCHANGED <<session, leaving, manualMode, toServer, toClient, linked, commands,
                 sessions>>

SendCommand(c) ==
  /\ session = "live" /\ linked
  /\ c \in CommandsAt(prompt)
  /\ commands < MaxCommands
  /\ commands' = commands + 1
  /\ toServer' = Append(toServer, c)
  /\ UNCHANGED <<session, leaving, manualMode, prompt, toClient, linked, sessions>>

(* A command that has nowhere to go.                                       *)
LoseCommand ==
  /\ session = "live" /\ (~linked \/ leaving)
  /\ commands < MaxCommands
  /\ commands' = commands + 1
  /\ UNCHANGED <<session, leaving, manualMode, prompt, toServer, toClient, linked,
                 sessions>>

TakeMessage ==
  /\ session = "live" /\ toClient # <<>>
  /\ toClient' = Tail(toClient)
  /\ manualMode' = ModeTold(Head(toClient), manualMode)
  /\ UNCHANGED <<session, leaving, prompt, toServer, linked, commands, sessions>>

(* Once the connection is lost the program may drop a message, or handle   *)
(* an earlier one again.                                                   *)
MixUpMessages ==
  /\ session = "live" /\ (~linked \/ leaving)
  /\ manualMode' \in BOOLEAN
  /\ toClient' \in {toClient} \cup (IF toClient = <<>> THEN {} ELSE {Tail(toClient)})
  /\ UNCHANGED <<session, leaving, prompt, toServer, linked, commands, sessions>>

(* Told by 'q', by a signal, or by the loss of the connection.             *)
Leave ==
  /\ session = "live" /\ leaving' = TRUE
  /\ UNCHANGED <<session, manualMode, prompt, toServer, toClient, linked, commands,
                 sessions>>

(* The socket is closed before the process ends.                           *)
HangUp ==
  /\ session = "live" /\ leaving /\ linked
  /\ linked' = FALSE
  /\ UNCHANGED <<session, leaving, manualMode, prompt, toServer, toClient, commands,
                 sessions>>

(* The process ends: what it has not read is lost, and what it has written *)
(* may be.  SIGPIPE ends it without warning.                               *)
Ends ==
  /\ session # "ended"
  /\ session' = "ended" /\ leaving' = FALSE
  /\ manualMode' = TRUE /\ prompt' = "line"
  /\ toServer' \in {toServer, <<>>} /\ toClient' = <<>> /\ linked' = FALSE
  /\ UNCHANGED <<commands, sessions>>

End == Ends /\ (session = "connect" \/ leaving \/ ~linked)

StartAgain ==
  /\ session = "ended" /\ sessions < MaxSessions
  /\ session' = "connect"
  /\ sessions' = sessions + 1
  /\ UNCHANGED <<leaving, manualMode, prompt, toServer, toClient, linked, commands>>

Operate ==
  \/ ShowPrompt \/ LoseCommand \/ TakeMessage \/ MixUpMessages \/ Leave \/ HangUp
  \/ End \/ StartAgain \/ \E c \in Command : SendCommand(c)

-----------------------------------------------------------------------------
(* Any server: it takes commands, sends messages, and may go.              *)
ServerTakes ==
  /\ toServer # <<>>
  /\ toServer' = Tail(toServer)
  /\ UNCHANGED <<session, leaving, manualMode, prompt, toClient, linked, commands,
                 sessions>>

ServerSends(m) ==
  /\ linked
  /\ toClient' = Append(toClient, m)
  /\ UNCHANGED <<session, leaving, manualMode, prompt, toServer, linked, commands,
                 sessions>>

ServerGoes ==
  /\ linked
  /\ linked' = FALSE /\ toServer' = <<>>
  /\ UNCHANGED <<session, leaving, manualMode, prompt, toClient, commands, sessions>>

AnyServer == ServerTakes \/ ServerGoes \/ \E m \in Messages : ServerSends(m)

OperatorSpec ==
  OperatorInit /\ [][Connect \/ Operate \/ AnyServer]_operatorVars

=============================================================================
