# Alex: specifications

Alex is a small robot driven over a network.  The operator types commands into
a client on a laptop; a TLS connection carries them to a server on a Raspberry
Pi; a serial line carries them to an Arduino, which runs the motors, counts
wheel ticks and reads sensors.  The answers come back the same way.

    laptop                     Raspberry Pi                  Arduino
    tls-alex-client  <-TLS->  tls-alex-server  <-serial->  Alex-a.ino
    (keyboard, network        (listener, a worker per       (main loop, interrupts,
     threads)                  client, UART thread)          motors, sensors)

Throughout, "source" is the repository beside this directory; file names
without a path are in `W9S2_TLS_Server`, `W9S2_TLS_Client` or `Working/Alex-a`.

## Inventory

### Packet assembly and deserialisation (`serialize.cpp`, on both ends)

* State: `_privateBuffer` and the static variables of `assemble()`: `counter`,
  `leftoverFlag`, `leftoverCount`, `leftoverBuffer`.
* Operations: `serialize()` (no state), `assemble()`, `deserialize()`.
* Called by `readPacket()` on the Arduino and `uartReceiveThread()` on the Pi,
  with whatever chunk of bytes was there to be read.
* Hard: packets cut at any byte; more than one in a read; bytes lost on the line.
* Correct when: every packet is handed over whole, once, in order, by the call
  that completes it; nothing is stored outside the buffers; a line that loses
  nothing gives no errors; after a loss nothing is executed twice.

### Movement: main loop, commands, interrupts (`Alex-a.ino`, `robotlib.ino`)

* State: `dir`, `manualMode`, the targets `deltaDist`, `newDist`, `deltaTicks`,
  `targetTicks`; eight tick counters and two distances, written by interrupts.
* Operations: one packet per pass of `loop()`, `handleCommand()`, the two checks
  at the end of the pass; the interrupts `leftISR()` and `rightISR()`.
* Two modes: in manual mode a movement ends when a counter reaches a target; in
  teleop mode after a fixed delay.
* Hard: interrupts between any two instructions and inside the reads of counters
  wider than a byte; targets and `dir` that survive a stop; commands that change
  the mode or the counters during a movement; a poll as the only thing that
  stops the robot.
* Correct when: a moving robot always has the check armed that will stop it; it
  stops at the first check after its target, and never before; distances agree
  with ticks; every bounded movement ends.

### TLS server (`tls-alex-server.cpp`, `make_tls_server.cpp`)

* State: `networkActive` and `tls_conn`, shared by all threads without a lock;
  the SSL objects; the uninitialised `c` of `sendNetworkData()`.
* Threads: `main()`, the listener, a worker per client, `uartReceiveThread()`.
* Hard: several clients at a time; every test of a shared variable may be stale
  when it is acted upon; SSL objects freed by one thread and used by another; no
  way back once `networkActive` is 0.
* Correct when: answers go to a live connection, connections are freed, the end
  of a session is handled the same way by all threads.

### UART driver (`uart.cpp`, `uart.h`, `cbuffer.h`)

* State: two ring buffers of 512 bytes, the interrupt enable bit, the data register.
* Operations: `write()`, `read()`, `available()`, the two interrupts.
* Hard: main loop and interrupts on one buffer, 16-bit indices on an 8-bit
  processor, the direct path of `write()`, buffers that fill up silently.
* Correct when: bytes go out in order and none is sent that was not written;
  what was put in is sent without another `write()` having to come.

### TLS client (`tls-alex-client.cpp`, `make_tls_client.cpp`)

* State: `networkActive`, `manualMode`, `_exitFlag`, the SSL object.
* Threads: keyboard, network, client loop, `main()`.
* Hard: `manualMode` changes only when the robot's answer arrives, while the
  keyboard thread waits for input in the old mode; both threads free one object.
* Correct when: both sides agree on the mode once all messages have arrived, the
  program in the mode it goes by, not in the prompt that already waits; messages take effect once and in order; no command is dropped while the
  connection works; the connection is not freed before the program is told to
  end; the program ends when the server does.

### The whole

* State: what is under way on the two lines, the greeting, two modes that should
  be one, and which of the programs have been started how often.
* Operations: a command travels down and its one to three answers up; opening the
  serial port resets the Arduino; each of the three can be restarted alone.
* Hard: the mode is kept at both ends and told only in answers; a client that
  comes while the server still waits for the last one; a robot that does not
  read while it plays a tune; a greeting that is sent once.
* Correct when: client and robot agree on the mode; what the operator said last
  decides whether the robot drives; the greeting and a stop are obeyed; an operator
  who waits for answers loses nothing.

### Ultrasonic sensor (`ultrasound.ino`)

* State: `edge`, `pulse`, the timer, the interrupt mask and flag.
* Operations: `getDistance()`, the interrupt `INT0`.
* Hard: an echo that outlasts the call; an interrupt that counts edges instead of
  looking at the pin; `pulse` read while the interrupt may write it.
* Correct when: a reading measures the echo of its own trigger.

### Colour sensor (`colorsensor.ino`)

* State: none between calls; the calibration lines are constants.
* Operations: `getColor()`: averages of readings, the nearest of three lines.
* Hard: a minimum whose "not set yet" is a value a distance may have.
* Correct when: a paper near its calibration line is recognised.

### The rest

`buzzer.ino` plays tunes with `delay()`; `serial.cpp` opens, reads and writes a
terminal; `AlexLink` has what these do to the others.  `tls_common_lib.cpp` and
`tls_pthread.cpp` set OpenSSL up.  `Alex-sb`, the sketches for single sensors,
the TCS3200 library and the TLS echo programs are earlier versions, experiments
and third-party code; the repository's README names `Working/Alex-a` as the
firmware.

## Modules

| module | models | with |
|---|---|---|
| `PacketStream` | what the receive path promises | abstract |
| `Assembler` | `assemble()` | refines `PacketStream` |
| `Framing` | `deserialize()` on a line that loses bytes | extends `Assembler` |
| `Drive` | movement: `loop()`, `handleCommand()`, interrupts, motors | |
| `Server` | listener, workers, UART thread, `main()` of the server | |
| `Uart` | `uart.cpp` and `cbuffer.h`: main loop, interrupts, transmitter | |
| `Commands` | the commands and messages that client and server exchange | |
| `Operator` | what the client promises to whoever is at the other end | abstract, extends `Commands` |
| `Client` | the client: keyboard thread, network thread, client loop, `main()` | refines `Operator` |
| `AlexLink` | client, server, serial line and firmware together | extends `Operator` |
| `Colour` | `getColor()`, as operators | |
| `Ultrasonic` | `getDistance()`, the interrupt, the sensor | |
| `AssemblerProofs`, `FramingProofs`, `DriveProofs`, `ServerProofs`, `UartProofs`, `ClientProofs`, `LinkProofs`, `SensorProofs` | theorems | extend the modules above |
| `MCAssembler`, `MCFraming`, `MCDrive`, `MCServer`, `MCUart`, `MCClient`, `MCAlexLink` | constants of the runs | `MCAlexLink` also extends `Colour` |

`Client` is the program, thread by thread; `Operator` is what it looks like from
outside, and `AlexLink` uses `Operator` in its place.  `Server` has the threads of
the server in detail; in `AlexLink` a command or a packet is handled in one step.
`Drive` has movements by distance; in `AlexLink` there is only the movement
without a limit and the pulse of teleop mode.

Operators whose comment says "wrong on purpose" (`BytesLeftUnsplit`,
`StopWithoutSpeed`, ...) are used by no specification.  Each is what a plausible
slip would make of the definition after it; put in its place it must break
the property `PROJECT.json` pairs it with.

### Assembler, Framing

`assemble()` never looks at the value of a byte.  `Assembler` therefore names a
byte by its position in the received stream, which makes "which byte went
where" visible.  One action `Assemble(len)` is one call; its parts are operators
named after the variables of the code (`CopyCount`, `BytesLeft`, `Kept` for
`bytesToCopy`).  `overrun` records an index beyond `leftoverBuffer`, after which
the program is undefined and the model stops.

`Framing` adds the line.  `origin` gives each received byte its number at the
sender, who writes whole packets back to back: byte `n` belongs to packet
`n \div PacketSize` at offset `n % PacketSize`.  A lost byte makes the two
numberings differ.  `deserialize()` is judged by offsets: the magic number
matches when its bytes sit at their place (it does not occur inside a payload);
a `dataSize` read from other bytes makes the checksum loop and the `memcpy()` run
over memory (`FAULT`); a payload spliced from two packets may or may not pass
the one-byte checksum.

### Drive

One action per case of `handleCommand()` that changes something, per check of
`loop()`, and for the interrupts.  `pc` says where the main loop is; ticks come at
any value of it.  Stores the interrupts can fall between are separate actions:
`StartStraight` and `Aim` (`dir` is set before the target is computed),
`ClearTicks` and `ClearDists` (`clearCounters()`).  A read of a counter that an
interrupt hits in the middle returns `Mixed(old, new)`: the low byte from before,
the rest from after.

Of the eight tick counters `count` keeps the four that end movements, by the
direction they end.  `dist` keeps both distances.  `Dist(n)` and
`ComputeDeltaTicks(a)` are the code's formulas with the constants of
`Alex-a.ino` multiplied out (5.3407 cm per tick, 0.048623 ticks per degree), and
truncate as the conversions do.  Speed is left out.  The commands that only
answer are `Idle`, as are bad packets.

`ticks`, `amount` and `undisturbed` are history variables: the ticks since the
movement began, what it was asked for, and whether it is still the same
movement on the same counters.  The program does not have them and no guard
but the tick bound reads them.

### Server

One action per load or store of `networkActive` and `tls_conn`.  A worker goes
`test` -> `read` -> `store` -> `route` -> `forward` -> `test`, and from `test`
through `reset` and `free` when `networkActive` is 0.  The UART thread goes
`receive` -> `active` -> `conn` -> `load` -> `write` -> `store`.  `tls_conn` is
not volatile, so `LoadConn` may use the value that was tested or load it again.
`c` starts each call with any value.  A write to a client that has gone may
succeed, fail or kill the process; one through `NULL` or a freed object may do
anything, of which the model keeps the crash and an arbitrary result.
`ssl[x]` follows the object of client `x`, `sent[x]` counts its commands that wait
to be read, and `answers` the packets the Arduino has yet to send: one for the
greeting and up to two a command.  Nothing bounds how many commands a client
sends in all, only how many wait.  After a client has gone its worker may still read
what was sent before, or find the end at once.  A client that vanishes without a
word is one that stays open and sends nothing: the code has no timeout, and its
worker stays in its read.

### Uart

One action per access of the main loop to something the interrupts use: the
tests and stores of `write()`, of `CBuffer::write()` and `CBuffer::read()`, in the
order of the statements.  `pc` says which comes next.  The interrupts may come at
any value of `pc`.  An index has 16 bits and the processor moves 8 at a time, so
an access may also be `torn`: the interrupt comes between the two halves.  A read
then gives `Mixed(old, new)`, the lower half from before and the upper half from
after; an interrupt inside a store sees either mixture.  `Size` is twice
`ByteBase`, as 512 is twice 256.

The main loop does not go on while the transmit interrupt is pending.  The
exception is `ReadFlag`: the transmitter may become ready in the very instruction
that reads its flag.  That the processor executes one instruction between two
interrupts is left out.

A byte is named by its number, `put` on the way out and `kept` on the way in, so
that order and loss are visible: `sent` and `got` count the other ends.  `early`
marks a byte the interrupt took from a cell that was claimed and not stored yet.
`exact` becomes false when a byte is refused, dropped, ignored by the transmitter
or made up by `read()`.

### Commands, Operator, Client

A command is what it does and how it was typed, as a line at the prompt of manual
mode or as a key in teleop mode; distances and speeds are left out, since they
change nothing in the client.  Of the messages only the two that tell the mode
change anything.

`Client` has one action per access to a variable that threads share:
`networkActive`, `manualMode`, `_exitFlag` and the SSL object.  The keyboard thread
goes `prompt` -> `input` -> `write` -> `store` -> `prompt`, the network thread
`test` -> `read` -> `store` -> `check` -> `test`; both end through `stop` and `free`.
`EXIT_THREAD` and `_closeAndExit()` all free the same object.  `ConnectFails` ends
the program: the path that frees the object of a server whose certificate is refused
and yet starts the threads (`make_tls_client.cpp:129-134`) is never taken, since with
`SSL_VERIFY_PEER` the handshake has failed before (`tls_common_lib.cpp:64`).  `main()` ends the
process, and all threads with it, at any step after `_exitFlag` is set.  A `read`
or `write` through an object that is freed, or to a server that has gone, may
fail, seem to work, or (a write) kill the process.

`Operator` has no threads: it shows prompts, sends commands of the kind the
prompt asks for, and takes messages one by one.  The refinement mapping counts a
message as taken when it is handled (`Unhandled` is the message in hand and those
behind it).  `MixUpMessages` is what the abstract client may do once it has lost
the connection: the buffer is handled again if the keyboard thread has set
`networkActive` in between.

### AlexLink

Queues of packets connect the parts: `toServer` and `toClient` on the TLS
connection, `down` and `rx` to the firmware (on the line, and arrived but not read),
`tx` from it.  `robot` is the firmware: `booting`, waiting for `hello`, in its `loop`,
`busy` with a tune, a reading or a pulse, out of step with the packets (`garbled`),
or past the end of its buffer (`overrun`, after which anything may follow; the
model keeps it there until a reset).  `motor` is still, in a `pulse`, or in a
`drive` without limit.

A queue holds packets rather than bytes: `Assembler` and `Framing` say what is made
of bytes, and `FramingNeverRecovers` is why a packet cut in the middle (`Cut`) sets
`upAligned` to FALSE for good.  A ring of 512 bytes takes three packets of 140;
`Send` refuses the rest, and may or may not find that part of the first has left.
`Receive` lets a loop that is not busy read each packet before the next is there;
`ReadAll` is what a busy loop finds at the end: more than a packet, which
`readSerial()` writes past its buffer of one.

`networkActive` of the server is cleared in one thread and tested in another.  A
worker does nothing between its last command and that test, so whoever clears the
flag decides there and then whether it was in time (`TestsActive`): a worker of a
live client may end because another one's read failed.

Coarser than the code: the commands of an earlier client are taken before a new
one is accepted (`Accept`); what a client does between the loss of its connection
and its end is left out, as nobody sees it; a client told to end does so at once.

`aware`, `word`, `hasty` and `rash` are history variables.  `aware`: has the client of
the connection been told the mode, or found the robot as it was after its reset?
`word`: the last command of the connection that steers, a drive, a nudge or a stop.
`hasty`: was a command ever sent while something was still under way?  `rash`: was
one that was not a stop, or a stop with another stop still ahead of it?  No guard
reads them.

### Ultrasonic

One action per access of `getDistance()` to the interrupt mask, to `pulse` (a byte
at a time) and to the trigger; the interrupt runs before the loop's next step.
The sensor answers a trigger or does not, with an echo of any length.  A width is
named by the echo it was measured from, and by whether the timer was stopped at
its end.  Nothing bounds the number of calls or of echoes, so this module has
proofs and no run.

### Colour

`getColor()` keeps nothing between calls: it is a function, written with integers.
Coordinates are twentieths of a microsecond, which is exact for averages of five
and makes the 100 steps of a line nearly so; squared distances replace their
square roots, which have the same order.  `ClosestColor` and `ColorDist` are the
code's, with `StartsOver` for its `min_dist < 1`; `LeastDist` is the definition
they are compared with.  `SensorProofs` has the results for any averages.

## Runs

| run | question | bounds | distinct states |
|---|---|---|---|
| `assembler` | does `assemble()` implement `PacketStream`? | packets of 7, chunks of 1 to 7, 45 bytes | 7,539 |
| `framing` | what do losses do? | packets of 5 (magic, length, payload and checksum, padding), 15 bytes received, up to 5 lost | 770,890 |
| `drive` | does Alex stop when it should, and only then? | 3 commands, 3 ticks between movements, distances 0, 5, 10 cm, angles 0, 15, 45, bytes of 8 values | 532,150 |
| `server` | are connections and the route for answers handled safely? | 2 clients that send for ever, 1 command of each waiting, 2 answers under way | 576,820 |
| `uart` | do bytes pass in order, and when is one lost? | rings of 6 (indices of two 3-valued halves), 7 bytes each way | 337,862 |
| `client` | do the client's threads implement `Operator`, and does the program end? | 2 commands, 2 starts, 2 messages under way, one line (`toggle`) and one key (`nudge`) | 694,502 |
| `link` | do the parts agree, and does what matters arrive? | 4 commands of every kind, 2 clients, rings of 3 packets, 3 starts and resets altogether, 6 of all these | 1,462,331 |
| `every_turn_stops`, `moves_the_distance_asked` | see Findings | as `drive` | |
| `one_connection`, `unwritten_answer` | see Findings | as `server` | |
| `straight_only_when_empty` | see Findings | as `uart` | |

Why the bounds are enough.

* `assembler`: `assemble()` depends on the stream only through `counter` and
  `leftoverCount`, both below 7; 45 bytes reach every pair of them, several times.
  The proofs cover all sizes.
* `framing`: 5 lost bytes are a whole packet, so both kinds of loss occur, a
  multiple of the packet size and not; three packets allow a splice, the frame
  after it, and one more.
* `drive`: 0 is the unlimited movement, 15 degrees less than a tick, 5 cm one tick
  and 10 cm two; three commands allow a movement, something that interferes with
  it and the movement after that.  Counters reach 9, past the carry at 8.  Distances
  carry sooner.
* `server`: the variables are shared by two threads at a time; two workers and
  the UART thread give every pair.  The commands never end.  One that waits keeps
  a worker busy as well as two would, since a worker reads the next only when it is
  done; two answers are what one command may cause, or the greeting and one more.
* `uart`: 7 bytes take an index once around a ring of 6, through the carry between
  its halves and the wrap at its end.  The bound of `ExactBelowHalf` is tight: with
  half a ring it fails.  It also holds for rings of 8, with up to 10 bytes one way.
* `client`: commands differ only by prompt, so one of each kind is enough; two let
  the second be typed while the first is written or after the mode has changed.
  The second start shows that nothing of the first is left.  Two messages let one
  be in hand while another waits.  `ClientProofs` covers all other values.
* `link`: four commands allow a drive, a tune, one more command and a stop behind
  it, which is what overruns the robot; without the exception for `rash` operators
  `StopIsObeyed` fails there.  The three events are a start of the server, one of a
  client, and one more of either or a reset of the firmware.  With that third event
  there are three commands: a toggle, a command in the new mode, and one that finds
  the robot busy or the client gone.
* The colour operators are evaluated along with `link`, once: on every fifth
  point of each line, and on points off it by 12 microseconds in each channel,
  21 altogether.  With 20 in each, 35 altogether, it fails: the lines of white and
  green come as close as 66.5.  `SensorProofs` covers all other points.

`MaxBytes`, `MaxLost`, `MaxCommands`, `MaxTicks`, `MaxSent`, `MaxAnswers`, `MaxOut`,
`MaxIn`, `MaxSessions`, `MaxMessages`, `MaxEvents` and `MaxInputs` are bounds on the model, not of the program.  `MaxRead` is at most the packet size, see Proofs.  Runs of
`Assembler`, `Framing`, `Server`, `Client` and `AlexLink` do not check for deadlock:
the first two end with the stream, the server when it has crashed or has no
clients left, the last two when the programs have ended and are not started again.  `drive`
does check it, as does `uart`: the main loop never halts.

### Properties

`assembler`
: `BufferedBytesInOrder`: the buffers hold exactly what was received and not
  handed over, in order.  `TimelyDelivery`: no complete packet waits for the next
  read.  `NoOverrun`.  `ImplementsPacketStream`: the refinement, with `base` mapped
  to `received - counter - leftoverCount`.

`framing`
: `LosslessLineIsErrorFree`; `AcceptedInOrder`: whatever is lost, no packet is
  accepted twice or after a later one; `FramingNeverRecovers`: a frame that
  starts after all losses is good exactly when the number of lost bytes is a
  multiple of the packet size. One lost byte makes every later packet
  `PACKET_BAD`; there is no resynchronisation.

`drive`
: `TerminatorArmed`: between commands, in manual mode, a moving robot has the check
  for its direction armed, after any history of commands, modes and stops;
  `DistanceNeverAhead`: a tick inside `clearCounters()` can leave the distance
  behind the ticks, never ahead; `StopsOnTime`: the first check after the last
  tick stops the motors; `NeverStopsEarly`: left-over targets and left-over counts
  never stop a movement before its end (both of movements whose
  reads were whole so far: a torn one may end it anywhere, and counts as a
  disturbance); `BoundedMoveStops` (liveness).

`server`
: `RouteNeverDangles`: between `tls_conn = conn` and the end of that worker, no
  sequence of other workers leaves `tls_conn` at a freed object (it holds because a
  worker frees its connection only after it has reset `tls_conn`, and only its own
  worker can set it there again); `DeadStaysDead`: once `networkActive` is 0 and no
  thread is about to set it, it stays 0, and new clients are dropped;
  `ClosedIsFreed` (liveness): a client that goes is cleaned up, unless the process
  dies, though another may block in its read, if the others send nothing more from some
  time on.  Without that condition it is false, for fair threads too: the worker's
  failed read clears `networkActive`, and each time another worker's command sets it
  again before the first has tested it.  A client that vanishes unnoticed is not
  covered.

`uart`
: `OutputAligned`: bytes leave in order, none left out or repeated; one taken
  between the two statements of `CBuffer::write()` has the wrong value but the right
  place.  `InputAligned`: the same on the way in.  `ExactBelowHalf`: a torn index can
  only look full or empty, when it is not, with half a ring held; until then no byte
  is refused, dropped or made up. A packet is 140 bytes, half a ring 256.
  `BufferedIsSent` (liveness): `turn_tx_on()` and `turn_tx_off()` never leave
  bytes behind with the interrupt off, though a torn `head` may switch it off
  early.

`client`
: `ImplementsOperator`: the refinement; `FreedOnlyAtExit`: the SSL object, freed by
  three parties and used by whoever has not ended, is freed by none before the
  program is told to end; `ActiveWhileUsable`: two threads write `networkActive`
  without a lock, yet no command is dropped while the connection works;
  `EndsWhenCutOff` (liveness): the program ends when the server does, though a
  write that seems to work may set `networkActive` again.  `ClientInv` is their
  inductive invariant and has the types.

`link`
: `ModesAgree`: with no mode on its way, client and robot are in the same mode, for
  every client that has been told or has met a robot fresh from its reset, whatever
  commands and other answers are under way.  The client's mode is the one it goes by
  at its next prompt; a prompt it waits at may be older, and nothing prevents that.
  `LastWordHolds`: a robot that drives without limit, with no movement and no stop on
  its way, was told to by the last steering command of the connection, typed as a
  line: no stop was overtaken or lost behind a tune, a mode or a restart, and no
  teleop key, whose distance of 0 has no limit in manual mode, made it drive off.
  `PatientOperatorLosesNothing`: with one command at a time no buffer overflows at
  either end; `StrandedStaysStranded`: a robot that missed its greeting obeys
  nobody until the server is started again (or it falls out of step);
  `GreetingIsHeard` (liveness): it does not miss it, whatever clients send first,
  unless it is reset; `StopIsObeyed` (liveness): after a stop the motors come to stand
  still with nothing under way that would move them, whatever drives, tunes, toggles
  and pulses were ahead of it, unless a movement is sent after it or the connection is
  lost.  The exception is a robot that was overrun, and that takes a `rash` operator:
  who only ever adds one stop to what is under way is always obeyed.
  `ColoursAreRecognised`, `ForgetsAtMostAStep`: `getColor()` finds the right colour
  near every line, though `color_dist()` starts over after a distance below 1;
  what that costs is at most the distance to the next point.

### Fairness

* `Drive`: weak fairness of the main loop's own steps, because a processor
  without an operating system runs `loop()` for ever; weak fairness of ticks
  while the motors are powered, because a driven wheel turns.  No command is ever
  required.  `BoundedMoveStops` needs both.
* `Server`: weak fairness of each thread, as the operating system schedules them.
  Nobody is required to send a command (`ClientSends`), to connect or to disconnect.
* `Uart`: weak fairness of the transmitter and of a pending interrupt, which are
  hardware; of a call that has begun, because nothing in it waits.  Nobody has to
  call `write()` or send a byte.  `BufferedIsSent` needs all of it: `turn_tx_on()`
  is the last step of a call.
* `Client`: weak fairness of the steps of each thread and of a write that has
  begun, as the operating system schedules them.  Nobody has to type or connect,
  and the server need not do anything.
* `AlexLink`: weak fairness of `Progress`, the steps of programs, line and robot
  taken together: as long as one of them can go on, one does.  This is weaker
  than fairness of each.  Nobody has to type, start, stop or reset anything.

## Findings

1. `every_turn_stops`.  A tick is 20.57 degrees.  A turn by fewer has
   `deltaTicks` 0 (`Alex-a.ino:68`), which `loop()` takes for no turn under way
   (`:664`): the robot turns until it is told to stop.  The client invites any
   angle.
2. `moves_the_distance_asked`.  Clearing the statistics during a movement resets
   the distance it is measured by, not the target (`Alex-a.ino:460`, `:640`).
3. `one_connection`.  The comment at `tls-alex-server.cpp:33` says that
   `networkActive` prevents a second connection; the listener does not look at it.
4. `unwritten_answer`.  `networkActive` is set from an uninitialised variable
   when there is no client to write to (`tls-alex-server.cpp:263`): the answer to
   the greeting may end the session before it has begun.
5. `straight_only_when_empty`.  `write()` sees the transmitter ready, then the
   interrupt gives it the last byte of the buffer, then `write()` sees the buffer
   empty and stores its byte into a register that is full (`uart.cpp:42`): the
   byte is gone and every packet after it is shifted (`FramingNeverRecovers`).

## Proofs

TLAPS checks the theorems below for all values of the constants.

| theorem | states | inductive invariant |
|---|---|---|
| `AssemblerTypeCorrect`, `LeftoversFit`, `PacketsAreTimely`, `BytesStayInOrder` | the four invariants of `assembler` | their conjunction |
| `AssemblerImplementsPacketStream` | `AssemblerSpec => Abstract!StreamSpec` | the same |
| `FramingTypeCorrect`, `LosslessIsErrorFree`, `NoPacketTwice` | the three invariants of `framing` | `FramingIInv` |
| `NeverRecovers` | `FramingSpec => FramingNeverRecovers` | the same |
| `DriveTypeCorrect`, `MovingMeansArmed`, `DistanceIsBehindTicks` | the three invariants of `drive` | type, `AimingStraight`, `ArmedUntilStopped`, `DistanceNeverAhead` |
| `UndisturbedMovesEnd`, `NoMoveIsCutShort` | `DriveSpec => StopsOnTime`, `DriveSpec => NeverStopsEarly` | `MoveIInv`: those and `ModeOfPlace`, `Measured` |
| `ServerTypeCorrect`, `RouteIsLive` | the two invariants of `server` | type; a worker about to free its connection is not in `tls_conn`; only a worker that is done has freed one |
| `SessionIsFinal` | `ServerSpec => DeadStaysDead` | none: every step preserves `Dead` |
| `UartTypeCorrect` | the type invariant of `uart` | type, and a call of `write()` is within the bound |
| `InputStaysAligned` | `UartSpec => []InputAligned` | type, `RxInv` |
| `OutputStaysAligned` | `UartSpec => []OutputAligned` | type, `TxInv` |
| `NothingLostBelowHalf` | `UartSpec => ExactBelowHalf` | type, `PromiseInv` |
| `ClientSafe`, `FreesOnlyAtExit`, `StaysActive` | the three invariants of `client` | `ClientInv` |
| `ClientImplementsOperator` | `ClientSpec => ImplementsOperator` | the same |
| `LinkTypeCorrect` | the type invariant of `link` | itself |
| `OnlyARestartHelps` | `LinkSpec => StrandedStaysStranded` | type |
| `OperatorHasLastWord` | `LinkSpec => []LastWordHolds` | type, `WordInv` |
| `PatienceIsEnough` | `LinkSpec => []PatientOperatorLosesNothing` | type, `PatientInv` |
| `ClientAndRobotAgree` | `LinkSpec => []ModesAgree` | type, `ModeInv` |
| `UltrasonicSafe`, `ReadsTheEcho` | types; a call whose echo has ended reads all of that echo, if `edge` is in step with the pin | `UltrasonicInv` |
| `StepNeverChanges`, `InStepFromACleanStart`, `OutOfStepForEver` | `edge` is in step with the pin for ever or never, as it was at the start | `UltrasonicInv` |
| `NoneForgetsMore`, `ForgetsLittle` | what `color_dist()` returns, against the true distance, for any averages and for those of `link` | |
| `WhatIsNearIsRecognised` | averages within 33 microseconds of a point of a line are given its colour | |
| `AverageOfFive` | `getAvgReading()` of five periods up to 6.5 ms is their average | |
| `PapersAreRecognised` | `ColoursAreRecognised` of `link` | |

**Assembler.**  The hypothesis is `CallersReadAtMostAPacket`, that a chunk is not
longer than a packet.  The code needs it: with longer chunks leftovers pile up
past the end of their buffer.  The callers' own buffers hold one packet, so a
longer chunk is already out of bounds before `assemble()` sees it.  The
invariant is inductive as a whole and in no smaller part: that leftovers fit
needs `counter` + `leftoverCount` below a packet, that a packet completes exactly
needs `leftoverFlag => counter = 0`, and the order of bytes needs both.  For the
refinement, a call that completes a packet is `HandOver`, any other `Accumulate`;
the contents of the frame follow from the order of the buffered bytes.

**Drive.**  `TerminatorArmed` speaks of one place of the loop.
`ArmedUntilStopped` carries it around: at every place where a command has been
given and not yet ended, the check is armed or about to be passed, and
`AimingStraight` says that `Aim` follows a straight command.
`DistanceNeverAhead` rests on `Dist` being monotonic.

For the two action properties `Measured` says of a movement that nothing has
disturbed where its target is: as far from the counter as the movement has left to
go.  For a turn that is `targetTicks = count - ticks + amount`; for a straight one,
in whole cm, the target was computed from the distance at its start, and
`DistOfSum` says that the distance loses at most one cm between two readings.  That
a turn has no target left from an earlier one, and that the counter is the one of
its own direction, is part of `Measured`, and is why the remains of other movements
cannot end it.  A torn read, of a counter whose carry the interrupt makes between
its two halves, is a disturbance like any other: the checks of an undisturbed
movement see whole counters (`WholeRead`), and for the others nothing is proved.

**Server.**  A worker frees its connection only after its own `reset`, and after
that never sets `tls_conn`; any other worker sets its own, live, connection.  So
`tls_conn` may be `NULL` too early, never stale.

**Uart.**  Both rings satisfy one predicate, `Ring(h, t, a, b, n, hole)`: the cells
after `t` up to `h` hold the `n` bytes after byte `b`, except that byte `hole` is not
stored yet.  Five lemmas say what advancing an index or storing a cell does to a
ring, with the remainder by `Size` removed first (`At`); they need neither
interrupts nor torn values.  `RxInv` and `TxInv` are that predicate with the
counters of each direction and what `pc` adds: `take` means a byte is there, a byte
being loaded cannot be overwritten, `advance` means there is room, the interrupt is
off only when the ring is empty or `turn_tx_on()` is still to come.  A torn value
only ever decides whether the interrupt acts, never where: every index it writes
is computed from its own.  That is why order needs no lemma on `Mixed`.

Loss does.  `TornIndex` says that an index read in halves, while it moves by one, is
the old one, the new one, or half a ring away from the new one.  A ring that holds
less than half therefore looks neither full nor empty when it is not
(`RefusalMeansHalf`, `MadeUpMeansHalf`).  `PromiseInv` adds that the ring is not empty
between `available()` and the `read()` it leads to.

**Framing.**  The hypothesis is again that a chunk is at most a packet.
`FramingIInv` adds to the invariant of `Assembler`: frames begin at multiples of the
packet size in the received stream; the sender's numbers of received bytes grow
at least as fast as their places (`Rising`) and by no more than the losses
(`Within`); and the last packet accepted was recognised by a byte of a frame that
is at least a packet behind (`AcceptedInv`).  A frame without losses is then the
sender's next packet; two frames are recognised by bytes at least a packet apart
at the sender, so of different packets, in order; and the first byte of a frame
behind all losses has the remainder of the losses.  The lemmas on quotients and
remainders by `PacketSize` stand first.

**Client.**  `ClientInv` ties the threads to each other: one that has ended has set
the exit flag before it frees anything; a command being written is of the kind
the prompt asked for; a failed read or write, not yet stored, means the
connection cannot be used any more.  So each thread may write its own verdict
over the other's.  The refinement has one lemma per thread; most steps stutter,
and the message in hand moves from the queue to the thread without being taken.

**AlexLink.**  `StrandedStaysStranded` needs only types, as greetings are added only by
`SendHello`.  For `LastWordHolds`, `WordInv` follows the last steering command from
queue to queue: it is `word` in the last of `toServer`, `down` and `rx`, in this order,
that has one, and with none in any of them the robot drives only if `word` says so.
That a robot which has not been greeted stands still and has an empty `rx` lets it drop
what comes.  For the patient operator, `PatientInv` says that at most one packet is under way towards
the robot, none while it is busy, that a robot in its loop with a packet coming
has nothing left to send, and that before the greeting nothing is under way to a
robot whose port is open.  The hypothesis is `RingPackets >= 3`, the number of answers to a toggle.
For two, TLC finds the answer that is cut.

For `ModesAgree` a count of toggles under way is of no use, since each of the three
programs may start anew with some of them in its queues.  `ModeInv` says instead
what the robot's words are worth: the last mode in `tx` is the one it is in, unless
a packet behind it was cut (`ToldInv`); with none in `tx`, a client that should know
knows: the last mode on its way to it, or else its own, is the robot's (`KnownInv`);
and a client that is the first of a server meets a robot in manual mode with
nothing but greetings on the way to it (`FirstInv`).

**Sensors.**  `FlagIsFree` says that an edge never finds the flag set by an earlier
one, so that none is lost.  Then every edge of the pin is one change of `edge`, now
or at the next `Enable`, and nothing brings the two into step or out of it.

The colours need geometry.  The point behind one nearer than 1 is not much more than
a step of the line away (`SquaredOverAStep`), and the steps of a line are alike
(`StepsAlike`), which bounds what `color_dist()` forgets.  Points of two lines are
further apart than twice 33 microseconds: a square is above its tangents
(`Tangent`), which leaves an inequality that is linear in the two places on the
lines (`RedFromWhite`, `GreenFromWhite`, `GreenFromRed`).  By the parallelogram law
(`NearAThird`) no averages are within 33 of two lines.  The sum of `getAvgReading()` is
a recursive function; since five readings are five steps, it is unfolded.

Every invariant and every action property of the passing runs is proved, and so are
both refinements.  Left to TLC: liveness, which is out of the prover's reach
(`BoundedMoveStops`, `ClosedIsFreed`, `BufferedIsSent`, `EndsWhenCutOff`,
`GreetingIsHeard`, `StopIsObeyed`).

## Not modelled

* Time: how long a tune or a reading blocks the loop, how far the robot rolls, the
  pause between two teleop keys (`tls-alex-client.cpp:420`), whether more than a
  packet gathers in the terminal's buffer of the Pi (`serial.cpp:125`).
* The TLS protocol, certificates, and the inside of an SSL object, so also what
  happens when two threads use one at a time.
* `tls_pthread.cpp` and the set-up in `tls_common_lib.cpp`: calls into OpenSSL.
* Contents of packets beyond their layout; speeds; what is printed; terminal
  settings; the notes of the buzzer; the pins of the colour sensor.
* Wrap-around of 32-bit counters: four billion ticks.
* `serialize.cpp` is in the repository for the Pi only; that the firmware uses the
  same is how its sketches call it.
* The earlier sketches, the TCS3200 library, the TLS echo programs.

## Plan

Done: the modules above, in the order assembly, movement, server, UART, client,
the whole, sensors; and the proofs of all their safety properties.  What could still
be proved: that `Uart` implements a pair of bounded queues, which `OutputAligned`,
`InputAligned` and `ExactBelowHalf` say in parts; how long a reading of `Ultrasonic`
may be that is torn.
