# A TLA+ model of espcan_br

espcan_br is firmware for an ESP32 board that bridges a CAN bus to SLCAN hosts
over UART, inbound TCP and an outbound (auto-connect) TCP/TLS link.  This
directory holds TLA+ modules translated from its source (`src/src/*.rs`), TLC
configurations for small instances, and theorems checked by TLAPS.
`PROJECT.json` maps every definition to the source lines it stands for and lists
the runs, the hazards, the findings and the theorems.

## 1. The system

All tasks run on one embassy executor: cooperative, single-threaded, a task is
interrupted only at an `.await`.  That is the unit of atomicity in every module.

| Component | State | Operations | Talks to |
|---|---|---|---|
| CAN manager and RX bus, `can.rs` | `CAN` mutex: optional controller, bitrate, `open_count`; `RX_BUS` (16 frames, 4 subscribers); atomic counters | `open`, `close`, `set_bitrate`, `try_transmit`, `status_flags`, `can_rx_task` | called by every port; publishes frames to every port |
| SLCAN port runner, `transport.rs` | per port: `open`, timestamp flag, line buffer | `run_port` (select of read and frame), `dispatch` | CAN manager, RX bus, the port's link |
| Port tasks, `main.rs`, `uart_poll.rs` | subscriber, `TCP_CLIENTS` | `uart_port`, two `tcp_port`s, `PolledUart` | run_port |
| Auto-connect, `autoconnect.rs` | `AUTOCONNECT_STATE`, `SERVER_PUBKEY`, copy of the configuration | dial loop, `PinnedVerifier`, token, backoff | run_port, the configuration, WiFi state |
| Web server, `http.rs` | request buffer, login gate | pages, status, four save handlers, reset | configuration, `GPIO0_HELD` |
| Configuration, `config.rs` | four slots in one flash sector and their RAM copies | load, save, `AuthConfig::set`/`verify` | web server, boot |
| BOOT button, `main.rs` | `GPIO0_HELD` | `gpio0_monitor` every 100 ms | login gate |
| SLCAN codec, `slcan.rs` | none | `parse_tx`, `format_frame` | dispatch, run_port |
| WiFi tasks, `main.rs` | `WIFI_CONNECTED`, `STA_IP` | `connection_task`, `sta_ip_monitor` | auto-connect, mDNS, LED |
| DHCP server, `main.rs` | in the library | `dhcp_server` | clients of the access point |
| LED, `led.rs`, `main.rs` | ten-bucket windows | tick every 100 ms | counters, `TCP_CLIENTS` |
| mDNS, `mdns.rs` | snapshot of the address | responder loop | WiFi tasks |
| Host tools, `tools/*.py` | - | command-line tools, test servers, proxy | the bridge from outside |

What is hard here, and what correctness means:

* **One controller, four users.** Ports come, go and lose their links at any
  point, with the channel open or in the middle of a chunk of lines.  The
  controller must be on the bus exactly while some port is open, at the bitrate
  that was acknowledged, and no port may change it under another.
* **A bounded broadcast.** Slow ports are overtaken.  Frames may be skipped;
  none may be counted out twice; four subscriber slots must suffice, or the
  firmware panics.
* **A byte stream in pieces.** Lines and HTTP requests arrive split anywhere.
  The result must depend on the bytes alone.
* **Trust on an outbound link.** The pinned key must have been proved before the
  port runs or the token leaves, and no state of an earlier attempt may leak
  into the next.
* **Configuration that survives.** RAM and flash must agree through failed
  saves, power loss and reboots; the login must hold except for the button.
* **Text that means a frame.** A line must reach the bus as the frame it spells
  or not at all, and a received frame, with its timestamp, must fit the buffer
  it is written into.
* **Copies of state that moves.** The address on the page, the address of the
  mDNS responder, the LED's last counter values are copies that age.
* **Progress.** Dead links are noticed, the dial loop never ends, every HTTP
  connection is finished.

## 2. Modules

```
CanChannel  <--implements--  CanBridge  <--  CanBridgeProofs
                                 ^
                                 +---------  MCCanBridge (the Bridge*.cfg files)
LineBuffer   <--+ LineBufferProofs <--+
                +-- SlcanPort <--  SlcanPortProofs, MCSlcanPort
SlcanCodec   <--+
AutoConnect  <--  AutoConnectProofs, MCAutoConnect
ConfigStore <--implements--  WebConfig  <--  WebConfigProofs, MCWebConfig
WifiStation  <--  WifiStationProofs, MCWifiStation
ActivityLed  <--  ActivityLedProofs           (is its own TLC module)
```

Definitions keep the names of the source.  Operators introduced by a comment
`Bug:` are plausible wrong versions of the definition that follows them; no
specification uses them, they serve to show that the properties can fail.

### CanBridge and CanChannel

`CanBridge` composes the CAN manager, the RX bus, `run_port`/`dispatch` and the
tasks around them for any set of listeners and dialers.

| Model | Code |
|---|---|
| `twai`, `twai_baud`, `baud`, `open_count` | `CanManager` and the `Twai` it owns |
| `bus_off`, `fifo` | the controller itself (external), as `receive()`/`transmit()` show it |
| `RX_COUNT`, `next`, `subscribers` | `RX_BUS`; a frame is its number, a subscriber its next number |
| `cnt`, `TCP_CLIENTS` | the atomics; addition is modulo `CounterMod` |
| `link`, `pending` | what the next `read` will report |
| `pc`, `open`, `ts`, `chunk`, `reply` | where a port's task waits, and `run_port`'s locals |
| `Read`, `ReadEof`, `TakeFrame`, `FrameWritten` | the branches of the `select` and the awaits in them |
| `Dispatch*`, `ReplyWritten` | `dispatch` of one line, then the awaited write |
| `Accept`, `Dial`, `Handshake*`, `StopPort`, `Closed`, `Rejoin` | the loop iteration of `tcp_port` / `autoconnect_task` |
| `HostSend`, `HostDrop`, `BusFrame`, `BusOff` | hosts, network and bus: anything, at any time |

The CAN mutex is never held across an `.await`, so lock, method and unlock are
one step.  A line is its class and, for `Sn`, its digit; which lines `parse_tx`
accepts is the class of the line.  `can_rx_task` drains up to 16 frames per lock
and loops without sleeping while frames come; the model lets other tasks run
between two rounds, which only adds behaviours.  So does letting other tasks run
while the UART writes a frame: `PolledUart::write` and `flush` never wait, but
`run_port` is one definition for all ports.

`CanChannel` says what the ports may rely on, as a set of open ports over one
bus.  `ImplementsChannel` is the refinement: `opened` is the set of ports whose
local flag is set, `rate` the manager's bitrate, `bus` the controller.

### LineBuffer

The byte loop of `run_port`: reads of any size, CR, LF and the overflow that
answers BEL.  A byte is its class; bytes of a line are known by their position,
so that a lost, kept or repeated byte shows.  CanBridge continues with lines.

### SlcanCodec and SlcanPort

`SlcanCodec` has `parse_tx` as a predicate (`TxOk`) and a frame (`TxFrame`),
`to_esp`'s range check (`EspOk`) and `format_frame`, over ASCII codes.  A `u32`
identifier is the pair of its 16-bit halves, which keeps TLC's and the provers'
numbers small.  `WellFormed`, `InRange` and `Capitals` restate the protocol table
of the repository's README as the reference.  They share with the parser what a
hexadecimal digit is (`IsHex`) and the four letters (`Kinds`), and none of its
positions, lengths or values.

`SlcanPort` joins it to `LineBuffer`: the positions that LineBuffer tracks are
given characters, chosen as a whole stream when a segment begins, and each
dispatched line is parsed, ranged, sent, received by another bridge on the bus
and printed there with or without a timestamp.  (A bridge does not echo its own
frames.)  `Relayed` takes `to_esp`, the bus and `from_esp` for the identity on a
frame whose identifier is in range: they copy it field by field.  Frames are not
lost on the way; loss belongs to CanBridge.

### AutoConnect

The dial loop with its pauses, `PinnedVerifier` with certificate and signature
as two steps of the handshake, PIN_MISMATCH as a state set by the
verifier and read after it, the web page changing the configuration, resets,
power loss, and WiFi.  Keys are model values; a server shows any key, or none,
and its signature validates or not.  URL text, DER and ECDSA are abstracted to
these verdicts.  `mismatch` and `token_sent` are history variables.

### WebConfig and ConfigStore

`handle_request` reading a request in segments, the login gate, the four save
handlers, flash, boot and the BOOT button.  Text is its length, so a truncated
text is a smaller number, and a request is a number of units of which the
handler has seen a prefix.  Only the access point or only the station interface
is ever started, so one connection is served at a time.  `Layout` keeps the
offsets and the padded write sizes as the code has them, and how many bytes of
each struct must be there for its two values; a save destroys whatever it overlaps.

Saves go through esp-storage, which erases and rewrites the whole sector (external
to the repository).  The rewrite may stop at any of the byte offsets `Cuts`, by a
power loss (`CutDuringSave`) or by an error that the handler answers with 500
(`Store`).  `Torn` is what is then in flash: the bytes before the cut, and erased
flash behind it.  `from_bytes` asks for little more than the magic number in front,
so a struct that the cut went through is loaded, with `Erased` for the values that
are not all there.  A length of 255 is more than any of the arrays has, and slicing
with it panics: `BootEnds` (the SSID and the password in station mode, the name as
access point), `MdnsPanics`, `VerifyPanics` (the user name), `PagePanics` and
`StatusPanics`.  `pc = "panic"` is a chip that has stopped, until the next power
cycle at best.  A URL is taken for damaged whenever its struct is cut, although
one that ends before the cut is not; an erase that is itself interrupted is not
modelled.  A request carries its own `Content-Length`, which may be missing or
too long; a field is cut at the capacity of the handler's buffer.

`ConfigStore` is what the rest of the firmware relies on: four registers saved one
at a time, a boot that runs on exactly what is kept, and a save that stops half way,
by failing or by a power loss: the registers are rewritten in order, those before
the one at which it stops are as they should be, that one may hold anything, and
those behind it are lost.  `ImplementsStore` is the
refinement: `kept` is flash, `used` the shared copies in RAM, `failed` the slots
that saves answered with 500 left behind.  It has no offsets; that the slots do not
overlap is what the refinement shows.

### WifiStation

`connection_task`, `sta_ip_monitor` and the mDNS responder, over a radio and a
DHCP client that do as they please.  The link may drop between the association
and `wait_for_event`; `EventAtWait` is what the call sees of it.  That is up to
esp-radio and not visible in this repository, so both are allowed: the event is
still there, or the call starts by clearing it.  The history variable `missed`
records the second, after which nothing in `connection_task` looks at the link
again.  `NameMatches` is the label walk of `build_response`, label by label.  A packet is the fields that
`build_response` looks at, the type and the class in their 16 bits: with a wider
class the test of its lower 15 bits would accept more than the two classes that
`AsksForUs` allows.  The responder copies the address once; the
announcement and all answers carry that copy.

### ActivityLed

The loop at the end of `main` with its ring of buckets over wrapping counters,
`level_from_count`, and the 24 pulses by their bits, in the order the LED reads
them.  A failed transmission leaves the LED in an unknown state until the next.
The history variable `recent` holds the true number of frames per tick.

## 3. Runs

| Run | Instance | Checks |
|---|---|---|
| `bridge_channel` | UART, one listener, one dialer; O, L, C, S2 | `TypeOK`; `OpenCountExact`, `OnBusIffOpen`, `BitrateInForce`: count, controller and bitrate agree with the flags; `SubscribersExact`, `SubscriberSlotFree`, `ClientsExact`; `ControllerStable`: no port changes the controller under another; `BusOffUntilClosed`: bus-off ends exactly with the last open port; `ImplementsChannel` |
| `bridge_flow` | UART and a dialer; O, C, a query; 2 frames over a bus that keeps 1, fair | `SerialOutTaken`: lag may lose frames but none is counted out twice; `DeadLinkReleases`, `BacklogServed`, `FramesPublished` |
| `bridge_lines` | UART and a listener whose link may die; O, Z1, good and bad transmit lines, two per read, fair | `ChunkServed`: every line read is dispatched, also behind a reply that failed; `TxWithinIn`: nothing reaches the bus that was not counted in |
| `slcan_port` | buffer of 26, reads of up to 3, 165 streams, three timestamps | `Framing`, `DispatchExact`: lines depend on the stream only; `Delivered`, `NothingElse`: a line of the table arrives, nothing else does; `OutFits` |
| `autoconnect_link` | 2 keys, 7 configurations (off, plain, TLS with and without pin, every misuse), fair | `TypeOK`, `PinnedSession`, `TokenGuarded`, `MismatchExact`, `AlwaysRedials` |
| `web_save` | requests over all handlers and routes, good, refused, unauthorised and too long; one save that fails or is cut off, at 8 offsets; fair | `RamIsFlash`, `WholeFormSaved`, `ImplementsStore`: the sector is an ordered store of registers, of which a save that stops damages one at most; `NoWayIn`, `StationAfterSave`, `Answered`, `OwnerGetsIn` |
| `station` | two addresses, 14 mDNS packets, fair | `Reconnects`: a lost link is dialled again, `LinkSettles`: `WIFI_CONNECTED` follows the link, both but for an event that `wait_for_event` forgot; `AddressSettles`: the page's address follows the stack's; `AnswersTrue` |
| `led` | window of 3, counters modulo 4, one frame per tick | `ActivityShown`: green and red are the last second's traffic, across wraps, and blue what the tick chose; `BlueTells`: the three states look different |
| `bridge_normal_mode`, `bridge_lag`, `autoconnect_status`, `web_blank` | small | one statement of the documentation each, which the code does not keep; section 5 |

**Bounds and why they are enough.**  Three ports are one of each kind of task;
a second listener runs the same code as the first, and what the count does with
any number of ports is proved.  `RxCap` is 1 or 2 (16 in the code) with more
frames than that, so that lag happens; the buffer sizes enter only comparisons,
and the theorems hold for all of them.  One line per read suffices where lines
of different ports interleave, since each line is a step of its own anyway;
`bridge_lines` takes two to have lines behind the one being answered when the link
dies, of a few kinds: those of the other kinds run in the other two.  `MaxTx`
bounds transmit lines and `MaxFrames` received frames; `CounterMod` is 1 where
counters are irrelevant, which removes them from the state, and 16, above every
bound, where a property reads them, so no property depends on a wrap.
`SlcanPort` has a line buffer of exactly the longest transmit line, so that every
line of the table passes and a stream goes over the buffer twice; its streams
are identifiers on both sides of 11 and 29 bits, length codes 0, 1, 8, 9 and f
with too little, enough and too much data, both cases, bad digits, and frames
behind an overlong part; for all other lines and sizes there are the proofs.
`WebConfig` has a buffer of 6 units: a form that fits exactly, one that does
not, and every split of each.  `Cuts` has an offset in front of each struct's
contents, between its two values and behind it where these differ in effect: 0
(nothing rewritten), 20 and 60 (the WiFi struct without its SSID, without its
password), 150 and 168 (the device struct without name, without baud), 512 (the
flash page boundary, inside the autoconnect struct), 660 and 690 (the login without
user, without hash).  `MaxFaults` is 1: after one damaged sector every handler, boot
and power cycle still runs, and a second one starts from what the first may leave;
the theorems are for all `Cuts` and `MaxFaults`.  In `ActivityLed` the counters wrap within a
window and a half, which is the hardest case that `LedAssumption` leaves: a window's
traffic is below 2^32.

**Fairness and why the code justifies it.**  Weak fairness is assumed of tasks
only.  The executor polls every woken task; a port's waits end with data, an
error or the 300 s socket timeout, its pauses by timers; `can_rx_task` wakes
every millisecond; the dial loop's DNS, connect and handshake have timeouts;
HTTP reads end after 30 s; the reset and `gpio0_monitor` run on timers.  `connect_async`
returns, one way or the other; `connection_task`'s pause and `sta_ip_monitor` run
on timers.  A chip that panicked owes nothing.  Hosts,
servers, the bus, the button, WiFi and power owe nothing.  Two assumptions
deserve mention.  Fairness of a port is over all of `run_port`, not per branch:
`select` polls the read first, so a host that never pauses does starve its own
frames, and `BacklogServed` promises them only once it is quiet.  And
a session of the dialer is assumed to end when WiFi stays down, by the socket
timeout; nothing ends it while WiFi and the server are there.

Deadlock checking is on in every run.

## 4. Proofs

Each `*Proofs` module proves the invariants for every value of the constants:
any finite set of ports, any buffer sizes, keys, configurations and requests.
The argument is the usual one: an inductive invariant `Inv`, `InitInv`,
`InvStep` (one step per action), and the properties from it.

* **CanBridge**: `Inv == TypeOK /\ ChannelInv /\ SessionInv /\ SerialOutTaken`.  `OpenCountExact` alone is not inductive: a close must know
  that the port it closes is counted, so it needs the flags' domain, finiteness
  of the ports, and that a task outside `run_port` holds no flag
  (`ClosedOutsideRunPort`); otherwise a new session would reset a flag that is
  still counted.  `SerialOutTaken` needs that `uart_port` never restarts
  (`UartNeverStops`).  From it: a theorem for each of the run's invariants
  (`TypeCorrectness`, `OpenCountCorrect`, `OnBusCorrect`, `BitrateCorrect`,
  `SubscribersCorrect`, `ClientsCorrect`, `SerialOutCorrect`),
  `SubscriberSafety` (from the assumption that there are at most as many port tasks
  as slots, which is 4 and 4 in the code), `ControllerStability`,
  `BusOffCorrect` (with `BusOffOnBus`: a bus-off controller is one that exists, so
  an open that starts a controller never meets one), and `Refinement`: every step of the bridge is a step of
  `CanChannel` or a stutter.  Counting lemmas (`CountAdd`, `CountDel`) relate set
  changes to cardinalities.  `TxBounded` has a hypothesis, `NoWrap`: no step takes
  `SER_IN` or `TCP_IN` back.  After 2^32 frames one of them does and `TxWithinIn` is
  then no longer to be expected; up to there the theorem holds for every counter
  width.  `TX_COUNT` itself may wrap, which only lowers it.
* **LineBuffer**: `Inv == TypeOK /\ Framing /\ LineIsTail`; `LineDispatch`
  follows with `Remainder`, that a number `b * (LineCap + 1) + r` with
  `r <= LineCap` has remainder `r`.
* **SlcanPort**: `PortInv` says that what the other host reads is `Relayed` of the
  last line, which is a text; the rest is about the codec.  `HexNibble` (a digit that is read
  and written comes back in capitals) and `LowNibble` give `WordText`,
  `IdentifierText` and `DataTextBack`, the parts of the text, and `BodyBack` puts
  them together: for every line that `parse_tx` accepts, `format_frame` writes
  its accepted part in capitals.  `TableSent` and `SentTable` relate what is
  accepted and in range to the protocol table, in both directions.  From these:
  `PortDelivers`, `PortNothingElse`, `PortOutFits` (at most 31 bytes), and
  `PortImplements`, by which LineBuffer's theorems hold here.
* **AutoConnect**: `Inv` adds what each stage of an attempt has established:
  `Vetted` (the URL in use passed the checks), `Attempt` (during a handshake the
  state is CONNECTING and nothing was refused or sent), `KeyChecked` (after
  `verify_signature` the key was accepted).  Without `Attempt` a left-over
  PIN_MISMATCH would be possible; it holds because every attempt starts with
  `set_state(CONNECTING)`.
* **WebConfig**: `Inv == TypeOK /\ RamIsFlash`.  `SlotsApart` shows from the
  offsets and sizes that no save touches another slot; `StoreRefinement` follows
  with `WrittenSlot` and, for a sector whose rewrite stopped, `TearSimulation`: the
  slot that the cut goes through is the register that `StopsIn` names, and since the
  slots lie one behind the other all others are whole or lost.
  `WholeFormSaved` is inductive next to `TypeOK`: `ReadsWhole` shows that the read
  loop of a request that fits and whose Content-Length covers the form can only be
  left with all of it in the buffer, and every other way to an acknowledgement has
  set `eof`.  `LoginHolds` needs no more than the gate in front of every handler,
  read with the freshness of `GPIO0_HELD` as it is.
* **WifiStation**: `Inv` says that the first address is the only one around until
  another is granted (`OneAddress`), that the responder has its copy before it
  answers (`Answering`), and that whoever waits for a disconnection has a link, the
  event, or missed it at the start of the wait (`DropNoticed`, with `WifiTold`).  It is
  proved for a `wait_for_event` that may do either.  From it `AnswersCorrect` and
  `DropsNoticed`, the safety half of `Reconnects`; `ModesApart` keeps the access
  point and the station tasks apart.  The packets are all packets: any labels, any
  16-bit type and class.
* **ActivityLed**: `Inv` relates four things.  `CountsApart`: a counter differs
  from its last copy by the frames since, up to one wrap, so `wrapping_sub` gives
  their number.  `WindowExact`: the ring, read from `idx`, is the history.
  `SameTotals`: both have the same sum, although the ring starts elsewhere.
  `BluesExact`: each blue level is that of its slot, counted back from the next.
  `SameTotals` is the hard part, because a sum is a recursive function over a
  window of any length.  Induction over data is done in set form: the numbers
  for which a statement fails are a set, `NatLessThanWellFounded` and `WFMin` give
  it a least member (`LeastMember`), and that member contradicts the recursion.
  This gives what replacing or shifting one element does to a sum; a tick takes the
  same number from both sums and adds the same to both.  Then `ActivityCorrectness`
  (a byte sent as eight pulses is read back, `level_from_count` fits a byte) and
  `BlueCorrectness` (a whole window visits slot 0 exactly once).

Assumptions: only those stated as `ASSUME` in the component modules (sorts and
positivity of constants, and `SubscriberSlots`); TLC evaluates them on every run.

Only model-checked: all liveness properties (`DeadLinkReleases`, `ChunkServed`,
`BacklogServed`, `FramesPublished`, `AlwaysRedials`, `StationAfterSave`,
`Answered`, `OwnerGetsIn`, `Reconnects`, `LinkSettles`, `AddressSettles`), since
TLAPS has no ENABLED and hence no fairness reasoning here.  Every invariant, action
property and refinement that a passing run checks is also a theorem.  `TypeOK` of
WebConfig, WifiStation and ActivityLed is proved and is not an invariant of a run.
No module uses RECURSIVE operators.

## 5. Findings

Four statements of the documentation do not hold of the code; each has a run
that ends in a counterexample.

* `NormalPortCanSend` (`can.rs:85`): the first port to open decides the mode.  A
  port that sends `O` while another holds the channel with `L` gets CR and a
  controller that cannot transmit.  The reverse happens too: a port that opened
  with `L` sits on a transmitting controller, and its `t` lines go out.
* `NoFrameLost` (`can.rs:162`): "every received bus frame is broadcast to all
  open ports", but a port more than 16 frames behind loses the oldest without a
  sign.
* `LiveStatus` (`autoconnect.rs:317`): after a session ends while WiFi is down,
  the page shows "connected" until WiFi returns.
* `DisabledByBlankForm` (`config.rs:394`): the login is switched off if either
  field is empty, not only if both are; the page prefills the user name, so a
  form sent without typing a password removes the login.

Observations that are no contradiction of a documented promise, or too small
for a run of their own:

* The mDNS responder answers with the address of its start for ever
  (`mdns.rs:26`); after a change of lease it sends hosts to the old one until the
  next reboot.  `AnswersTrue` states what remains.
* A save that stops inside a struct behind its magic number leaves a configuration
  that `from_bytes` accepts (`config.rs:93`, `195`, `295`, `434`).  With a torn WiFi
  struct every boot panics in `ssid_str` or `password_str`, with a torn name the
  access point's does, a torn login refuses every password or panics in `verify`; a
  checksum over the struct would turn all of these into a lost configuration.
* If esp-radio's `wait_for_event` clears pending events when it is called, a link lost
  between `connect_async` and that call (`main.rs:317`) leaves the station waiting,
  with `WIFI_CONNECTED` set, until the next reset.  `Reconnects` and `LinkSettles`
  show that this is the only way.
* `save_device` stores any baud rate above zero and resets; one that `Uart::new`
  refuses makes `main` panic at every boot (`main.rs:147`).
* `parse_tx` ignores whatever follows the data, although its comment says "Returns
  `None` on any malformed input" (`slcan.rs:70`); `NothingElse` is stated for the
  beginning of the line.
* The comment on `MAX_FRAME_ASCII` adds up to 30 (`slcan.rs:16`); its terms make
  31, and 32 is enough.
* If the WiFi driver ever stops, `connection_task` returns (`main.rs:327`) and
  nothing starts it again.

## 6. Not modelled

* The DHCP server: `dhcp_server` passes constants to a library.
* `CanBridge` takes the codec's verdict as the class of a line, and `AutoConnect`
  sees WiFi as a flag that changes freely; both are what the modules of those
  parts allow, but the composition is not checked in one model.
* HTML and JSON pages, the layout of mDNS records, pulse lengths, reply wording:
  pure output.  Base64 and URL decoding are abstracted to lengths.
* Cryptography, DER, DNS, TCP and flash drivers: external; only their verdicts
  and failures matter here.
* `PolledUart::write` turning an error into `Ok(0)`, on which `write_all`
  panics: both the driver's errors and the panic are outside the repository.
* The Python tools, which run on the host.

## 7. Plan

In order of importance; the first seven are done.

1. `CanBridge` over `CanChannel`: the shared channel, sessions and frame flow.
2. `LineBuffer`: from bytes to lines.
3. `AutoConnect`: pinning, token and backoff.
4. `WebConfig`: configuration, flash and login.
5. `SlcanCodec` and `SlcanPort`: from lines to frames and back.
6. `WifiStation`: the station's tasks and mDNS.
7. `ActivityLed`: the window and the colours.
8. The relay of the host proxy, two threads over two sockets.

Abstract specification still worth stating: a broadcast bus with a lag bound for
`RX_BUS` (each delivered sequence is a subsequence of what was published).
Theorems still worth proving: the safety facts behind the liveness properties, as
`DropNoticed` is for `Reconnects` (a port on a dead link holds exactly what its stage
has still to give back; a sleeping dial loop has a pause of at most 90 s).
