----------------------------- MODULE ActivityLed -----------------------------
(***************************************************************************)
(* The activity LED: the loop at the end of main, which every 100 ms turns *)
(* the wrapping frame counters of can.rs into a one-second window, and the *)
(* WS2812 colour that led.rs makes of it.  Frames, clients and WiFi come   *)
(* and go as they like.                                                    *)
(***************************************************************************)
EXTENDS Integers, Sequences

CONSTANTS
  CounterMod,    \* RX_COUNT and TX_COUNT are u32: 2^32
  LED_BUCKETS,   \* ticks of the window: 10
  MaxPerTick     \* bound: frames that the bus carries in one tick

\* One second of CAN traffic is far from 2^32 frames.
ASSUME LedAssumption ==
  /\ LED_BUCKETS \in Nat \ {0} /\ MaxPerTick \in Nat /\ CounterMod \in Nat
  /\ LED_BUCKETS * MaxPerTick < CounterMod

Counters == {"rx", "tx"}
Slots == 0..LED_BUCKETS - 1

VARIABLES
  CONFIG_MODE, WIFI_CONNECTED,
  TCP_CLIENTS,   \* whether it is above zero
  count,         \* RX_COUNT and TX_COUNT
  last,          \* last_rx and last_tx
  buckets,       \* rx_buckets and tx_buckets
  idx,
  strip,         \* the pulses that the LED took last, or Garbled
  pending,       \* (history) frames since the last tick
  recent,        \* (history) frames of the last LED_BUCKETS ticks, oldest first
  status,        \* (history) what the last tick saw
  steady,        \* (history) ticks that have seen it, at most LED_BUCKETS
  blues          \* (history) the blue levels of those ticks

world == <<CONFIG_MODE, WIFI_CONNECTED, TCP_CLIENTS>>
loop == <<last, buckets, idx>>
history == <<recent, status, steady, blues>>
vars == <<world, count, pending, loop, strip, history>>

-----------------------------------------------------------------------------
(* led.rs *)

FRAMES_FOR_FULL == 50
MAX_LEVEL == 64
MIN_LEVEL == 4
STATUS_BLUE == 10

AtMost(a, b) == IF a <= b THEN a ELSE b

\* (saturating_mul: a product over 2^32 is over the cap anyway.)
level_from_count(n) ==
  IF n = 0 THEN 0
  ELSE AtMost(MIN_LEVEL + (n * (MAX_LEVEL - MIN_LEVEL)) \div FRAMES_FOR_FULL, MAX_LEVEL)

\* The bits of a byte, most significant first: 0 and 1 are the two pulse shapes.
Bits(byte) == [i \in 1..8 |-> (byte \div 2^(8 - i)) % 2]

\* WS2812B wants GRB order.
Pulses(r, g, b) == Bits(g) \o Bits(r) \o Bits(b)

\* A transmission that failed: the channel is kept, what the LED shows is unknown.
Garbled == <<>>

set_rgb(r, g, b, sent) == strip' = IF sent THEN Pulses(r, g, b) ELSE Garbled

-----------------------------------------------------------------------------
(* main *)

Init ==
  /\ CONFIG_MODE \in BOOLEAN /\ WIFI_CONNECTED = FALSE /\ TCP_CLIENTS = FALSE
  /\ count = [c \in Counters |-> 0] /\ last = count
  /\ buckets = [c \in Counters |-> [i \in Slots |-> 0]]
  /\ idx = 0
  /\ strip = Pulses(0, 0, 0)
  /\ pending = [c \in Counters |-> 0]
  /\ recent = buckets
  /\ status = "none" /\ steady = 0 /\ blues = <<>>

\* transmit and poll_rx.
CountFrame(c) ==
  /\ pending["rx"] + pending["tx"] < MaxPerTick
  /\ count' = [count EXCEPT ![c] = (@ + 1) % CounterMod]
  /\ pending' = [pending EXCEPT ![c] = @ + 1]
  /\ UNCHANGED <<world, loop, strip, history>>

\* connection_task runs in station mode only.
WifiChanges ==
  /\ ~CONFIG_MODE
  /\ WIFI_CONNECTED' = ~WIFI_CONNECTED
  /\ UNCHANGED <<CONFIG_MODE, TCP_CLIENTS, count, pending, loop, strip, history>>

ClientsChange ==
  /\ TCP_CLIENTS' = ~TCP_CLIENTS
  /\ UNCHANGED <<CONFIG_MODE, WIFI_CONNECTED, count, pending, loop, strip, history>>

\* Bug: the difference stops at zero.
SinceSaturating(c) == IF count[c] >= last[c] THEN count[c] - last[c] ELSE 0

\* wrapping_sub
Since(c) == (count[c] - last[c]) % CounterMod

\* iter().sum()
Total(f) ==
  LET sum[n \in 0..LED_BUCKETS] == IF n = 0 THEN 0 ELSE sum[n - 1] + f[n - 1]
  IN  sum[LED_BUCKETS]

\* What the blue LED tells.
Status ==
  IF TCP_CLIENTS THEN "client"
  ELSE IF CONFIG_MODE \/ WIFI_CONNECTED THEN "ready" ELSE "connecting"

\* Bug: ready looks like a client.
BlueAlike ==
  IF Status = "connecting" THEN 0
  ELSE IF idx = 0 THEN 0 ELSE STATUS_BLUE

Blue ==
  CASE Status = "client"     -> IF idx = 0 THEN 0 ELSE STATUS_BLUE
    [] Status = "ready"      -> IF idx = 0 THEN STATUS_BLUE ELSE 0
    [] Status = "connecting" -> 0

\* The window without its oldest tick and with n as its newest.
Shifted(f, n) == [i \in Slots |-> IF i = LED_BUCKETS - 1 THEN n ELSE f[i + 1]]

Tick(sent) ==
  /\ buckets' = [c \in Counters |-> [buckets[c] EXCEPT ![idx] = Since(c)]]
  /\ last' = count
  /\ set_rgb(level_from_count(Total(buckets'["tx"])),
             level_from_count(Total(buckets'["rx"])), Blue, sent)
  /\ idx' = (idx + 1) % LED_BUCKETS
  /\ pending' = [c \in Counters |-> 0]
  /\ recent' = [c \in Counters |-> Shifted(recent[c], pending[c])]
  /\ status' = Status
  /\ steady' = IF status = Status THEN AtMost(steady + 1, LED_BUCKETS) ELSE 1
  /\ blues' = LET b == IF status = Status THEN Append(blues, Blue) ELSE <<Blue>> IN
              IF Len(b) > LED_BUCKETS THEN Tail(b) ELSE b
  /\ UNCHANGED <<world, count>>

Next ==
  \/ \E c \in Counters : CountFrame(c)
  \/ WifiChanges \/ ClientsChange
  \/ \E sent \in BOOLEAN : Tick(sent)

Spec == Init /\ [][Next]_vars

-----------------------------------------------------------------------------
\* The colour that a WS2812B makes of the pulses.
Byte(p, at) ==
  LET b(i) == p[at + i] IN
  128 * b(1) + 64 * b(2) + 32 * b(3) + 16 * b(4) + 8 * b(5) + 4 * b(6) + 2 * b(7) + b(8)
Colour(p) == [green |-> Byte(p, 0), red |-> Byte(p, 8), blue |-> Byte(p, 16)]

\* The ring of buckets holds the frames of the last LED_BUCKETS ticks, also after the
\* counters have wrapped.
WindowExact ==
  \A c \in Counters, i \in Slots : buckets[c][(idx + i) % LED_BUCKETS] = recent[c][i]

\* The blue level of the last tick.
LastBlue == IF steady = 0 THEN 0 ELSE blues[steady]

\* Green shows the frames received in the last second and red the frames sent: what
\* reaches the LED is the level of what the bus really carried, across counter wraps
\* and after a failed transmission, and it goes dark a second after the last frame.
\* The blue byte is the level that BlueTells is about.
ActivityShown ==
  strip # Garbled =>
    /\ Colour(strip).green = level_from_count(Total(recent["rx"]))
    /\ Colour(strip).red = level_from_count(Total(recent["tx"]))
    /\ Colour(strip).blue = LastBlue

\* A status that lasts a whole window is told apart by blue: lit in all ticks but one
\* with a client, in one with WiFi or the access point, in none while connecting.
BlueTells ==
  steady = LED_BUCKETS =>
    LET lit == {i \in DOMAIN blues : blues[i] = STATUS_BLUE} IN
    CASE status = "client"     -> \E i \in DOMAIN blues : lit = DOMAIN blues \ {i}
      [] status = "ready"      -> \E i \in DOMAIN blues : lit = {i}
      [] status = "connecting" -> lit = {}

-----------------------------------------------------------------------------
\* The inductive invariant of ActivityLedProofs.  The counters differ by what the
\* window has not seen yet, up to one wrap; the ring and the history agree slot by
\* slot and so in their sums; the LED has what the last tick made of them; and each
\* blue level is the one of its tick, counted back from the next.
TypeOK ==
  /\ CONFIG_MODE \in BOOLEAN /\ WIFI_CONNECTED \in BOOLEAN /\ TCP_CLIENTS \in BOOLEAN
  /\ count \in [Counters -> 0..CounterMod - 1] /\ last \in [Counters -> 0..CounterMod - 1]
  /\ buckets \in [Counters -> [Slots -> Nat]] /\ recent \in [Counters -> [Slots -> Nat]]
  /\ idx \in Slots
  /\ pending \in [Counters -> Nat] /\ pending["rx"] + pending["tx"] <= MaxPerTick
  /\ status \in {"none", "client", "ready", "connecting"}
  /\ steady \in 0..LED_BUCKETS /\ (status = "none" => steady = 0)
  /\ blues \in Seq({0, STATUS_BLUE}) /\ Len(blues) = steady
CountsApart ==
  \A c \in Counters : count[c] - last[c] \in {pending[c], pending[c] - CounterMod}
SameTotals == \A c \in Counters : Total(buckets[c]) = Total(recent[c])
Shown ==
  strip = Garbled \/ strip = Pulses(level_from_count(Total(recent["tx"])),
                                    level_from_count(Total(recent["rx"])), LastBlue)
SlotBefore(slot, ticks) ==
  IF ticks <= slot THEN slot - ticks ELSE slot - ticks + LED_BUCKETS
BlueOf(st, slot) ==
  IF st = "connecting" THEN 0 ELSE IF (st = "client") = (slot = 0) THEN 0 ELSE STATUS_BLUE
BluesExact ==
  \A j \in 1..steady : blues[j] = BlueOf(status, SlotBefore(idx, steady + 1 - j))
Inv == TypeOK /\ CountsApart /\ WindowExact /\ SameTotals /\ Shown /\ BluesExact
=============================================================================
