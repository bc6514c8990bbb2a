----------------------------- MODULE CanChannel -----------------------------
(***************************************************************************)
(* What the shared CAN channel promises its users, without saying how: a   *)
(* set of SLCAN ports, each of which opens and closes by itself, over one  *)
(* controller.  The controller is on the bus exactly while some port is    *)
(* open, runs at the bitrate configured when it was started, and the       *)
(* bitrate can be changed only while every port is closed.                 *)
(*                                                                         *)
(* CanBridge implements this with a counter and per-task flags.            *)
(***************************************************************************)
EXTENDS Naturals

CONSTANTS Ports,      \* the SLCAN ports
          BitRates,   \* bitrates that may be configured, in kbit/s
          DefaultRate \* the bitrate in force before any is configured

VARIABLES opened,     \* the ports that are open
          rate,       \* the configured bitrate
          bus         \* the controller: its mode and bitrate, or "off"

cvars == <<opened, rate, bus>>

Modes == {"normal", "listen"}

ChannelInit ==
  /\ opened = {}
  /\ rate = DefaultRate
  /\ bus = [mode |-> "off", rate |-> 0]

\* Port p opens.  Only the first port to open decides the mode.
OpenPort(p, m) ==
  /\ p \notin opened
  /\ opened' = opened \cup {p}
  /\ bus' = IF opened = {} THEN [mode |-> m, rate |-> rate] ELSE bus
  /\ UNCHANGED rate

\* Port p closes; the last one takes the controller off the bus.
ClosePort(p) ==
  /\ p \in opened
  /\ opened' = opened \ {p}
  /\ bus' = IF opened = {p} THEN [mode |-> "off", rate |-> 0] ELSE bus
  /\ UNCHANGED rate

\* The bitrate is configured while no port is open.
SetRate(r) ==
  /\ opened = {}
  /\ rate' = r
  /\ UNCHANGED <<opened, bus>>

ChannelNext ==
  \/ \E p \in Ports : \/ \E m \in Modes : OpenPort(p, m)
                      \/ ClosePort(p)
  \/ \E r \in BitRates : SetRate(r)

ChannelSpec == ChannelInit /\ [][ChannelNext]_cvars
=============================================================================
