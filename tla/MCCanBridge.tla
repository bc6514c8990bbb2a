----------------------------- MODULE MCCanBridge -----------------------------
(***************************************************************************)
(* Instances of CanBridge for TLC.                                         *)
(***************************************************************************)
EXTENDS CanBridge

Line(op) == [op |-> op, d |-> 0]
S(digit) == [op |-> "S", d |-> digit]

\* Opening in either mode, closing, and moving away from the default bitrate.
ChannelCommands == {Line("O"), Line("L"), Line("C"), S(2)}

\* Lines that change the shared manager, the session's own flags or the counters,
\* accepted and refused.
LineCommands == {Line("O"), Line("txgood"), Line("txbad"), Line("Z1")}

\* What the frame-flow runs need.
FlowCommands == {Line("O"), Line("C"), Line("query")}

\* Ports that ask for different modes.
ModeCommands == {Line("O"), Line("L")}
=============================================================================
