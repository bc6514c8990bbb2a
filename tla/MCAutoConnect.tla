---------------------------- MODULE MCAutoConnect ----------------------------
(***************************************************************************)
(* Instances of AutoConnect for TLC.                                       *)
(***************************************************************************)
EXTENDS AutoConnect

CONSTANTS k1, k2

Config(scheme, pubkey) ==
  [enable |-> TRUE, present |-> TRUE,
   url |-> [scheme |-> scheme, authority |-> TRUE, pubkey |-> pubkey, token |-> TRUE]]

\* Off, plain TCP, TLS without and with a pin, and every way a URL or pin is misused.
PinConfigs ==
  {[Config("tls", k1) EXCEPT !.enable = FALSE],
   Config("tcp", NoKey), Config("tls", NoKey), Config("tls", k1),
   Config("tcp", k1), Config("tls", BadKey), Config("other", NoKey)}

\* The two good ones.
LinkConfigs == {Config("tls", k1), Config("tcp", NoKey)}
=============================================================================
