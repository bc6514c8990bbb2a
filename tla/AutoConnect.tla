----------------------------- MODULE AutoConnect -----------------------------
(***************************************************************************)
(* The outbound link of autoconnect.rs: autoconnect_task dials the server  *)
(* of the configured URL, opens TLS with the PinnedVerifier, sends the     *)
(* token, runs the SLCAN port and reconnects after a pause, while the web  *)
(* page changes the configuration, WiFi comes and goes and the device      *)
(* reboots.  The port itself is CanBridge; here a session only lasts until *)
(* its link ends.                                                          *)
(*                                                                         *)
(* A URL is abstracted to what parse_url and parse_pubkey tell apart; a    *)
(* P-256 key is a model value; a server is the key its certificate shows   *)
(* and whether its CertificateVerify signature validates under that key.   *)
(***************************************************************************)
EXTENDS Naturals

CONSTANTS
  Keys,     \* public keys a certificate may carry or a pin may name
  NoKey,    \* no P-256 key in the certificate; no key seen yet; no pin
  BadKey,   \* a pubkey= that parse_pubkey rejects
  Configs   \* the configurations considered

Urls == [scheme : {"tcp", "tls", "other"}, authority : BOOLEAN,
         pubkey : Keys \cup {NoKey, BadKey}, token : BOOLEAN]

ASSUME KeysAssumption ==
  NoKey \notin Keys /\ BadKey \notin Keys /\ NoKey # BadKey
ASSUME ConfigsAssumption ==
  Configs \subseteq [enable : BOOLEAN, present : BOOLEAN, url : Urls]

\* Seconds of each Timer::after in autoconnect_task.
PIN_MISMATCH_BACKOFF_S == 90
Pauses == {3, 5, 30, PIN_MISMATCH_BACKOFF_S}

States == {"DISABLED", "CONNECTING", "CONNECTED", "DNS_FAIL", "TCP_FAIL",
           "TLS_FAIL", "BAD_CONFIG", "PIN_MISMATCH"}

VARIABLES
  AUTOCONNECT_CONFIG, \* the shared configuration in RAM
  flash,              \* the configuration in flash
  rebooting,          \* a handler has saved and waits 800 ms to reset the chip
  WIFI_CONNECTED,
  AUTOCONNECT_STATE,
  SERVER_PUBKEY,      \* key of the last TLS server, for the web page
  pc,
  cfg,                \* the task's copy of the configuration
  pause,              \* the pause being slept, in seconds
  server_key,         \* PinnedVerifier.server_key
  proved,             \* verify_signature accepted the server's signature
  mismatch,           \* (history) this attempt was refused by the pin
  token_sent          \* (history) the token went out on this connection

shared == <<AUTOCONNECT_CONFIG, flash, rebooting, WIFI_CONNECTED>>
verifier == <<server_key, proved>>
history == <<mismatch, token_sent>>
vars == <<shared, AUTOCONNECT_STATE, SERVER_PUBKEY, pc, cfg, pause, verifier,
          history>>

url == cfg.url

-----------------------------------------------------------------------------
(* The configuration. *)

Enabled(c) == c.enable /\ c.present

\* parse_url returns a URL.
UrlOk(u) == u.scheme \in {"tls", "tcp"} /\ u.authority

\* Bug: a pin on a tcp:// URL is let through.
PinOkAnyScheme(u) == u.pubkey # BadKey

\* pubkey, if present, must be valid and used over TLS.
PinOk(u) == u.pubkey = NoKey \/ (u.pubkey # BadKey /\ u.scheme = "tls")

\* The statics and the task's locals as main leaves them.
Init ==
  /\ flash \in Configs
  /\ AUTOCONNECT_CONFIG = flash /\ cfg = flash
  /\ rebooting = FALSE /\ WIFI_CONNECTED = FALSE
  /\ AUTOCONNECT_STATE = "DISABLED" /\ SERVER_PUBKEY = NoKey
  /\ pc = "top" /\ pause = 3
  /\ server_key = NoKey /\ proved = FALSE
  /\ mismatch = FALSE /\ token_sent = FALSE

-----------------------------------------------------------------------------
(* The surroundings. *)

\* http.rs:save_autoconnect.  RAM follows the form whether or not the flash write
\* works; a reset follows only if it does.
SaveAutoconnect(c) ==
  /\ ~rebooting
  /\ \E saved \in BOOLEAN : /\ flash' = IF saved THEN c ELSE flash
                            /\ rebooting' = saved
  /\ AUTOCONNECT_CONFIG' = c
  /\ UNCHANGED <<WIFI_CONNECTED, AUTOCONNECT_STATE, SERVER_PUBKEY, pc, cfg, pause,
                 verifier, history>>

\* software_reset, or power lost at any moment.
Reboot ==
  /\ UNCHANGED flash
  /\ AUTOCONNECT_CONFIG' = flash /\ cfg' = flash
  /\ rebooting' = FALSE /\ WIFI_CONNECTED' = FALSE
  /\ AUTOCONNECT_STATE' = "DISABLED" /\ SERVER_PUBKEY' = NoKey
  /\ pc' = "top" /\ pause' = 3
  /\ server_key' = NoKey /\ proved' = FALSE
  /\ mismatch' = FALSE /\ token_sent' = FALSE

\* main.rs:connection_task.
WifiChange ==
  /\ WIFI_CONNECTED' = ~WIFI_CONNECTED
  /\ UNCHANGED <<AUTOCONNECT_CONFIG, flash, rebooting, AUTOCONNECT_STATE,
                 SERVER_PUBKEY, pc, cfg, pause, verifier, history>>

-----------------------------------------------------------------------------
(* autoconnect_task. *)

\* Sleep s seconds, then start over; st is the state shown meanwhile.
Rest(st, s) ==
  /\ AUTOCONNECT_STATE' = st
  /\ pause' = s
  /\ pc' = "sleep"

\* Bug: an attempt starts without set_state(CONNECTING).
StartAttemptSilently ==
  pc' = "resolve" /\ UNCHANGED <<AUTOCONNECT_STATE, pause>>

StartAttempt ==
  AUTOCONNECT_STATE' = "CONNECTING" /\ pc' = "resolve" /\ UNCHANGED pause

\* The top of the loop, up to the first wait.
Top ==
  /\ pc = "top"
  /\ cfg' = AUTOCONNECT_CONFIG
  /\ LET c == AUTOCONNECT_CONFIG IN
       \/ /\ ~Enabled(c)
          /\ Rest("DISABLED", 3)
       \/ /\ Enabled(c) /\ ~WIFI_CONNECTED
          /\ Rest(AUTOCONNECT_STATE, 3)
       \/ /\ Enabled(c) /\ WIFI_CONNECTED /\ ~(UrlOk(c.url) /\ PinOk(c.url))
          /\ Rest("BAD_CONFIG", 30)
       \/ /\ Enabled(c) /\ WIFI_CONNECTED /\ UrlOk(c.url) /\ PinOk(c.url)
          /\ StartAttempt
  /\ mismatch' = FALSE /\ token_sent' = FALSE
  /\ UNCHANGED <<shared, SERVER_PUBKEY, verifier>>

\* resolve
Resolve ==
  /\ pc = "resolve"
  /\ \/ pc' = "connect" /\ UNCHANGED <<AUTOCONNECT_STATE, pause>>
     \/ Rest("DNS_FAIL", 5)
  /\ UNCHANGED <<shared, SERVER_PUBKEY, cfg, verifier, history>>

\* CONNECTED, then send_token on the open link.
SessionOpen ==
  /\ AUTOCONNECT_STATE' = "CONNECTED"
  /\ pc' = "session"
  /\ token_sent' = url.token
  /\ UNCHANGED pause

\* socket.connect; over TLS a new PinnedProvider follows.
Connect ==
  /\ pc = "connect"
  /\ \/ Rest("TCP_FAIL", 5) /\ UNCHANGED <<verifier, token_sent>>
     \/ /\ url.scheme = "tls"
        /\ pc' = "certificate"
        /\ server_key' = NoKey /\ proved' = FALSE
        /\ UNCHANGED <<AUTOCONNECT_STATE, pause, token_sent>>
     \/ url.scheme = "tcp" /\ SessionOpen /\ UNCHANGED verifier
  /\ UNCHANGED <<shared, SERVER_PUBKEY, cfg, mismatch>>

\* tls.open returned an error: PIN_MISMATCH is kept, anything else is TLS_FAIL.
OpenFailed(st) ==
  /\ AUTOCONNECT_STATE' = IF st # "PIN_MISMATCH" THEN "TLS_FAIL" ELSE st
  /\ pc' = "closing"

\* Any other failure of the handshake, 300 s of silence included.
HandshakeError ==
  /\ pc \in {"certificate", "verify", "finish"}
  /\ OpenFailed(AUTOCONNECT_STATE)
  /\ UNCHANGED <<shared, SERVER_PUBKEY, cfg, pause, verifier, history>>

\* PinnedVerifier::verify_certificate: the server shows key k, or none.
VerifyCertificate(k) ==
  /\ pc = "certificate"
  /\ server_key' = k
  /\ SERVER_PUBKEY' = k
  /\ pc' = "verify"
  /\ UNCHANGED <<shared, AUTOCONNECT_STATE, cfg, pause, proved, history>>

\* Bug: a certificate without a readable key passes although a pin is set.
KeyAcceptedUnread(pin, key) == key = NoKey \/ pin = NoKey \/ pin = key

\* The key part of PinnedVerifier::verify_signature.
KeyAccepted(pin, key) == IF key = NoKey THEN pin = NoKey ELSE pin \in {NoKey, key}

\* PinnedVerifier::verify_signature; valid says whether the signature validates
\* under server_key (by ECDSA P-256 with SHA-256, and no other scheme).
VerifySignature(valid) ==
  /\ pc = "verify"
  /\ LET pin == url.pubkey
         refused == server_key # NoKey /\ ~KeyAccepted(pin, server_key) IN
       /\ mismatch' = refused
       /\ IF KeyAccepted(pin, server_key) /\ (server_key = NoKey \/ valid)
          THEN /\ proved' = (server_key # NoKey)
               /\ pc' = "finish" /\ UNCHANGED AUTOCONNECT_STATE
          ELSE /\ OpenFailed(IF refused THEN "PIN_MISMATCH" ELSE AUTOCONNECT_STATE)
               /\ UNCHANGED proved
  /\ UNCHANGED <<shared, SERVER_PUBKEY, cfg, pause, server_key, token_sent>>

\* tls.open returned Ok.
Opened ==
  /\ pc = "finish"
  /\ SessionOpen
  /\ UNCHANGED <<shared, SERVER_PUBKEY, cfg, verifier, mismatch>>

\* run_port returned: the link reported EOF or an error.
SessionEnd ==
  /\ pc = "session"
  /\ pc' = "closing"
  /\ UNCHANGED <<shared, AUTOCONNECT_STATE, SERVER_PUBKEY, cfg, pause, verifier,
                 history>>

\* Bug: milliseconds where seconds are meant.
BackoffMillis ==
  /\ pc = "closing"
  /\ Rest(AUTOCONNECT_STATE, 3000)
  /\ UNCHANGED <<shared, SERVER_PUBKEY, cfg, verifier, history>>

\* The connection is closed; the state decides how long to back off.
Backoff ==
  /\ pc = "closing"
  /\ Rest(AUTOCONNECT_STATE,
          IF AUTOCONNECT_STATE = "PIN_MISMATCH" THEN PIN_MISMATCH_BACKOFF_S ELSE 3)
  /\ UNCHANGED <<shared, SERVER_PUBKEY, cfg, verifier, history>>

\* Bug: the task ends instead of starting over.
WakeNever == FALSE /\ UNCHANGED vars

Wake ==
  /\ pc = "sleep"
  /\ pc' = "top"
  /\ UNCHANGED <<shared, AUTOCONNECT_STATE, SERVER_PUBKEY, cfg, pause, verifier,
                 history>>

\* What the task does by itself; a session ends only when its peer or the
\* network ends it.
Task ==
  \/ Top \/ Resolve \/ Connect \/ HandshakeError
  \/ \E k \in Keys \cup {NoKey} : VerifyCertificate(k)
  \/ \E valid \in BOOLEAN : VerifySignature(valid)
  \/ Opened \/ Backoff \/ Wake

Next ==
  \/ Task
  \/ SessionEnd
  \/ WifiChange
  \/ Reboot
  \/ \E c \in Configs : SaveAutoconnect(c)

Spec == Init /\ [][Next]_vars

\* The task's waits all end: DNS, connect and handshake by their timeouts, pauses
\* by their timers.  Without WiFi a session's socket times out.
FairSpec ==
  /\ Spec
  /\ WF_vars(Task)
  /\ WF_vars(SessionEnd /\ ~WIFI_CONNECTED)

-----------------------------------------------------------------------------
(* Properties. *)

Handshaking == {"resolve", "connect", "certificate", "verify", "finish"}
PcSet == Handshaking \cup {"top", "sleep", "session", "closing"}

\* Every variable keeps the type of the static or local it models.
TypeOK ==
  /\ AUTOCONNECT_CONFIG \in Configs /\ flash \in Configs /\ cfg \in Configs
  /\ rebooting \in BOOLEAN /\ WIFI_CONNECTED \in BOOLEAN
  /\ AUTOCONNECT_STATE \in States
  /\ SERVER_PUBKEY \in Keys \cup {NoKey} /\ server_key \in Keys \cup {NoKey}
  /\ pc \in PcSet
  /\ pause \in Pauses
  /\ proved \in BOOLEAN /\ mismatch \in BOOLEAN /\ token_sent \in BOOLEAN

\* A pinned configuration runs a session only over TLS with a server that showed
\* the pinned key and proved that it holds it, whatever the servers of earlier
\* attempts showed.
PinnedSession ==
  pc = "session" /\ url.pubkey # NoKey
    => url.scheme = "tls" /\ server_key = url.pubkey /\ proved

\* The token leaves the device only on such a session, or where no pin is set.
TokenGuarded ==
  token_sent => Enabled(cfg) /\ (url.pubkey = NoKey \/ (server_key = url.pubkey /\ proved))

\* PIN_MISMATCH and its 90 s pause appear exactly when the pin refused a key in
\* this attempt: the flag left by an earlier attempt is never taken for a new one.
MismatchExact ==
  /\ pc \in Handshaking \cup {"session", "closing"}
       => (AUTOCONNECT_STATE = "PIN_MISMATCH" <=> mismatch)
  /\ pc = "sleep" => (mismatch <=> pause = PIN_MISMATCH_BACKOFF_S)

\* The inductive invariant of AutoConnectProofs: what each stage of an attempt has
\* established.
Vetted ==
  pc \notin {"top", "sleep"} => Enabled(cfg) /\ UrlOk(url) /\ PinOk(url)
Attempt ==
  pc \in Handshaking
    => AUTOCONNECT_STATE = "CONNECTING" /\ ~mismatch /\ ~token_sent
KeyChecked ==
  pc = "finish" => KeyAccepted(url.pubkey, server_key) /\ proved = (server_key # NoKey)
Inv == /\ TypeOK /\ Vetted /\ Attempt /\ KeyChecked
       /\ PinnedSession /\ TokenGuarded /\ MismatchExact

\* While the configuration is good and WiFi is there, the link is always tried
\* again: "it reconnects automatically".
Dialable == /\ WIFI_CONNECTED /\ Enabled(AUTOCONNECT_CONFIG)
            /\ UrlOk(AUTOCONNECT_CONFIG.url) /\ PinOk(AUTOCONNECT_CONFIG.url)
AlwaysRedials == <>[](Dialable /\ ~rebooting) => []<>(pc \in {"resolve", "session"})

\* "shows a live status" (README): a status of "connected" goes away after the
\* session has.
LiveStatus == (AUTOCONNECT_STATE = "CONNECTED") ~> (AUTOCONNECT_STATE # "CONNECTED" \/ pc = "session")
=============================================================================
