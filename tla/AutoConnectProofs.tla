-------------------------- MODULE AutoConnectProofs --------------------------
(***************************************************************************)
(* The pin, the token and the mismatch pause of AutoConnect, for every set *)
(* of keys and of configurations.                                          *)
(***************************************************************************)
EXTENDS AutoConnect, TLAPS

\* The configuration has the fields that parse_url and parse_pubkey look at.
LEMMA ConfigFields ==
  ASSUME NEW c \in Configs
  PROVE  /\ c.enable \in BOOLEAN /\ c.present \in BOOLEAN
         /\ c.url.scheme \in {"tcp", "tls", "other"}
         /\ c.url.authority \in BOOLEAN /\ c.url.token \in BOOLEAN
         /\ c.url.pubkey \in Keys \cup {NoKey, BadKey}
BY ConfigsAssumption DEF Urls

\* A key accepted under a pin is the pinned key.
LEMMA AcceptedKey ==
  ASSUME NEW pin, NEW key, KeyAccepted(pin, key), pin # NoKey
  PROVE  key = pin /\ key # NoKey
BY DEF KeyAccepted

\* main leaves the task in a state that satisfies the invariant.
LEMMA InitInv == Init => Inv
<1> SUFFICES ASSUME Init PROVE Inv
  OBVIOUS
<1>1. TypeOK
  BY DEF Init, TypeOK, States, PcSet, Pauses
<1>2. QED
  BY <1>1 DEF Init, Inv, Vetted, Attempt, KeyChecked, PinnedSession, TokenGuarded,
              MismatchExact, Handshaking, PIN_MISMATCH_BACKOFF_S

\* Every step of the task, the web page, WiFi and the power keeps the invariant.
LEMMA InvStep == Inv /\ [Next]_vars => Inv'
<1> SUFFICES ASSUME Inv, [Next]_vars PROVE Inv'
  OBVIOUS
<1> USE DEF Inv, shared, verifier, history
<1>c. cfg.url.token \in BOOLEAN /\ AUTOCONNECT_CONFIG.url.token \in BOOLEAN
  BY ConfigFields DEF TypeOK
<1>1. CASE Top
  <2>1. TypeOK'
    BY <1>1 DEF Top, Rest, StartAttempt, TypeOK, States, PcSet, Handshaking, Pauses
  <2>2. Vetted' /\ KeyChecked' /\ PinnedSession' /\ TokenGuarded'
    BY <1>1 DEF Top, Rest, StartAttempt, Vetted, KeyChecked, PinnedSession,
                TokenGuarded, url
  <2>3. Attempt' /\ MismatchExact'
    BY <1>1 DEF Top, Rest, StartAttempt, Attempt, MismatchExact, Handshaking,
                PIN_MISMATCH_BACKOFF_S
  <2>4. QED
    BY <2>1, <2>2, <2>3
<1>2. CASE Resolve
  <2>1. TypeOK'
    BY <1>2 DEF Resolve, Rest, TypeOK, States, PcSet, Handshaking, Pauses
  <2>2. Vetted' /\ Attempt' /\ KeyChecked'
    BY <1>2 DEF Resolve, Rest, Vetted, Attempt, KeyChecked, Handshaking, url
  <2>3. PinnedSession' /\ TokenGuarded' /\ MismatchExact'
    BY <1>2 DEF Resolve, Rest, Attempt, PinnedSession, TokenGuarded, MismatchExact,
                Handshaking, PIN_MISMATCH_BACKOFF_S, url
  <2>4. QED
    BY <2>1, <2>2, <2>3
<1>3. CASE Connect
  <2>t. token_sent' \in BOOLEAN
    BY <1>3, <1>c, Zenon DEF Connect, SessionOpen, TypeOK, url
  <2>1. TypeOK'
    BY <1>3, <2>t DEF Connect, Rest, SessionOpen, TypeOK, States, PcSet, Handshaking,
                      Pauses
  <2>2. Vetted' /\ Attempt' /\ KeyChecked'
    <3>1. Vetted' /\ KeyChecked'
      BY <1>3 DEF Connect, Rest, SessionOpen, Vetted, KeyChecked, url
    <3>2. \/ pc' \notin Handshaking
          \/ UNCHANGED <<AUTOCONNECT_STATE, mismatch, token_sent>>
      BY <1>3 DEF Connect, Rest, SessionOpen, Handshaking
    <3>3. Attempt'
      BY <1>3, <3>2 DEF Connect, Attempt, Handshaking
    <3>4. QED
      BY <3>1, <3>3
  <2>a. Enabled(cfg) /\ ~token_sent /\ (url.scheme = "tcp" => url.pubkey = NoKey)
    BY <1>3 DEF Connect, Vetted, Attempt, PinOk, Handshaking
  <2>b. cfg' = cfg /\ url' = url
    BY <1>3 DEF Connect, url
  <2>c. pc' = "session" \/ token_sent' # token_sent => url.scheme = "tcp"
    BY <1>3 DEF Connect, Rest
  <2>3. PinnedSession' /\ TokenGuarded'
    BY <2>a, <2>b, <2>c DEF PinnedSession, TokenGuarded
  <2>4. MismatchExact'
    BY <1>3 DEF Connect, Rest, SessionOpen, Attempt, MismatchExact, Handshaking,
                PIN_MISMATCH_BACKOFF_S
  <2>5. QED
    BY <2>1, <2>2, <2>3, <2>4
<1>4. CASE HandshakeError
  BY <1>4 DEF HandshakeError, OpenFailed, TypeOK, States, PcSet, Vetted, Attempt,
              KeyChecked, PinnedSession, TokenGuarded, MismatchExact, Handshaking, url
<1>5. ASSUME NEW k \in Keys \cup {NoKey}, VerifyCertificate(k) PROVE Inv'
  <2>1. TypeOK'
    BY <1>5 DEF VerifyCertificate, TypeOK, PcSet, Handshaking
  <2>2. QED
    BY <1>5, <2>1 DEF VerifyCertificate, Vetted, Attempt, KeyChecked, PinnedSession,
                      TokenGuarded, MismatchExact, Handshaking, url
<1>6. ASSUME NEW valid \in BOOLEAN, VerifySignature(valid) PROVE Inv'
  <2> DEFINE accepted == KeyAccepted(url.pubkey, server_key)
             refused == server_key # NoKey /\ ~accepted
  <2>1. CASE accepted /\ (server_key = NoKey \/ valid)
    <3>1. /\ pc = "verify" /\ pc' = "finish"
          /\ UNCHANGED <<shared, AUTOCONNECT_STATE, SERVER_PUBKEY, cfg, pause,
                         server_key, token_sent>>
          /\ proved' = (server_key # NoKey) /\ mismatch' = FALSE
      BY <1>6, <2>1 DEF VerifySignature
    <3>2. TypeOK'
      BY <3>1 DEF TypeOK, PcSet, Handshaking
    <3>3. KeyChecked'
      BY <2>1, <3>1 DEF KeyChecked, KeyAccepted, url
    <3>4. QED
      BY <3>1, <3>2, <3>3 DEF Vetted, Attempt, PinnedSession, TokenGuarded,
                              MismatchExact, Handshaking, url
  <2>2. CASE ~(accepted /\ (server_key = NoKey \/ valid))
    <3>1. /\ pc = "verify" /\ pc' = "closing"
          /\ UNCHANGED <<shared, SERVER_PUBKEY, cfg, pause, verifier, token_sent>>
          /\ mismatch' = refused
          /\ AUTOCONNECT_STATE' = IF refused THEN "PIN_MISMATCH" ELSE "TLS_FAIL"
      BY <1>6, <2>2 DEF VerifySignature, OpenFailed, Attempt, Handshaking
    <3>2. mismatch' \in BOOLEAN
      BY <3>1, Zenon
    <3>3. TypeOK'
      BY <3>1, <3>2 DEF TypeOK, PcSet, Handshaking, States
    <3>4. QED
      BY <3>1, <3>3 DEF Vetted, Attempt, KeyChecked, PinnedSession, TokenGuarded,
                        MismatchExact, Handshaking, url
  <2>3. QED
    BY <2>1, <2>2
<1>7. CASE Opened
  <2>1. TypeOK'
    BY <1>7, <1>c DEF Opened, SessionOpen, TypeOK, States, PcSet, Handshaking, url
  <2>2. url.pubkey # NoKey => url.scheme = "tls" /\ server_key = url.pubkey /\ proved
    BY <1>7, AcceptedKey DEF Opened, KeyChecked, Vetted, PinOk
  <2>3. QED
    BY <1>7, <2>1, <2>2 DEF Opened, SessionOpen, Vetted, Attempt, KeyChecked,
       PinnedSession, TokenGuarded, MismatchExact, Handshaking, url
<1>8. CASE Backoff
  <2>1. TypeOK'
    BY <1>8 DEF Backoff, Rest, TypeOK, States, PcSet, Handshaking, Pauses
  <2>2. QED
    BY <1>8, <2>1 DEF Backoff, Rest, Vetted, Attempt, KeyChecked, PinnedSession,
       TokenGuarded, MismatchExact, Handshaking, PIN_MISMATCH_BACKOFF_S, url
<1>9. CASE Wake
  BY <1>9 DEF Wake, TypeOK, PcSet, Vetted, Attempt, KeyChecked, PinnedSession,
              TokenGuarded, MismatchExact, Handshaking, url
<1>10. CASE SessionEnd
  BY <1>10 DEF SessionEnd, TypeOK, PcSet, Vetted, Attempt, KeyChecked, PinnedSession,
               TokenGuarded, MismatchExact, Handshaking, url
<1>11. CASE WifiChange
  <2>1. TypeOK'
    BY <1>11 DEF WifiChange, TypeOK
  <2>2. QED
    BY <1>11, <2>1 DEF WifiChange, Vetted, Attempt, KeyChecked, PinnedSession,
                       TokenGuarded, MismatchExact, Handshaking, url
<1>12. CASE Reboot
  <2>1. TypeOK'
    BY <1>12 DEF Reboot, TypeOK, States, PcSet, Pauses
  <2>2. QED
    BY <1>12, <2>1 DEF Reboot, Vetted, Attempt, KeyChecked, PinnedSession,
       TokenGuarded, MismatchExact, Handshaking, PIN_MISMATCH_BACKOFF_S, url
<1>13. ASSUME NEW c \in Configs, SaveAutoconnect(c) PROVE Inv'
  <2>1. TypeOK'
    BY <1>13 DEF SaveAutoconnect, TypeOK
  <2>2. QED
    BY <1>13, <2>1 DEF SaveAutoconnect, Vetted, Attempt, KeyChecked, PinnedSession,
                       TokenGuarded, MismatchExact, Handshaking, url
<1>14. CASE UNCHANGED vars
  BY <1>14 DEF vars, TypeOK, Vetted, Attempt, KeyChecked, PinnedSession,
               TokenGuarded, MismatchExact, Handshaking, url
<1>15. QED
  BY <1>1, <1>2, <1>3, <1>4, <1>5, <1>6, <1>7, <1>8, <1>9, <1>10, <1>11, <1>12,
     <1>13, <1>14 DEF Next, Task

\* The invariant holds in every reachable state, over reboots, configuration changes
\* and servers with any keys.
THEOREM Invariance == Spec => []Inv
BY InitInv, InvStep, PTL DEF Spec

\* Every variable keeps its type, over reboots and changed configurations.
THEOREM TypeCorrectness == Spec => []TypeOK
<1>1. Inv => TypeOK
  BY DEF Inv
<1>2. QED
  BY Invariance, <1>1, PTL

\* autoconnect_task runs a session under a pin only with the holder of the
\* pinned key, whatever the servers of earlier attempts showed.
THEOREM PinHolds == Spec => []PinnedSession
<1>1. Inv => PinnedSession
  BY DEF Inv
<1>2. QED
  BY Invariance, <1>1, PTL

\* send_token sends the token only over such a session, or where no pin is set.
THEOREM TokenSafety == Spec => []TokenGuarded
<1>1. Inv => TokenGuarded
  BY DEF Inv
<1>2. QED
  BY Invariance, <1>1, PTL

\* The latched PIN_MISMATCH state and its 90 s pause belong to the attempt that was
\* refused and to no other.
THEOREM MismatchSafety == Spec => []MismatchExact
<1>1. Inv => MismatchExact
  BY DEF Inv
<1>2. QED
  BY Invariance, <1>1, PTL
=============================================================================
