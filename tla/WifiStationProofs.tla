-------------------------- MODULE WifiStationProofs --------------------------
(***************************************************************************)
(* Theorems about WifiStation, for any addresses and any mDNS packets.     *)
(***************************************************************************)
EXTENDS WifiStation, TLAPS, SequenceTheorems

\* A 16-bit class is IN, with or without the unicast flag.
LEMMA ClassIn ==
  ASSUME NEW n \in Nat, n < 65536, n % 32768 = 1
  PROVE  n = 1 \/ n = 32769
  OBVIOUS

\* build_response answers questions for the device's name only: the label walk leaves
\* no label over, and of the class only the unicast flag is ignored.
LEMMA RespondsToUs ==
  ASSUME NEW q \in Queries, Responds(q)
  PROVE  AsksForUs(q)
<1>1. q \in Packets
  BY QueryAssumption
<1>2. q.labels \in Names /\ q.qclass \in Words
  BY <1>1 DEF Packets
<1>3. q.labels = <<Host, Local>>
  <2>2. PICK l \in Names : l = q.labels
    BY <1>2
  <2>1. Len(l) = 2 /\ l[1] = Host /\ l[2] = Local
    <3>1. /\ Len(l) = 2
          /\ \A idx \in DOMAIN l : l[idx] = <<Host, Local>>[idx]
      BY <2>2 DEF Responds, NameMatches, matches, expected
    <3>2. DOMAIN l = 1..2
      BY <3>1 DEF Names
    <3>3. QED
      BY <3>1, <3>2
  <2>3. l = <<Host, Local>>
    BY <2>1 DEF Names
  <2>4. QED
    BY <2>2, <2>3
<1>4. q.qclass \in {1, 32769}
  <2>1. q.qclass % 32768 = 1
    BY DEF Responds
  <2>2. q.qclass \in Nat /\ q.qclass < 65536
    BY <1>2 DEF Words
  <2>3. QED
    BY <2>1, <2>2, ClassIn
<1>5. QED
  BY <1>3, <1>4 DEF Responds, AsksForUs

\* main starts outside of the station, with no address and no answer.
LEMMA InitInv == Init => Inv
<1> SUFFICES ASSUME Init PROVE Inv
  OBVIOUS
<1> USE DEF Init
<1>1. TypeOK
  BY DEF TypeOK
<1>2. WifiTold /\ DropNoticed /\ TaskKeepsOn /\ AccessPointQuiet
  BY DEF WifiTold, DropNoticed, TaskKeepsOn, AccessPointQuiet
<1>3. OneAddress /\ Answering
  BY DEF OneAddress, Answering
<1>4. QED
  BY <1>1, <1>2, <1>3 DEF Inv

\* Every step preserves the invariant.
LEMMA InvStep == Inv /\ [Next]_vars => Inv'
<1> SUFFICES ASSUME Inv, [Next]_vars PROVE Inv'
  OBVIOUS
<1> USE DEF Inv, radio, stack, responder
<1>1. CASE Associates
  <2>1. TypeOK'
    BY <1>1, AddrAssumption DEF TypeOK, Associates
  <2>2. WifiTold' /\ DropNoticed' /\ TaskKeepsOn' /\ AccessPointQuiet'
    BY <1>1 DEF TypeOK, WifiTold, DropNoticed, TaskKeepsOn, AccessPointQuiet, Associates
  <2>3. OneAddress'
    BY <1>1, AddrAssumption DEF TypeOK, OneAddress, Associates
  <2>4. Answering'
    BY <1>1, AddrAssumption DEF TypeOK, Answering, Associates
  <2>5. QED
    BY <2>1, <2>2, <2>3, <2>4
<1>2. CASE Refuses
  <2>1. TypeOK'
    BY <1>2, AddrAssumption DEF TypeOK, Refuses
  <2>2. WifiTold' /\ DropNoticed' /\ TaskKeepsOn' /\ AccessPointQuiet'
    BY <1>2 DEF TypeOK, WifiTold, DropNoticed, TaskKeepsOn, AccessPointQuiet, Refuses
  <2>3. OneAddress'
    BY <1>2, AddrAssumption DEF TypeOK, OneAddress, Refuses
  <2>4. Answering'
    BY <1>2, AddrAssumption DEF TypeOK, Answering, Refuses
  <2>5. QED
    BY <2>1, <2>2, <2>3, <2>4
<1>3. CASE LinkDrops
  <2>1. TypeOK'
    BY <1>3, AddrAssumption DEF TypeOK, LinkDrops
  <2>2. WifiTold' /\ DropNoticed' /\ TaskKeepsOn' /\ AccessPointQuiet'
    BY <1>3 DEF TypeOK, WifiTold, DropNoticed, TaskKeepsOn, AccessPointQuiet, LinkDrops
  <2>3. OneAddress'
    BY <1>3, AddrAssumption DEF TypeOK, OneAddress, LinkDrops
  <2>4. Answering'
    BY <1>3, AddrAssumption DEF TypeOK, Answering, LinkDrops
  <2>5. QED
    BY <2>1, <2>2, <2>3, <2>4
<1>4. CASE RadioStops
  <2>1. TypeOK'
    BY <1>4, AddrAssumption DEF TypeOK, RadioStops
  <2>2. WifiTold' /\ DropNoticed' /\ TaskKeepsOn' /\ AccessPointQuiet'
    BY <1>4 DEF TypeOK, WifiTold, DropNoticed, TaskKeepsOn, AccessPointQuiet, RadioStops
  <2>3. OneAddress'
    BY <1>4, AddrAssumption DEF TypeOK, OneAddress, RadioStops
  <2>4. Answering'
    BY <1>4, AddrAssumption DEF TypeOK, Answering, RadioStops
  <2>5. QED
    BY <2>1, <2>2, <2>3, <2>4
<1>5. CASE LeaseLost
  <2>1. TypeOK'
    BY <1>5, AddrAssumption DEF TypeOK, LeaseLost
  <2>2. WifiTold' /\ DropNoticed' /\ TaskKeepsOn' /\ AccessPointQuiet'
    BY <1>5 DEF TypeOK, WifiTold, DropNoticed, TaskKeepsOn, AccessPointQuiet, LeaseLost
  <2>3. OneAddress'
    BY <1>5, AddrAssumption DEF TypeOK, OneAddress, LeaseLost
  <2>4. Answering'
    BY <1>5, AddrAssumption DEF TypeOK, Answering, LeaseLost
  <2>5. QED
    BY <2>1, <2>2, <2>3, <2>4
<1>6. CASE Connect
  <2>1. TypeOK'
    BY <1>6, AddrAssumption DEF TypeOK, Connect
  <2>2. WifiTold' /\ DropNoticed' /\ TaskKeepsOn' /\ AccessPointQuiet'
    BY <1>6 DEF TypeOK, WifiTold, DropNoticed, TaskKeepsOn, AccessPointQuiet, Connect
  <2>3. OneAddress'
    BY <1>6, AddrAssumption DEF TypeOK, OneAddress, Connect
  <2>4. Answering'
    BY <1>6, AddrAssumption DEF TypeOK, Answering, Connect
  <2>5. QED
    BY <2>1, <2>2, <2>3, <2>4
<1>7. CASE ConnectOk
  <2>1. TypeOK'
    BY <1>7, AddrAssumption DEF TypeOK, ConnectOk, EventAtWait
  <2>2. WifiTold' /\ DropNoticed' /\ TaskKeepsOn' /\ AccessPointQuiet'
    BY <1>7 DEF TypeOK, WifiTold, DropNoticed, TaskKeepsOn, AccessPointQuiet, ConnectOk, EventAtWait
  <2>3. OneAddress'
    BY <1>7, AddrAssumption DEF TypeOK, OneAddress, ConnectOk, EventAtWait
  <2>4. Answering'
    BY <1>7, AddrAssumption DEF TypeOK, Answering, ConnectOk, EventAtWait
  <2>5. QED
    BY <2>1, <2>2, <2>3, <2>4
<1>8. CASE ConnectErr
  <2>1. TypeOK'
    BY <1>8, AddrAssumption DEF TypeOK, ConnectErr
  <2>2. WifiTold' /\ DropNoticed' /\ TaskKeepsOn' /\ AccessPointQuiet'
    BY <1>8 DEF TypeOK, WifiTold, DropNoticed, TaskKeepsOn, AccessPointQuiet, ConnectErr
  <2>3. OneAddress'
    BY <1>8, AddrAssumption DEF TypeOK, OneAddress, ConnectErr
  <2>4. Answering'
    BY <1>8, AddrAssumption DEF TypeOK, Answering, ConnectErr
  <2>5. QED
    BY <2>1, <2>2, <2>3, <2>4
<1>9. CASE PauseOver
  <2>1. TypeOK'
    BY <1>9, AddrAssumption DEF TypeOK, PauseOver
  <2>2. WifiTold' /\ DropNoticed' /\ TaskKeepsOn' /\ AccessPointQuiet'
    BY <1>9 DEF TypeOK, WifiTold, DropNoticed, TaskKeepsOn, AccessPointQuiet, PauseOver
  <2>3. OneAddress'
    BY <1>9, AddrAssumption DEF TypeOK, OneAddress, PauseOver
  <2>4. Answering'
    BY <1>9, AddrAssumption DEF TypeOK, Answering, PauseOver
  <2>5. QED
    BY <2>1, <2>2, <2>3, <2>4
<1>10. CASE Disconnected
  <2>1. TypeOK'
    BY <1>10, AddrAssumption DEF TypeOK, Disconnected
  <2>2. WifiTold' /\ DropNoticed' /\ TaskKeepsOn' /\ AccessPointQuiet'
    BY <1>10 DEF TypeOK, WifiTold, DropNoticed, TaskKeepsOn, AccessPointQuiet, Disconnected
  <2>3. OneAddress'
    BY <1>10, AddrAssumption DEF TypeOK, OneAddress, Disconnected
  <2>4. Answering'
    BY <1>10, AddrAssumption DEF TypeOK, Answering, Disconnected
  <2>5. QED
    BY <2>1, <2>2, <2>3, <2>4
<1>11. CASE Monitor
  <2>1. TypeOK'
    BY <1>11, AddrAssumption DEF TypeOK, Monitor
  <2>2. WifiTold' /\ DropNoticed' /\ TaskKeepsOn' /\ AccessPointQuiet'
    BY <1>11 DEF TypeOK, WifiTold, DropNoticed, TaskKeepsOn, AccessPointQuiet, Monitor
  <2>3. OneAddress'
    BY <1>11, AddrAssumption DEF TypeOK, OneAddress, Monitor
  <2>4. Answering'
    BY <1>11, AddrAssumption DEF TypeOK, Answering, Monitor
  <2>5. QED
    BY <2>1, <2>2, <2>3, <2>4
<1>12. CASE MdnsStart
  <2>1. TypeOK'
    BY <1>12, AddrAssumption DEF TypeOK, MdnsStart
  <2>2. WifiTold' /\ DropNoticed' /\ TaskKeepsOn' /\ AccessPointQuiet'
    BY <1>12 DEF TypeOK, WifiTold, DropNoticed, TaskKeepsOn, AccessPointQuiet, MdnsStart
  <2>3. OneAddress'
    BY <1>12, AddrAssumption DEF TypeOK, OneAddress, MdnsStart
  <2>4. Answering'
    BY <1>12, AddrAssumption DEF TypeOK, Answering, MdnsStart
  <2>5. QED
    BY <2>1, <2>2, <2>3, <2>4
<1>13. ASSUME NEW a \in Addrs, LeaseGranted(a) PROVE Inv'
  <2>1. TypeOK'
    BY <1>13, AddrAssumption DEF TypeOK, LeaseGranted
  <2>2. WifiTold' /\ DropNoticed' /\ TaskKeepsOn' /\ AccessPointQuiet'
    BY <1>13 DEF TypeOK, WifiTold, DropNoticed, TaskKeepsOn, AccessPointQuiet, LeaseGranted
  <2>3. OneAddress'
    BY <1>13, AddrAssumption DEF TypeOK, OneAddress, LeaseGranted
  <2>4. Answering'
    BY <1>13, AddrAssumption DEF TypeOK, Answering, LeaseGranted
  <2>5. QED
    BY <2>1, <2>2, <2>3, <2>4
<1>14. ASSUME NEW q \in Queries, MdnsQuery(q) PROVE Inv'
  <2>1. mdns = "serve" /\ our_ip # NoAddr /\ our_ip \in Addrs
    BY <1>14 DEF MdnsQuery, Answering, TypeOK
  <2>2. CASE Responds(q)
    <3>1. answer' = [ip |-> our_ip, to |-> q]
      BY <1>14, <2>2 DEF MdnsQuery
    <3>2. answer' \in [ip : Addrs, to : Queries] /\ answer'.ip = our_ip /\ answer'.to = q
      BY <2>1, <3>1
    <3>3. AsksForUs(q)
      BY <2>2, RespondsToUs
    <3>4. TypeOK'
      BY <1>14, <3>2 DEF TypeOK, MdnsQuery
    <3>5. Answering'
      BY <1>14, <2>1, <3>2, <3>3 DEF Answering, MdnsQuery
    <3>6. QED
      BY <1>14, <3>4, <3>5 DEF MdnsQuery, WifiTold, DropNoticed, TaskKeepsOn,
                               AccessPointQuiet, OneAddress
  <2>3. CASE ~Responds(q)
    <3>1. UNCHANGED vars
      BY <1>14, <2>3 DEF MdnsQuery, vars
    <3>2. QED
      BY <3>1 DEF vars, TypeOK, WifiTold, DropNoticed, TaskKeepsOn, AccessPointQuiet,
                  OneAddress, Answering
  <2>4. QED
    BY <2>2, <2>3
<1>15. CASE UNCHANGED vars
  <2>1. TypeOK'
    BY <1>15, AddrAssumption DEF TypeOK, vars
  <2>2. WifiTold' /\ DropNoticed' /\ TaskKeepsOn' /\ AccessPointQuiet'
    BY <1>15 DEF TypeOK, WifiTold, DropNoticed, TaskKeepsOn, AccessPointQuiet, vars
  <2>3. OneAddress'
    BY <1>15, AddrAssumption DEF TypeOK, OneAddress, vars
  <2>4. Answering'
    BY <1>15, AddrAssumption DEF TypeOK, Answering, vars
  <2>5. QED
    BY <2>1, <2>2, <2>3, <2>4
<1>16. QED
  BY <1>1, <1>2, <1>3, <1>4, <1>5, <1>6, <1>7, <1>8, <1>9, <1>10, <1>11, <1>12, <1>13, <1>14, <1>15
     DEF Next, Radio, Stack, ConnectionTask, Responder

-----------------------------------------------------------------------------
\* The invariant of the station tasks holds in every reachable state.
THEOREM Invariance == Spec => []Inv
  BY InitInv, InvStep, PTL DEF Spec

\* The responder of mdns.rs answers for the device's name only, and with the right
\* address until DHCP gives the station another one.
THEOREM AnswersCorrect == Spec => []AnswersTrue
<1>1. Inv => AnswersTrue
  BY DEF Inv, OneAddress, Answering, AnswersTrue
<1>2. QED
  BY <1>1, Invariance, PTL

\* While WIFI_CONNECTED says so, the link is up, or its loss is still to be noticed, or
\* it was lost between connect_async and wait_for_event and the event forgotten there:
\* no other interleaving of radio and connection_task leaves the status stale for good.
THEOREM DropsNoticed == Spec => [](DropNoticed /\ WifiTold)
<1>1. Inv => DropNoticed /\ WifiTold
  BY DEF Inv
<1>2. QED
  BY <1>1, Invariance, PTL

\* As an access point the device does not associate, take an address or answer, and in
\* station mode connection_task goes on for as long as the driver runs.
THEOREM ModesApart == Spec => [](AccessPointQuiet /\ TaskKeepsOn)
<1>1. Inv => AccessPointQuiet /\ TaskKeepsOn
  BY DEF Inv
<1>2. QED
  BY <1>1, Invariance, PTL
=============================================================================
