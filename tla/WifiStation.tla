---------------------------- MODULE WifiStation ----------------------------
(***************************************************************************)
(* Station mode: connection_task keeps the WiFi link up, sta_ip_monitor    *)
(* copies the DHCP address into STA_IP, and the mDNS responder of mdns.rs  *)
(* waits for both and then answers for the device's name.                  *)
(*                                                                         *)
(* The radio, the access point and the DHCP client of the network stack    *)
(* are external.  No guard of a shared static is held over an await, so a  *)
(* lock never waits and each step between two awaits is one action.        *)
(***************************************************************************)
EXTENDS Naturals, Sequences

CONSTANTS
  Addrs,     \* addresses the DHCP server may give
  NoAddr,    \* None
  Queries    \* the mDNS packets considered

Host == "host"     \* the device name; labels are compared without regard to case
Local == "local"
BadLabel == "bad"  \* a length byte over 63 or beyond the end of the packet

Words == {n \in Nat : n < 65536}
Names == Seq({Host, Local, "other", BadLabel})
Packets ==
  [len : Nat, response : BOOLEAN, questions : Nat,
   labels : Names,
   rest : Nat,     \* bytes behind the name
   qtype : Words, qclass : Words]

ASSUME AddrAssumption == NoAddr \notin Addrs
ASSUME QueryAssumption == Queries \subseteq Packets

VARIABLES
  CONFIG_MODE,
  WIFI_CONNECTED,
  STA_IP,
  started,   \* controller.is_started() is Ok(true)
  link,      \* the radio is associated with the access point
  event,     \* StationDisconnected has happened and was not consumed
  missed,    \* (history) ... and wait_for_event has forgotten it, with the link down
  outcome,   \* what connect_async will return
  task,      \* where connection_task is
  lease,     \* stack.config_v4(): the address, or none
  mdns,      \* where the responder is
  our_ip,    \* the responder's copy of the address
  answer,    \* the last answer: the address in it and the question, or none
  first,     \* (history) the first address ever granted
  moved      \* (history) an address other than the first has been granted

radio == <<started, link, event, missed, outcome>>
stack == <<lease, first, moved>>
responder == <<mdns, our_ip, answer>>
vars == <<CONFIG_MODE, WIFI_CONNECTED, STA_IP, radio, task, stack, responder>>

NoAnswer == [ip |-> NoAddr, to |-> [len |-> 0]]

\* main spawns connection_task in station mode only.
Init ==
  /\ CONFIG_MODE \in BOOLEAN
  /\ WIFI_CONNECTED = FALSE /\ STA_IP = NoAddr
  /\ started = TRUE /\ link = FALSE /\ event = FALSE /\ missed = FALSE
  /\ outcome = "none"
  /\ task = IF CONFIG_MODE THEN "done" ELSE "top"
  /\ lease = NoAddr /\ first = NoAddr /\ moved = FALSE
  /\ mdns = "wait" /\ our_ip = NoAddr /\ answer = NoAnswer

-----------------------------------------------------------------------------
(* The radio and the network stack. *)

Associates ==
  /\ started /\ task = "connect" /\ outcome = "none"
  /\ link' = TRUE /\ event' = FALSE /\ outcome' = "ok"
  /\ UNCHANGED <<CONFIG_MODE, WIFI_CONNECTED, STA_IP, missed, started, task, stack, responder>>

Refuses ==
  /\ task = "connect" /\ outcome = "none"
  /\ outcome' = "err"
  /\ UNCHANGED <<CONFIG_MODE, WIFI_CONNECTED, STA_IP, missed, started, link, event, task, stack,
                 responder>>

LinkDrops ==
  /\ link
  /\ link' = FALSE /\ event' = TRUE
  /\ UNCHANGED <<CONFIG_MODE, WIFI_CONNECTED, STA_IP, missed, started, outcome, task, stack,
                 responder>>

\* The driver stops for good; nothing in the firmware starts it again.
RadioStops ==
  /\ started
  /\ started' = FALSE /\ link' = FALSE /\ event' = (link \/ event)
  /\ UNCHANGED <<CONFIG_MODE, WIFI_CONNECTED, STA_IP, missed, outcome, task, stack, responder>>

LeaseGranted(a) ==
  /\ link /\ lease = NoAddr
  /\ lease' = a
  /\ first' = IF first = NoAddr THEN a ELSE first
  /\ moved' = (moved \/ a # first')
  /\ UNCHANGED <<CONFIG_MODE, WIFI_CONNECTED, STA_IP, radio, task, responder>>

\* The link went down or the lease ran out.
LeaseLost ==
  /\ lease # NoAddr
  /\ lease' = NoAddr
  /\ UNCHANGED <<first, moved, CONFIG_MODE, WIFI_CONNECTED, STA_IP, radio, task, responder>>

-----------------------------------------------------------------------------
(* connection_task. *)

Connect ==
  /\ task = "top"
  /\ IF started
     THEN task' = "connect" /\ outcome' = "none"
     ELSE task' = "done" /\ UNCHANGED outcome
  /\ UNCHANGED <<CONFIG_MODE, WIFI_CONNECTED, STA_IP, missed, started, link, event, stack,
                 responder>>

\* What wait_for_event sees of a disconnection between the association and the call:
\* nothing in this code decides whether the call starts by clearing the event.
EventAtWait == {event, FALSE}

ConnectOk ==
  /\ task = "connect" /\ outcome = "ok"
  /\ WIFI_CONNECTED' = TRUE
  /\ task' = "watch"
  /\ event' \in EventAtWait
  /\ missed' = (event /\ ~event')
  /\ UNCHANGED <<CONFIG_MODE, STA_IP, started, link, outcome, stack, responder>>

\* Bug: a refusal ends the task.
ConnectErrReturns ==
  /\ task = "connect" /\ outcome = "err"
  /\ task' = "done"
  /\ UNCHANGED <<CONFIG_MODE, WIFI_CONNECTED, STA_IP, radio, stack, responder>>

ConnectErr ==
  /\ task = "connect" /\ outcome = "err"
  /\ task' = "pause"
  /\ UNCHANGED <<CONFIG_MODE, WIFI_CONNECTED, STA_IP, radio, stack, responder>>

\* Five seconds later.
PauseOver ==
  /\ task = "pause"
  /\ task' = "top"
  /\ UNCHANGED <<CONFIG_MODE, WIFI_CONNECTED, STA_IP, radio, stack, responder>>

\* Bug: the status is left to the next association.
DisconnectedQuietly ==
  /\ task = "watch" /\ event
  /\ event' = FALSE
  /\ task' = "top"
  /\ UNCHANGED <<CONFIG_MODE, WIFI_CONNECTED, STA_IP, missed, started, link, outcome,
                 stack, responder>>

Disconnected ==
  /\ task = "watch" /\ event
  /\ WIFI_CONNECTED' = FALSE
  /\ event' = FALSE
  /\ task' = "top"
  /\ UNCHANGED <<CONFIG_MODE, STA_IP, missed, started, link, outcome, stack, responder>>

-----------------------------------------------------------------------------
(* sta_ip_monitor, once a second. *)

\* Bug: an address that is gone stays.
MonitorKeeps ==
  /\ STA_IP' = IF lease = NoAddr THEN STA_IP ELSE lease
  /\ UNCHANGED <<CONFIG_MODE, WIFI_CONNECTED, radio, task, stack, responder>>

Monitor ==
  /\ STA_IP' = lease
  /\ UNCHANGED <<CONFIG_MODE, WIFI_CONNECTED, radio, task, stack, responder>>

-----------------------------------------------------------------------------
(* responder_task. *)

\* WiFi is up and has an address: it is copied; joining the multicast group or
\* binding the port may fail, which ends the task.  The announcement says our_ip.
MdnsStart ==
  /\ mdns = "wait" /\ WIFI_CONNECTED /\ STA_IP # NoAddr
  /\ our_ip' = STA_IP
  /\ mdns' \in {"serve", "gone"}
  /\ UNCHANGED <<CONFIG_MODE, WIFI_CONNECTED, STA_IP, radio, task, stack, answer>>

expected == <<Host, Local>>

\* The label walk over the question: `matches`, which a label beyond the expected ones or
\* one that differs clears, and `idx`, the labels seen.
matches(q) == \A idx \in DOMAIN q.labels : idx <= Len(expected) /\ q.labels[idx] = expected[idx]
NameMatches(q) == matches(q) /\ Len(q.labels) = Len(expected)

\* Bug: the labels that are there match, but one may be missing.
RespondsPrefix(q) ==
  /\ q.len >= 12 /\ ~q.response /\ q.questions # 0
  /\ matches(q)
  /\ q.rest >= 4
  /\ q.qtype \in {1, 255} /\ q.qclass % 32768 = 1

\* build_response(q) is Some.
Responds(q) ==
  /\ q.len >= 12 /\ ~q.response /\ q.questions # 0
  /\ \A i \in DOMAIN q.labels : q.labels[i] # BadLabel
  /\ NameMatches(q)
  /\ q.rest >= 4
  /\ q.qtype \in {1, 255} /\ q.qclass % 32768 = 1

\* A packet arrives.  (After an error of recv_from the loop pauses and goes on.)
MdnsQuery(q) ==
  /\ mdns = "serve"
  /\ answer' = IF Responds(q) THEN [ip |-> our_ip, to |-> q] ELSE answer
  /\ UNCHANGED <<CONFIG_MODE, WIFI_CONNECTED, STA_IP, radio, task, stack, mdns, our_ip>>

-----------------------------------------------------------------------------
Radio == Associates \/ Refuses \/ LinkDrops \/ RadioStops
Stack == (\E a \in Addrs : LeaseGranted(a)) \/ LeaseLost
ConnectionTask == Connect \/ ConnectOk \/ ConnectErr \/ PauseOver \/ Disconnected
Responder == MdnsStart \/ \E q \in Queries : MdnsQuery(q)

Next == Radio \/ Stack \/ ConnectionTask \/ Monitor \/ Responder

Spec == Init /\ [][Next]_vars

\* The executor runs every task that is ready, timers expire, and connect_async
\* returns.
Fairness ==
  /\ WF_vars(ConnectionTask)
  /\ WF_vars(Associates \/ Refuses)
  /\ WF_vars(Monitor)

FairSpec == Spec /\ Fairness

-----------------------------------------------------------------------------
\* A link that is lost is noticed and dialled again for as long as the driver runs, and
\* a refusal never ends connection_task.  The one exception is a link lost between
\* connect_async and wait_for_event whose event that call has forgotten: nothing in
\* connection_task looks at the link again.
Reconnects == ~link /\ ~CONFIG_MODE ~> link \/ task = "connect" \/ ~started \/ missed

\* Once the link stays up or down, so does WIFI_CONNECTED, on which the dial loop, the
\* responder and the web page rely; again but for a forgotten event.
LinkSettles ==
  \A up \in BOOLEAN : <>[](link = up) => <>[](WIFI_CONNECTED = up \/ missed)

\* Once the stack's address stays what it is, so does STA_IP, which the web page
\* shows; an address that was lost does not linger there.
AddressSettles ==
  \A a \in Addrs \cup {NoAddr} : <>[](lease = a) => <>[](STA_IP = a)

\* build_response: "if it asks for <host>.local A/ANY"; the top bit of the class is
\* the unicast flag.
AsksForUs(q) ==
  ~q.response /\ q.labels = <<Host, Local>> /\ q.qtype \in {1, 255}
    /\ q.qclass \in {1, 32769}

\* An answer is given to a question for the device's name only, and until DHCP gives
\* the station another address it carries the right one.  (It never carries any
\* other: the responder keeps the address that it saw when it started.)
AnswersTrue ==
  answer # NoAnswer => AsksForUs(answer.to) /\ (~moved => answer.ip = first)

-----------------------------------------------------------------------------
\* The inductive invariant of WifiStationProofs.
TypeOK ==
  /\ CONFIG_MODE \in BOOLEAN /\ WIFI_CONNECTED \in BOOLEAN /\ started \in BOOLEAN
  /\ link \in BOOLEAN /\ event \in BOOLEAN /\ missed \in BOOLEAN /\ moved \in BOOLEAN
  /\ {STA_IP, lease, our_ip, first} \subseteq Addrs \cup {NoAddr}
  /\ outcome \in {"none", "ok", "err"}
  /\ task \in {"top", "connect", "watch", "pause", "done"}
  /\ mdns \in {"wait", "serve", "gone"}
  /\ answer = NoAnswer \/ answer \in [ip : Addrs, to : Queries]

\* WIFI_CONNECTED says that connection_task is waiting for a disconnection, and it
\* waits in vain only for one that wait_for_event has forgotten: else the link is up,
\* or the event is still there to end the wait.
WifiTold == WIFI_CONNECTED <=> task = "watch"
DropNoticed ==
  /\ task = "connect" /\ outcome = "ok" => link \/ event
  /\ task = "watch" => link \/ event \/ missed

\* As an access point the device keeps out of all of it; in station mode the task
\* ends only with the driver.
TaskKeepsOn == task = "done" => CONFIG_MODE \/ ~started
AccessPointQuiet ==
  CONFIG_MODE => task = "done" /\ ~link /\ lease = NoAddr /\ STA_IP = NoAddr /\ mdns = "wait"

\* Until another address is granted, the first is all that is around.
OneAddress == ~moved => {lease, STA_IP, our_ip} \subseteq {NoAddr, first}

\* The responder has an address before it answers and answers with that one.
Answering ==
  /\ mdns = "wait" => our_ip = NoAddr /\ answer = NoAnswer
  /\ mdns = "serve" => our_ip # NoAddr
  /\ answer # NoAnswer => our_ip # NoAddr /\ answer.ip = our_ip /\ AsksForUs(answer.to)

Inv == /\ TypeOK /\ WifiTold /\ DropNoticed /\ TaskKeepsOn /\ AccessPointQuiet
       /\ OneAddress /\ Answering

=============================================================================
