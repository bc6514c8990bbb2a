--------------------------- MODULE WebConfigProofs ---------------------------
(***************************************************************************)
(* The configuration in use is the configuration in flash, which is a      *)
(* store of four registers; an acknowledged save kept the whole form; and  *)
(* a client without the login changes nothing.  For every set of requests  *)
(* and every buffer size.                                                  *)
(***************************************************************************)
EXTENDS WebConfig, TLAPS

Inv == TypeOK /\ RamIsFlash

\* An empty buffer is within bounds.
LEMMA EmptyBuffer == 0 \in 0..BufLen
<1>1. BufLen \in Nat
  BY RequestsAssumption
<1>2. QED
  BY <1>1

\* A request has the fields that the handlers look at.
LEMMA RequestFields ==
  ASSUME NEW r \in Requests \cup {NoReq}
  PROVE  /\ r.slot \in Slots \cup {"page", "other"} /\ r.hdr \in Nat /\ r.clen \in Nat
         /\ r.form[1] \in Nat /\ r.form[2] \in Nat /\ r.bad \in BOOLEAN
<1>1. CASE r = NoReq
  BY <1>1 DEF NoReq, Blank
<1>2. CASE r \in Requests
  <2>1. r \in [slot : Slots \cup {"page", "other"}, hdr : Nat \ {0, 1}, clen : Nat,
               creds : Pairs, form : Pairs, bad : BOOLEAN]
    BY <1>2, RequestsAssumption
  <2>2. r.form \in Lens \X Lens
    BY <2>1 DEF Pairs
  <2>3. r.form[1] \in Nat /\ r.form[2] \in Nat
    BY <2>2, RequestsAssumption DEF Lens
  <2>4. QED
    BY <2>1, <2>3
<1>3. QED
  BY <1>1, <1>2

\* What find_form_value and url_decode_into find in part of a body are lengths.
LEMMA FieldsType ==
  ASSUME NEW r \in Requests \cup {NoReq}, NEW n \in Nat
  PROVE  Fields(r, BodySeen(r, n)) \in Texts
<1>1. BodySeen(r, n) \in Nat
  BY RequestFields DEF BodySeen
<1>2. /\ Field1(r, BodySeen(r, n)) \in Nat
      /\ Field2(r, BodySeen(r, n)) \in Nat
  BY <1>1, RequestFields, RequestsAssumption DEF Field1, Field2, Least
<1>3. QED
  BY <1>2 DEF Fields, Texts

\* A handler stores a configuration or refuses the form.
LEMMA ParsedType ==
  ASSUME NEW r \in Requests \cup {NoReq}, r.slot \in Slots, NEW v \in Texts
  PROVE  Parsed(r, v) \in Texts \cup {Unset}
<1>1. v[1] \in Nat /\ v[2] \in Nat /\ Blank \in Texts
  BY DEF Texts, Blank
<1>2. <<v[1], IF v[2] = 0 THEN DEFAULT_BAUD ELSE v[2]>> \in Texts
  BY <1>1 DEF Texts, DEFAULT_BAUD
<1>3. QED
  BY <1>1, <1>2 DEF Parsed, WifiForm, DeviceForm, AuthForm, SetLogin, Slots

\* The offsets and sizes of config.rs keep the four slots apart.
LEMMA SlotsApart ==
  ASSUME NEW s \in Slots, NEW t \in Slots, s # t
  PROVE  ~Overlaps(s, t)
BY DEF Overlaps, Slots, Layout, WifiSlot, DeviceSlot, AutoconnectSlot, AuthSlot

\* So a save touches its own slot only.
LEMMA WrittenSlot ==
  ASSUME TypeOK, NEW s \in Slots, NEW v \in Texts
  PROVE  /\ Written(s, v) \in [Slots -> Texts \cup {Unset}]
         /\ Written(s, v)[s] = v
         /\ \A t \in Slots \ {s} : Written(s, v)[t] = flash[t]
BY SlotsApart DEF Written, TypeOK

\* A sector that was rewritten in part holds texts and empty slots, like any other.
LEMMA TornType ==
  ASSUME NEW f \in [Slots -> Texts \cup {Unset}], NEW cut
  PROVE  Torn(f, cut) \in [Slots -> Texts \cup {Unset}]
<1>1. ASSUME NEW t \in Slots, f[t] # Unset
      PROVE  f[t][1] \in Nat /\ f[t][2] \in Nat
  <2>1. f[t] \in Nat \X Nat
    BY <1>1 DEF Texts
  <2>2. QED
    BY <2>1
<1>2. Erased \in Nat
  BY DEF Erased
<1>3. \A t \in Slots : Torn(f, cut)[t] \in Texts \cup {Unset}
  BY <1>1, <1>2 DEF Torn, Texts
<1>4. QED
  BY <1>3 DEF Torn

\* A flash slot loads as it is, or as the default.
LEMMA LoadSlot ==
  ASSUME NEW f \in [Slots -> Texts \cup {Unset}]
  PROVE  /\ Load(f) \in [Slots -> Texts]
         /\ \A s \in Slots : f[s] \in Texts => Load(f)[s] = f[s]
<1>1. \A s \in Slots : Defaults[s] \in Texts
  BY DEF Defaults, Texts, Blank, DEFAULT_BAUD
<1>2. Unset \notin Texts
  BY DEF Texts, Unset
<1>3. QED
  BY <1>1, <1>2 DEF Load

\* A boot from any contents of flash establishes the invariant.
LEMMA BootInv ==
  ASSUME TypeOK, NEW f \in [Slots -> Texts \cup {Unset}], Boot(f), flash' = f,
         faults' \in 0..MaxFaults
  PROVE  Inv'
<1>1. ram' \in [Slots -> Texts] /\ ram' = Load(flash')
  BY LoadSlot DEF Boot
<1>0. PICK p \in {"accept", "panic"} : Idle(p)
  BY DEF Boot, BootEnds
<1>2. CONFIG_MODE' \in BOOLEAN
  BY Zenon DEF Boot
<1>3. button' \in BOOLEAN /\ GPIO0_HELD' \in BOOLEAN
  BY Zenon DEF Boot, TypeOK
<1>4. TypeOK'
  BY <1>0, <1>1, <1>2, <1>3, EmptyBuffer DEF Boot, Idle, TypeOK
<1>5. QED
  BY <1>1, <1>4 DEF Inv, RamIsFlash

\* One more fault is within its bound.
LEMMA FaultBound ==
  ASSUME TypeOK, Fault
  PROVE  faults' \in 0..MaxFaults
BY CutsAssumption DEF TypeOK, Fault

\* A save, successful or not, keeps RAM and flash together.
LEMMA SaveInv ==
  ASSUME Inv, NEW s \in Slots, NEW v \in Texts, NEW ok \in BOOLEAN, Store(s, v, ok)
  PROVE  /\ flash' \in [Slots -> Texts \cup {Unset}]
         /\ ram' \in [Slots -> Texts]
         /\ unsaved' \subseteq Slots /\ faults' \in 0..MaxFaults
         /\ CONFIG_MODE' \in BOOLEAN
         /\ RamIsFlash'
<1> USE DEF Inv
<1>0. Written(s, v) \in [Slots -> Texts \cup {Unset}]
  BY WrittenSlot
<1>a. ASSUME Tears(Written(s, v)) PROVE flash' \in [Slots -> Texts \cup {Unset}]
  BY <1>0, <1>a, TornType DEF Tears
<1>1. /\ flash' \in [Slots -> Texts \cup {Unset}]
      /\ ram' \in [Slots -> Texts]
      /\ unsaved' \subseteq Slots
      /\ CONFIG_MODE' \in BOOLEAN
  BY <1>0, <1>a DEF Store, TypeOK
<1>b. faults' \in 0..MaxFaults
  BY FaultBound DEF Store, TypeOK
<1>2. ASSUME NEW t \in Slots, t \notin unsaved'
      PROVE  ram'[t] = Load(flash')[t]
  <2>1. CASE t = s
    <3>1. flash'[t] = v /\ ram'[t] = v
      BY <1>2, <2>1, WrittenSlot DEF Store, TypeOK
    <3>2. QED
      BY <1>1, <3>1, LoadSlot
  <2>2. CASE t # s
    <3>1. flash'[t] = flash[t] /\ ram'[t] = ram[t] /\ t \notin unsaved
      BY <1>2, <2>2, WrittenSlot DEF Store, TypeOK
    <3>2. Load(flash')[t] = Load(flash)[t]
      BY <3>1 DEF Load
    <3>3. QED
      BY <3>1, <3>2 DEF RamIsFlash
  <2>3. QED
    BY <2>1, <2>2
<1>3. QED
  BY <1>1, <1>b, <1>2 DEF RamIsFlash

\* Serving the first n units of a request keeps the invariant.
LEMMA ServeInv ==
  ASSUME Inv, NEW n \in 0..BufLen, Serve(n), eof' \in BOOLEAN
  PROVE  Inv'
<1> DEFINE v == Parsed(req, Fields(req, BodySeen(req, n)))
<1> USE DEF Inv
<1>0. n \in Nat /\ req \in Requests \cup {NoReq} /\ pos' \in 0..BufLen
  BY RequestsAssumption DEF TypeOK, Serve
<1>1. ASSUME NEW status \in {200, 400, 401, 404}, Respond(status), UNCHANGED config
      PROVE  Inv'
  <2>1. TypeOK'
    BY <1>0, <1>1 DEF Respond, config, TypeOK
  <2>2. QED
    BY <1>1, <2>1 DEF config, RamIsFlash
<1>a. ASSUME Panic, UNCHANGED config
      PROVE  Inv'
  <2>1. TypeOK'
    BY <1>0, <1>a DEF Panic, config, TypeOK
  <2>2. QED
    BY <1>a, <2>1 DEF config, RamIsFlash
<1>2. ASSUME req.slot \in Slots, v # Unset, Save(req.slot, v)
      PROVE  Inv'
  <2>1. v \in Texts
    BY <1>0, <1>2, FieldsType, ParsedType
  <2>2. PICK ok \in BOOLEAN : Store(req.slot, v, ok)
    BY <1>2 DEF Save
  <2>3. /\ flash' \in [Slots -> Texts \cup {Unset}]
        /\ ram' \in [Slots -> Texts]
        /\ unsaved' \subseteq Slots /\ faults' \in 0..MaxFaults
        /\ CONFIG_MODE' \in BOOLEAN
        /\ RamIsFlash'
    BY <1>2, <2>1, <2>2, SaveInv
  <2>4. /\ UNCHANGED <<button, GPIO0_HELD, req>>
        /\ pc' \in {"respond", "reset"}
        /\ resp' \in {0, 200, 400, 401, 404, 500}
    <3>1. \/ Respond(500)
          \/ Respond(200)
          \/ pc' = "reset" /\ UNCHANGED <<resp, button, GPIO0_HELD, req>>
      BY <1>2 DEF Save
    <3>2. QED
      BY <3>1 DEF Respond, TypeOK
  <2>5. TypeOK'
    BY <1>0, <2>3, <2>4 DEF TypeOK
  <2>6. QED
    BY <2>3, <2>5
<1>3. req.slot \notin {"page", "other"} => req.slot \in Slots
  BY <1>0, RequestFields
<1>4. QED
  BY <1>1, <1>a, <1>2, <1>3 DEF Serve

\* The factory state satisfies the invariant.
LEMMA InitInv == Init => Inv
<1> SUFFICES ASSUME Init PROVE Inv
  OBVIOUS
<1>1. flash \in [Slots -> Texts \cup {Unset}]
  BY DEF Init
<1>2. ram \in [Slots -> Texts]
  BY <1>1, LoadSlot DEF Init
<1>a. 0 \in 0..MaxFaults
  BY CutsAssumption
<1>3. TypeOK
  BY <1>1, <1>2, <1>a, EmptyBuffer DEF Init, TypeOK
<1>4. QED
  BY <1>3 DEF Init, Inv, RamIsFlash

\* Every step of clients, server, button and power keeps the invariant.
LEMMA InvStep == Inv /\ [Next]_vars => Inv'
<1> SUFFICES ASSUME Inv, [Next]_vars PROVE Inv'
  OBVIOUS
<1> USE DEF Inv
<1>1. ASSUME NEW r \in Requests, Accept(r) PROVE Inv'
  <2>1. TypeOK'
    BY <1>1 DEF Accept, config, TypeOK
  <2>2. QED
    BY <1>1, <2>1 DEF Accept, config, RamIsFlash
<1>2. ASSUME NEW n \in 1..BufLen, Receive(n) PROVE Inv'
  <2>1. pos + n \in 0..BufLen /\ eof' \in BOOLEAN
    BY <1>2, RequestFields, RequestsAssumption
       DEF Receive, TypeOK, Least, Size, FormLen
  <2>2. CASE Serve(pos + n)
    BY <2>1, <2>2, ServeInv
  <2>3. CASE pos' = pos + n /\ UNCHANGED <<config, button, GPIO0_HELD, pc, req, resp>>
    <3>1. TypeOK'
      BY <2>1, <2>3 DEF config, TypeOK
    <3>2. QED
      BY <2>3, <3>1 DEF config, RamIsFlash
  <2>4. QED
    BY <1>2, <2>2, <2>3 DEF Receive
<1>3. ASSUME NEW p \in {"accept", "panic"}, Idle(p),
             UNCHANGED <<config, button, GPIO0_HELD>>
      PROVE  Inv'
  <2>0. UNCHANGED <<flash, ram, unsaved, faults, CONFIG_MODE, button, GPIO0_HELD>>
    BY <1>3 DEF config
  <2>1. TypeOK'
    <3>1. /\ pc' \in {"accept", "reading", "respond", "reset", "panic"}
          /\ req' \in Requests \cup {NoReq} /\ pos' \in 0..BufLen
          /\ eof' \in BOOLEAN /\ resp' \in {0, 200, 400, 401, 404, 500}
      BY <1>3, EmptyBuffer DEF Idle
    <3>2. QED
      BY <2>0, <3>1 DEF TypeOK
  <2>2. QED
    BY <2>0, <2>1 DEF RamIsFlash
<1>4. CASE Eof
  <2>1. CASE pos = 0
    BY <1>3, <1>4, <2>1 DEF Eof
  <2>2. CASE pos # 0
    <3>1. Serve(pos) /\ eof' \in BOOLEAN
      BY <1>4, <2>2 DEF Eof
    <3>2. QED
      BY <3>1, ServeInv DEF TypeOK
  <2>3. QED
    BY <2>1, <2>2
<1>5. CASE ReadError \/ Responded \/ MdnsPanics
  BY <1>3, <1>5 DEF ReadError, Responded, MdnsPanics
<1>6. CASE Reset \/ Reboot
  BY <1>6, BootInv DEF Reset, Reboot, TypeOK
<1>7. ASSUME NEW n \in 1..BufLen, CutDuringSave(n) PROVE Inv'
  <2> DEFINE v == Parsed(req, Fields(req, BodySeen(req, n)))
  <2>1. req \in Requests \cup {NoReq} /\ req.slot \in Slots /\ v # Unset
    BY <1>7 DEF CutDuringSave, TypeOK
  <2>2. n \in Nat
    BY RequestsAssumption
  <2>3. v \in Texts
    BY <2>1, <2>2, FieldsType, ParsedType
  <2>4. Fault /\ Tears(Written(req.slot, v)) /\ Boot(flash')
    BY <1>7 DEF CutDuringSave
  <2>5. flash' \in [Slots -> Texts \cup {Unset}]
    BY <2>1, <2>3, <2>4, WrittenSlot, TornType DEF Tears
  <2>6. QED
    BY <2>4, <2>5, FaultBound, BootInv
<1>8. CASE Button \/ SampleGpio0
  <2>a. ASSUME Button PROVE button' \in BOOLEAN /\ GPIO0_HELD' \in BOOLEAN
    BY <2>a, Zenon DEF Button, TypeOK
  <2>b. ASSUME SampleGpio0 PROVE button' \in BOOLEAN /\ GPIO0_HELD' \in BOOLEAN
    BY <2>b, Zenon DEF SampleGpio0, TypeOK
  <2>0. button' \in BOOLEAN /\ GPIO0_HELD' \in BOOLEAN
    BY <1>8, <2>a, <2>b
  <2>1. TypeOK'
    BY <1>8, <2>0 DEF Button, SampleGpio0, config, conn, TypeOK
  <2>2. QED
    BY <1>8, <2>1 DEF Button, SampleGpio0, config, RamIsFlash
<1>9. CASE UNCHANGED vars
  BY <1>9 DEF vars, config, conn, TypeOK, RamIsFlash
<1>10. QED
  BY <1>1, <1>2, <1>4, <1>5, <1>6, <1>7, <1>8, <1>9 DEF Next, Http

\* The web server's type invariant and RamIsFlash hold in every reachable state, also
\* when power is lost in the middle of a save.
THEOREM Invariance == Spec => []Inv
BY InitInv, InvStep, PTL DEF Spec

\* The next boot brings back the configuration in use, but for saves answered 500.
THEOREM ConfigPersists == Spec => []RamIsFlash
<1>1. Inv => RamIsFlash
  BY DEF Inv
<1>2. QED
  BY Invariance, <1>1, PTL

\* Every variable of the web server keeps its type, also across torn saves.
THEOREM TypeCorrectness == Spec => []TypeOK
<1>1. Inv => TypeOK
  BY DEF Inv
<1>2. QED
  BY Invariance, <1>1, PTL

-----------------------------------------------------------------------------
(* An acknowledged save stored the whole form. *)

\* The read loop is left with the whole request in the buffer, if the buffer is large
\* enough for it and the Content-Length covers the form.
LEMMA ReadsWhole ==
  ASSUME NEW r \in Requests \cup {NoReq}, NEW n \in Nat, n <= Size(r), Complete(r, n),
         Size(r) <= BufLen, r.clen >= FormLen(r.form)
  PROVE  n = Size(r) /\ BodySeen(r, n) = FormLen(r.form)
<1>1. /\ r.hdr \in Nat /\ r.clen \in Nat /\ FormLen(r.form) \in Nat /\ BufLen \in Nat
      /\ Size(r) = r.hdr + FormLen(r.form)
  BY RequestFields, RequestsAssumption DEF FormLen, Size
<1>2. n = Size(r)
  BY <1>1 DEF Complete, Need, Least
<1>3. QED
  BY <1>1, <1>2 DEF BodySeen

\* Serving a request of which the form is all there, or whose client has closed.
LEMMA ServeForm ==
  ASSUME TypeOK, NEW n \in 0..BufLen, Serve(n),
         \/ eof'
         \/ Size(req) > BufLen
         \/ ~(req.clen >= FormLen(req.form))
         \/ BodySeen(req, n) = FormLen(req.form)
  PROVE  WholeFormSaved'
<1> DEFINE v == Parsed(req, Fields(req, BodySeen(req, n)))
<1>0. n \in Nat /\ req \in Requests \cup {NoReq}
  BY RequestsAssumption DEF TypeOK
<1>1. ASSUME NEW status \in {400, 401, 404, 500}, Respond(status)
      PROVE  WholeFormSaved'
  BY <1>1 DEF Respond, WholeFormSaved
<1>2. ASSUME req.slot \in {"page", "other"}, Respond(200)
      PROVE  WholeFormSaved'
  BY <1>2 DEF Respond, WholeFormSaved, Slots
<1>a. ASSUME Panic
      PROVE  WholeFormSaved'
  BY <1>a DEF Panic, WholeFormSaved
<1>3. ASSUME req.slot \in Slots, v # Unset, Save(req.slot, v)
      PROVE  WholeFormSaved'
  <2>1. v \in Texts
    BY <1>0, <1>3, FieldsType, ParsedType
  <2>2. CASE Respond(500)
    BY <1>1, <2>2
  <2>3. CASE Store(req.slot, v, TRUE) /\ req' = req
    <3>1. flash'[req.slot] = v
      BY <1>3, <2>1, <2>3, WrittenSlot DEF Store
    <3>2. /\ Size(req') = Size(req) /\ FormLen(req'.form) = FormLen(req.form)
          /\ Parsed(req', Fields(req', FormLen(req'.form)))
               = Parsed(req, Fields(req, FormLen(req.form)))
      BY <2>3, Zenon
    <3>3. SUFFICES ASSUME Size(req) <= BufLen, req.clen >= FormLen(req.form), ~eof'
                   PROVE  flash'[req.slot] = Parsed(req, Fields(req, FormLen(req.form)))
      BY <2>3, <3>2 DEF WholeFormSaved
    <3>4. Size(req) \in Nat /\ BufLen \in Nat
      BY <1>0, RequestFields, RequestsAssumption DEF Size, FormLen
    <3>5. BodySeen(req, n) = FormLen(req.form)
      BY <3>3, <3>4
    <3>6. QED
      BY <3>1, <3>5
  <2>4. QED
    BY <1>3, <2>2, <2>3 DEF Save, Respond
<1>4. req.slot \notin {"page", "other"} => req.slot \in Slots
  BY <1>0, RequestFields
<1>5. QED
  BY <1>1, <1>2, <1>a, <1>3, <1>4 DEF Serve

\* No step acknowledges a save of less than the form.
LEMMA FormStep == TypeOK /\ WholeFormSaved /\ [Next]_vars => WholeFormSaved'
<1> SUFFICES ASSUME TypeOK, WholeFormSaved, [Next]_vars PROVE WholeFormSaved'
  OBVIOUS
<1>1. ASSUME pc' \in {"accept", "reading", "panic"} PROVE WholeFormSaved'
  BY <1>1 DEF WholeFormSaved
<1>2. ASSUME NEW n \in 1..BufLen, Receive(n) PROVE WholeFormSaved'
  <2>1. CASE Complete(req, pos + n) /\ Serve(pos + n)
    <3>1. /\ req \in Requests \cup {NoReq} /\ Size(req) \in Nat /\ BufLen \in Nat
          /\ pos + n \in Nat
      BY RequestFields, RequestsAssumption DEF TypeOK, Size, FormLen
    <3>2. pos + n <= Size(req) /\ pos + n \in 0..BufLen
      BY <1>2, <3>1 DEF Receive, Least
    <3>3. Size(req) <= BufLen /\ req.clen >= FormLen(req.form)
            => BodySeen(req, pos + n) = FormLen(req.form)
      BY <2>1, <3>1, <3>2, ReadsWhole
    <3>4. QED
      BY <2>1, <3>1, <3>2, <3>3, ServeForm
  <2>2. CASE UNCHANGED pc
    BY <1>1, <1>2, <2>2 DEF Receive
  <2>3. QED
    BY <1>2, <2>1, <2>2 DEF Receive
<1>3. CASE Eof
  <2>1. CASE Idle("accept")
    BY <1>1, <2>1 DEF Idle
  <2>2. CASE eof' = TRUE /\ Serve(pos)
    BY <2>2, ServeForm DEF TypeOK
  <2>3. QED
    BY <1>3, <2>1, <2>2 DEF Eof
<1>4. CASE (\E r \in Requests : Accept(r)) \/ ReadError \/ Responded
  BY <1>1, <1>4 DEF Accept, ReadError, Responded, Idle
<1>a. CASE Reset \/ Reboot \/ MdnsPanics \/ \E n \in 1..BufLen : CutDuringSave(n)
  <2>1. \E p \in {"accept", "panic"} : Idle(p)
    BY <1>a DEF Reset, Reboot, MdnsPanics, CutDuringSave, Boot, BootEnds
  <2>2. QED
    BY <1>1, <2>1 DEF Idle
<1>5. CASE Button \/ SampleGpio0 \/ UNCHANGED vars
  BY <1>5 DEF Button, SampleGpio0, vars, config, conn, WholeFormSaved
<1>6. QED
  BY <1>2, <1>3, <1>4, <1>a, <1>5 DEF Next, Http

\* However TCP splits a request that fits the buffer, a save that was acknowledged
\* stored every field of the form.
THEOREM WholeForm == Spec => []WholeFormSaved
<1>1. Init => WholeFormSaved
  BY DEF Init, WholeFormSaved
<1>2. QED
  BY <1>1, TypeCorrectness, FormStep, PTL DEF Spec

-----------------------------------------------------------------------------
(* The four slots of the sector implement the registers of ConfigStore. *)

\* main loads what the store runs on.
LEMMA LoadedIsLoad == \A f : Registers!Loaded(f) = Load(f)
BY DEF Registers!Loaded, Load

\* A rewrite that stops leaves whole what is before the slot that the cut is in, and
\* nothing behind it.
LEMMA TearSimulation ==
  ASSUME TypeOK, NEW s \in Slots, NEW v \in Texts, Tears(Written(s, v))
  PROVE  \E d \in Slots : /\ Registers!StopsIn(d, s)
                          /\ Layout[s].offset < Layout[d].offset => flash'[s] = v
<1> DEFINE w == Written(s, v)
<1>1. PICK cut \in Cuts : flash' = Torn(w, cut)
  BY DEF Tears
<1>2. cut \in Nat
  BY CutsAssumption
<1>3. /\ w \in [Slots -> Texts \cup {Unset}] /\ w[s] = v /\ v # Unset
      /\ \A t \in Slots \ {s} : w[t] = flash[t]
  <2>1. v # Unset
    BY DEF Texts, Unset
  <2>2. QED
    BY <2>1, WrittenSlot
<1>4. flash' \in [Slots -> Texts \cup {Unset}]
  BY <1>1, <1>3, TornType
\* The slot that the cut is in or behind.
<1>5. PICK d \in Slots :
        \A t \in Slots :
          /\ Layout[t].offset < Layout[d].offset
               => Layout[t].offset + Layout[t].second <= cut
          /\ Layout[t].offset > Layout[d].offset => cut < Layout[t].offset + MagicLen
  <2> USE DEF Slots, Layout, WifiSlot, DeviceSlot, AutoconnectSlot, AuthSlot, MagicLen
  <2>1. CASE cut < 132
    BY <1>2, <2>1
  <2>2. CASE cut >= 132 /\ cut < 260
    BY <1>2, <2>2
  <2>3. CASE cut >= 260 /\ cut < 644
    BY <1>2, <2>3
  <2>4. CASE cut >= 644
    BY <1>2, <2>4
  <2>5. QED
    BY <1>2, <2>1, <2>2, <2>3, <2>4
<1>6. ASSUME NEW t \in Slots, Layout[t].offset < Layout[d].offset
      PROVE  flash'[t] = w[t]
  <2>1. /\ ~(cut < Layout[t].offset + MagicLen)
        /\ ~(cut < Layout[t].offset + Layout[t].first)
        /\ ~(cut < Layout[t].offset + Layout[t].second)
    <3>1. Layout[t].offset + Layout[t].second <= cut
      BY <1>5, <1>6
    <3>2. QED
      BY <1>2, <3>1
         DEF Slots, Layout, WifiSlot, DeviceSlot, AutoconnectSlot, AuthSlot, MagicLen
  <2>2. w[t] # Unset => w[t] = <<w[t][1], w[t][2]>>
    <3>1. w[t] # Unset => w[t] \in Nat \X Nat
      BY <1>3 DEF Texts
    <3>2. QED
      BY <3>1
  <2>3. QED
    BY <1>1, <2>1, <2>2 DEF Torn
<1>7. ASSUME NEW t \in Slots, Layout[t].offset > Layout[d].offset
      PROVE  flash'[t] = Unset
  <2>1. cut < Layout[t].offset + MagicLen
    BY <1>5, <1>7
  <2>2. QED
    BY <1>1, <2>1 DEF Torn
<1>8. Registers!StopsIn(d, s)
  <2>1. ASSUME NEW t \in Slots
        PROVE  /\ Registers!Before(t, d) /\ t # s => flash'[t] = flash[t]
               /\ Registers!Before(t, d) /\ t = s => flash'[t] # Unset
               /\ Registers!Before(d, t) => flash'[t] = Unset
    <3>1. /\ Registers!Before(t, d) => Layout[t].offset < Layout[d].offset
          /\ Registers!Before(d, t) => Layout[t].offset > Layout[d].offset
      BY DEF Registers!Before, Slots, Layout, WifiSlot, DeviceSlot, AutoconnectSlot, AuthSlot
    <3>2. QED
      BY <1>3, <1>6, <1>7, <3>1
  <2>2. QED
    BY <1>4, <2>1 DEF Registers!StopsIn
<1>9. QED
  BY <1>3, <1>6, <1>8

\* A save, successful or not, is a save of one register.
LEMMA SaveSimulation ==
  ASSUME Inv, NEW s \in Slots, NEW v \in Texts, NEW ok \in BOOLEAN, Store(s, v, ok)
  PROVE  Registers!StoreNext
<1> USE DEF Inv
<1>1. ram' = [ram EXCEPT ![s] = v] /\ ram'[s] = v
  BY DEF Store, TypeOK
<1>2. Registers!Use(s)
  BY <1>1, Zenon DEF Registers!Use
<1>3. CASE ok
  <2>1. Written(s, v) = [flash EXCEPT ![s] = v]
    <3>1. /\ Written(s, v) \in [Slots -> Texts \cup {Unset}]
          /\ Written(s, v)[s] = v
          /\ \A t \in Slots \ {s} : Written(s, v)[t] = flash[t]
      BY WrittenSlot
    <3>2. flash \in [Slots -> Texts \cup {Unset}]
      BY DEF TypeOK
    <3>3. QED
      BY <3>1, <3>2
  <2>2. flash' = [flash EXCEPT ![s] = ram'[s]] /\ unsaved' = unsaved \ {s}
    BY <1>1, <1>3, <2>1 DEF Store
  <2>3. QED
    BY <1>2, <2>2 DEF Registers!StoreNext, Registers!SaveTo
<1>4. CASE ~ok
  <2>1. unsaved' = unsaved \cup {s} \cup {t \in Slots : flash'[t] # flash[t]}
    BY <1>4 DEF Store
  <2>2. CASE UNCHANGED flash
    BY <1>2, <2>1, <2>2 DEF Registers!StoreNext, Registers!SaveFails
  <2>3. CASE Tears(Written(s, v))
    <3>1. PICK d \in Slots :
            /\ Registers!StopsIn(d, s)
            /\ Layout[s].offset < Layout[d].offset => flash'[s] = v
      BY <2>3, TearSimulation
    <3>2. Registers!Before(s, d) => flash'[s] = ram'[s]
      <4>1. Registers!Before(s, d) => Layout[s].offset < Layout[d].offset
        BY DEF Registers!Before
      <4>2. QED
        BY <1>1, <3>1, <4>1
    <3>3. Registers!SaveFails(s)
      BY <1>2, <2>1, <3>1, <3>2 DEF Registers!SaveFails
    <3>4. QED
      BY <3>3 DEF Registers!StoreNext
  <2>4. QED
    BY <1>4, <2>2, <2>3 DEF Store
<1>5. QED
  BY <1>3, <1>4

\* A boot runs on what flash holds.
LEMMA BootSimulation ==
  ASSUME Boot(flash')
  PROVE  Registers!Restart
BY LoadedIsLoad DEF Boot, Registers!Restart

\* Every step of server, clients and power is a step of the store or leaves it alone.
LEMMA StoreSimulation == Inv /\ [Next]_vars => [Registers!StoreNext]_(Registers!svars)
<1> SUFFICES ASSUME Inv, [Next]_vars
             PROVE  Registers!StoreNext \/ UNCHANGED Registers!svars
  OBVIOUS
<1> USE DEF Inv
<1>0. ASSUME UNCHANGED config PROVE UNCHANGED Registers!svars
  BY <1>0 DEF config, Registers!svars
<1>1. ASSUME NEW n \in Nat, Serve(n)
      PROVE  Registers!StoreNext \/ UNCHANGED Registers!svars
  <2> DEFINE v == Parsed(req, Fields(req, BodySeen(req, n)))
  <2>1. CASE UNCHANGED config
    BY <1>0, <2>1
  <2>2. CASE ~UNCHANGED config
    <3>1. req.slot \notin {"page", "other"} /\ v # Unset /\ Save(req.slot, v)
      BY <1>1, <2>2 DEF Serve
    <3>2. req \in Requests \cup {NoReq} /\ req.slot \in Slots
      BY <3>1, RequestFields DEF TypeOK
    <3>3. v \in Texts
      BY <3>1, <3>2, FieldsType, ParsedType
    <3>4. PICK ok \in BOOLEAN : Store(req.slot, v, ok)
      BY <3>1 DEF Save
    <3>5. QED
      BY <3>2, <3>3, <3>4, SaveSimulation
  <2>3. QED
    BY <2>1, <2>2
<1>2. ASSUME NEW n \in 1..BufLen, Receive(n)
      PROVE  Registers!StoreNext \/ UNCHANGED Registers!svars
  <2>1. pos + n \in Nat
    BY RequestsAssumption DEF TypeOK
  <2>2. QED
    BY <1>0, <1>1, <1>2, <2>1 DEF Receive
<1>3. CASE Eof
  <2>1. pos \in Nat
    BY RequestsAssumption DEF TypeOK
  <2>2. QED
    BY <1>0, <1>1, <1>3, <2>1 DEF Eof
<1>4. CASE \/ \E r \in Requests : Accept(r)
           \/ ReadError \/ Responded \/ MdnsPanics \/ Button \/ SampleGpio0 \/ UNCHANGED vars
  BY <1>0, <1>4 DEF Accept, ReadError, Responded, MdnsPanics, Button, SampleGpio0, vars
<1>5. CASE Reset \/ Reboot
  <2>1. Boot(flash') /\ UNCHANGED flash
    BY <1>5 DEF Reset, Reboot
  <2>2. QED
    BY <2>1, BootSimulation DEF Registers!StoreNext
<1>6. ASSUME NEW n \in 1..BufLen, CutDuringSave(n) PROVE Registers!StoreNext
  <2> DEFINE s == req.slot
             v == Parsed(req, Fields(req, BodySeen(req, n)))
  <2>1. req \in Requests \cup {NoReq} /\ s \in Slots /\ v # Unset /\ n \in Nat
    BY <1>6, RequestsAssumption DEF CutDuringSave, TypeOK
  <2>2. v \in Texts
    BY <2>1, FieldsType, ParsedType
  <2>3. Tears(Written(s, v)) /\ Boot(flash')
    BY <1>6 DEF CutDuringSave
  <2>4. Registers!Restart
    BY <2>3, BootSimulation
  <2>5. \E d \in Slots : Registers!StopsIn(d, s)
    BY <2>1, <2>2, <2>3, TearSimulation
  <2>7. Registers!PowerLoss(s)
    BY <2>4, <2>5 DEF Registers!PowerLoss
  <2>8. QED
    BY <2>1, <2>7 DEF Registers!StoreNext
<1>7. QED
  BY <1>2, <1>3, <1>4, <1>5, <1>6 DEF Next, Http

\* The web server, the sector with its offsets and padded writes, and the boot
\* implement ConfigStore: no save disturbs another configuration, and wherever rewriting
\* the sector stops, at most one configuration is damaged, those behind it in the sector
\* are lost and those before it are as they should be.
THEOREM StoreRefinement == Spec => ImplementsStore
<1>1. Init => Registers!StoreInit
  BY LoadedIsLoad DEF Init, Registers!StoreInit
<1>2. QED
  BY <1>1, Invariance, StoreSimulation, PTL
     DEF Spec, ImplementsStore, Registers!StoreSpec

-----------------------------------------------------------------------------
(* The login. *)

\* A client without the credentials changes no configuration.
THEOREM LoginHolds == Spec => NoWayIn
<1> DEFINE Locked == IsSet(ram["auth"]) /\ ~GPIO0_HELD /\ req.creds # ram["auth"]
           Kept == \/ UNCHANGED <<ram, flash>>
                   \/ (ram' = Load(flash) /\ UNCHANGED flash)
<1>1. ASSUME Locked, [Next]_vars PROVE Kept
  <2>1. \A n : ~Authorized(req, n)
    BY <1>1 DEF Authorized, Verify
  <2>2. ASSUME NEW n, Serve(n) PROVE Kept
    BY <2>1, <2>2 DEF Serve, config
  <2>3. CASE \E r \in Requests : Accept(r)
    BY <2>3 DEF Accept, config
  <2>4. CASE Http
    BY <2>2, <2>4 DEF Http, Receive, Eof, ReadError, Responded, config
  <2>5. CASE Reset \/ Reboot
    BY <2>5 DEF Reset, Reboot, Boot
  <2>6. CASE \E n \in 1..BufLen : CutDuringSave(n)
    BY <2>1, <2>6 DEF CutDuringSave
  <2>7. CASE Button \/ SampleGpio0 \/ MdnsPanics
    BY <2>7 DEF Button, SampleGpio0, MdnsPanics, config
  <2>8. CASE UNCHANGED vars
    BY <2>8 DEF vars, config
  <2>9. QED
    BY <1>1, <2>3, <2>4, <2>5, <2>6, <2>7, <2>8 DEF Next
<1>2. [Next]_vars => [Locked => Kept]_vars
  BY <1>1
<1>3. QED
  BY <1>2, PTL DEF Spec, NoWayIn
=============================================================================
