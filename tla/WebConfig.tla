------------------------------ MODULE WebConfig ------------------------------
(***************************************************************************)
(* The configuration web server of http.rs over the four configurations    *)
(* that config.rs keeps in one flash sector, with the boot that loads them *)
(* (main.rs) and the BOOT-button override of the login.                    *)
(*                                                                         *)
(* One http_server task runs per interface, but only the access point or   *)
(* only the station interface is started, so one connection is served at a *)
(* time.  Everything a handler does between the last read of the request   *)
(* and the response (or the 800 ms before a reset) happens without another *)
(* task in between.                                                        *)
(*                                                                         *)
(* Text is abstracted to its length, so that a prefix is a smaller number. *)
(* A request is its header, the request line being the first unit and the  *)
(* Authorization header the second, and a form of two fields, each one     *)
(* unit of key followed by its value.  clen is what its Content-Length     *)
(* says, 0 if there is none or it does not parse.                          *)
(*                                                                         *)
(* Flash keeps its real byte offsets: a save erases the sector and writes  *)
(* it again, and may stop anywhere in between.                             *)
(***************************************************************************)
EXTENDS Naturals, FiniteSets

CONSTANTS
  Requests,    \* the requests considered
  BufLen,      \* units that handle_request's buffer holds (1024 bytes)
  FieldCap,    \* units that a handler's buffer for a field holds (32, 64 or 256 bytes)
  MaxLen,      \* bound: length of a field
  Cuts,        \* offsets in the sector at which rewriting it may stop
  MaxFaults    \* bound: saves that fail or are cut off

Slots == {"wifi", "device", "autoconnect", "auth"}
Lens  == 0..MaxLen
Pairs == Lens \X Lens

\* What a length reads as when its byte is still erased (0xFF); no real text is that
\* long.  Erased stands for erased contents of the fields without a length, too.
Erased == 255

ASSUME CutsAssumption == Cuts \subseteq Nat /\ MaxFaults \in Nat
ASSUME RequestsAssumption ==
  /\ BufLen \in Nat \ {0} /\ FieldCap \in Nat \ {0} /\ MaxLen \in Nat /\ MaxLen < Erased
  /\ Requests \subseteq [slot : Slots \cup {"page", "other"}, hdr : Nat \ {0, 1},
                         clen : Nat, creds : Pairs, form : Pairs, bad : BOOLEAN]

Blank == <<0, 0>>
NoReq == [slot |-> "page", hdr |-> 2, clen |-> 0, creds |-> Blank, form |-> Blank, bad |-> FALSE]
Unset == <<>>        \* a flash slot without valid magic
Texts == Nat \X Nat

\* DEFAULT_NAME and DEFAULT_BAUD by their lengths.
DEFAULT_BAUD == 6
Defaults == [s \in Slots |-> IF s = "device" THEN <<9, DEFAULT_BAUD>> ELSE Blank]

\* config.rs: for each configuration, where it starts in the NVS partition, how many
\* bytes a save writes there, and after how many of them its first and its second
\* value are complete.  (A text comes before its length, but for the URL.)
WifiSlot == [offset |-> 0, written |-> 128, first |-> 37, second |-> 102]
DeviceSlot == [offset |-> 128, written |-> 64, first |-> 37, second |-> 44]
AutoconnectSlot == [offset |-> 256, written |-> 384, first |-> 5, second |-> 264]

\* Bug: the slot before is taken for 256 bytes.
AuthSlotAt512 == [offset |-> 512, written |-> 128, first |-> 37, second |-> 88]
AuthSlot == [offset |-> 640, written |-> 128, first |-> 37, second |-> 88]

MagicLen == 4
Layout == [wifi |-> WifiSlot, device |-> DeviceSlot, autoconnect |-> AutoconnectSlot,
           auth |-> AuthSlot]

VARIABLES
  flash,       \* the four slots of the NVS sector
  ram,         \* WIFI_CONFIG, DEVICE_CONFIG, AUTOCONNECT_CONFIG, AUTH_CONFIG
  unsaved,     \* (history) slots whose last save since boot failed, or which a failed
               \* save of another slot damaged
  faults,      \* (history) saves that failed or were cut off
  CONFIG_MODE, \* TRUE: access point; decided at boot
  button,      \* the BOOT button is held
  GPIO0_HELD,  \* its last sample
  pc,          \* http_server: "accept", "reading", "respond", "reset"; or
               \* "panic": the chip has stopped
  req,         \* the request the client is sending
  pos,         \* units of it in the buffer
  eof,         \* (history) the client closed before the request was complete
  resp         \* status of the response

config == <<flash, ram, unsaved, faults, CONFIG_MODE>>
conn == <<pc, req, pos, eof, resp>>
vars == <<config, button, GPIO0_HELD, conn>>

-----------------------------------------------------------------------------
(* Flash and boot. *)

\* What main puts into RAM from flash contents f: an invalid slot gives the
\* defaults.
Load(f) == [s \in Slots |-> IF f[s] = Unset THEN Defaults[s] ELSE f[s]]

\* Saving slot s overwrites the start of slot t's struct.
Overlaps(s, t) ==
  /\ Layout[s].offset < Layout[t].offset + Layout[t].second
  /\ Layout[t].offset < Layout[s].offset + Layout[s].written

\* Flash after v was written to slot s.
Written(s, v) ==
  [t \in Slots |-> IF t = s THEN v ELSE IF Overlaps(s, t) THEN Unset ELSE flash[t]]

\* The sector that should become f was erased, and rewritten up to the cut.  A slot
\* is valid with its magic number alone: what the cut spared of the rest is there, and
\* what it did not reads as erased flash.
Torn(f, cut) ==
  [t \in Slots |->
    IF f[t] = Unset \/ cut < Layout[t].offset + MagicLen THEN Unset
    ELSE <<IF cut < Layout[t].offset + Layout[t].first THEN Erased ELSE f[t][1],
           IF cut < Layout[t].offset + Layout[t].second THEN Erased ELSE f[t][2]>>]

\* Rewriting the sector to f stops somewhere.
Tears(f) == \E cut \in Cuts : flash' = Torn(f, cut)

\* One of the saves that may go wrong does.
Fault == faults < MaxFaults /\ faults' = faults + 1

\* http_server starts with no connection, or the chip stops.
Idle(p) == pc' = p /\ req' = NoReq /\ pos' = 0 /\ eof' = FALSE /\ resp' = 0

\* How a boot on configuration c ends.  ssid_str, password_str (station) and name_str
\* (access point) slice an array of 32 or 64 bytes at the stored length, which panics
\* for an erased one; Uart::new may refuse an erased baud rate, which main unwraps.
BootEnds(c, ap) ==
  IF Erased \in (IF ap THEN {c["device"][1]} ELSE {c["wifi"][1], c["wifi"][2]})
  THEN {"panic"}
  ELSE IF c["device"][2] = Erased THEN {"accept", "panic"}
  ELSE {"accept"}

\* The chip starts with flash contents f.  gpio0_monitor samples the button before
\* the network is up.
Boot(f) ==
  /\ ram' = Load(f)
  /\ unsaved' = {}
  /\ CONFIG_MODE' = (f["wifi"] = Unset)
  /\ GPIO0_HELD' = button
  /\ \E p \in BootEnds(Load(f), f["wifi"] = Unset) : Idle(p)
  /\ UNCHANGED button

Init ==
  /\ flash = [s \in Slots |-> Unset]
  /\ ram = Load(flash)
  /\ unsaved = {} /\ faults = 0
  /\ CONFIG_MODE = TRUE
  /\ button = FALSE /\ GPIO0_HELD = FALSE
  /\ pc = "accept" /\ req = NoReq /\ pos = 0 /\ eof = FALSE /\ resp = 0

\* Power comes back after it was lost between two steps.
Reboot == Boot(flash) /\ UNCHANGED <<flash, faults>>

\* software_reset, 800 ms after a save.
Reset == pc = "reset" /\ Boot(flash) /\ UNCHANGED <<flash, faults>>

Button ==
  /\ button' = ~button
  /\ UNCHANGED <<config, GPIO0_HELD, conn>>

\* Bug: the active-low pin is read the wrong way round.
SampleGpio0High ==
  /\ pc # "panic"
  /\ GPIO0_HELD' = ~button
  /\ UNCHANGED <<config, button, conn>>

\* main.rs:gpio0_monitor, every 100 ms.
SampleGpio0 ==
  /\ pc # "panic"
  /\ GPIO0_HELD' = button
  /\ UNCHANGED <<config, button, conn>>

\* mdns.rs:responder_task, once the station has an address, copies name_str.
MdnsPanics ==
  /\ ~CONFIG_MODE /\ ram["device"][1] = Erased /\ pc # "panic"
  /\ Idle("panic")
  /\ UNCHANGED <<config, button, GPIO0_HELD>>

-----------------------------------------------------------------------------
(* The request as the handler sees it. *)

Least(a, b) == IF a < b THEN a ELSE b

FormLen(f) == 2 + f[1] + f[2]
Size(r) == r.hdr + FormLen(r.form)

\* find_form_value and url_decode_into on the first n units of r's form: what does
\* not fit the field's buffer is dropped.  Of the checkbox `enable` only the key
\* matters.
Field1(r, n) == IF n < 1 THEN 0
                ELSE IF r.slot = "autoconnect" THEN r.form[1]
                ELSE Least(Least(n - 1, r.form[1]), FieldCap)
Field2(r, n) == IF n < 2 + r.form[1] THEN 0
                ELSE Least(Least(n - 2 - r.form[1], r.form[2]), FieldCap)
Fields(r, n) == <<Field1(r, n), Field2(r, n)>>

\* Units of the form among the first n of the request; nothing is taken for a form
\* before the blank line that ends the header.
BodySeen(r, n) == IF n < r.hdr THEN 0 ELSE n - r.hdr

\* Bug: reading stops with the header.
CompleteHeader(r, n) == n >= r.hdr \/ n >= BufLen

\* `need`, once the header is in.
Need(r) == Least(r.hdr + r.clen, BufLen)

\* The loop of handle_request is done: `need` is known and reached, or the buffer
\* is full.
Complete(r, n) ==
  \/ n >= r.hdr /\ n >= Need(r)
  \/ n >= BufLen

\* AuthConfig::is_set
IsSet(auth) == auth[1] > 0 /\ auth[2] > 0

\* AuthConfig::verify; no password has the hash that an erased one leaves.
Verify(auth, creds) == ~IsSet(auth) \/ (creds = auth /\ auth[2] # Erased)

\* Bug: a request without an Authorization header is let through.
AuthorizedBare(r, n) == GPIO0_HELD \/ r.creds = Blank \/ Verify(ram["auth"], r.creds)

\* http.rs:authorized on the first n units.
Authorized(r, n) ==
  \/ GPIO0_HELD
  \/ ~IsSet(ram["auth"])
  \/ n >= 2 /\ Verify(ram["auth"], r.creds)

\* verify slices the stored user name at an erased length.
VerifyPanics(r, n) ==
  /\ ~GPIO0_HELD /\ IsSet(ram["auth"]) /\ ram["auth"][1] = Erased
  /\ n >= 2 /\ r.creds # Blank

\* So do status_json with the SSID and index_page with the device name and the user
\* name, too.
StatusPanics == ram["wifi"][1] = Erased
PagePanics == Erased \in {ram["wifi"][1], ram["device"][1], ram["auth"][1]}

\* AuthConfig::set
SetLogin(v) == IF v[1] = 0 \/ v[2] = 0 THEN Blank ELSE v

\* What each handler stores for the field values v of request r, or Unset if it
\* answers 400: save_wifi needs an SSID, save_device a good name (a baud it cannot use
\* becomes the default), save_auth a user name without a colon.
WifiForm(v) == IF v[1] = 0 THEN Unset ELSE v
DeviceForm(r, v) ==
  IF v[1] = 0 \/ r.bad THEN Unset
  ELSE <<v[1], IF v[2] = 0 THEN DEFAULT_BAUD ELSE v[2]>>
AuthForm(r, v) == IF v[1] > 0 /\ r.bad THEN Unset ELSE SetLogin(v)

Parsed(r, v) ==
  CASE r.slot = "wifi" -> WifiForm(v)
    [] r.slot = "device" -> DeviceForm(r, v)
    [] r.slot = "autoconnect" -> v
    [] r.slot = "auth" -> AuthForm(r, v)

-----------------------------------------------------------------------------
(* http_server and the handlers. *)

Accept(r) ==
  /\ pc = "accept"
  /\ req' = r
  /\ pc' = "reading"
  /\ UNCHANGED <<config, button, GPIO0_HELD, pos, eof, resp>>

Respond(status) ==
  pc' = "respond" /\ resp' = status /\ UNCHANGED <<button, GPIO0_HELD, req>>

\* A handler panics, which stops the chip.
Panic == pc' = "panic" /\ UNCHANGED <<resp, button, GPIO0_HELD, req>>

\* config.rs:save*, then the shared copy; RAM follows whether or not flash did.  A save
\* fails before it touches the sector, or anywhere in rewriting it.
Store(s, v, ok) ==
  /\ IF ok
     THEN flash' = Written(s, v) /\ unsaved' = unsaved \ {s} /\ UNCHANGED faults
     ELSE /\ Fault
          /\ Tears(Written(s, v)) \/ UNCHANGED flash
          /\ unsaved' = unsaved \cup {s} \cup {t \in Slots : flash'[t] # flash[t]}
  /\ ram' = [ram EXCEPT ![s] = v]
  /\ UNCHANGED CONFIG_MODE

\* Bug: no handler resets the chip.
SaveStays(s, v) ==
  \E ok \in BOOLEAN : Store(s, v, ok) /\ Respond(IF ok THEN 200 ELSE 500)

\* save_wifi, save_device, save_autoconnect and save_auth; the last does not reset.
Save(s, v) ==
  \/ /\ Store(s, v, FALSE)
     /\ Respond(500)
  \/ /\ Store(s, v, TRUE)
     /\ IF s = "auth" THEN Respond(200)
        ELSE pc' = "reset" /\ UNCHANGED <<resp, button, GPIO0_HELD, req>>

\* The rest of handle_request, on the first n units of the request.
Serve(n) ==
  /\ pos' = n
  /\ IF VerifyPanics(req, n)
     THEN Panic /\ UNCHANGED config
     ELSE IF ~Authorized(req, n)
     THEN Respond(401) /\ UNCHANGED config
     ELSE IF req.slot = "page"
     THEN /\ (PagePanics /\ Panic) \/ (~StatusPanics /\ Respond(200))
          /\ UNCHANGED config
     ELSE IF req.slot = "other"
     THEN Respond(404) /\ UNCHANGED config
     ELSE LET v == Parsed(req, Fields(req, BodySeen(req, n))) IN
            IF v = Unset
            THEN Respond(400) /\ UNCHANGED config
            ELSE Save(req.slot, v)

\* A read returns n more units.
Receive(n) ==
  /\ pc = "reading" /\ pos + n <= Least(Size(req), BufLen)
  /\ IF Complete(req, pos + n)
     THEN Serve(pos + n)
     ELSE /\ pos' = pos + n
          /\ UNCHANGED <<config, button, GPIO0_HELD, pc, req, resp>>
  /\ UNCHANGED eof

\* The client closes: what has arrived is processed, unless it is nothing.
Eof ==
  /\ pc = "reading"
  /\ IF pos = 0
     THEN Idle("accept") /\ UNCHANGED <<config, button, GPIO0_HELD>>
     ELSE eof' = TRUE /\ Serve(pos)

\* A read fails: reset by the client, or 30 s of silence.
ReadError ==
  /\ pc = "reading"
  /\ Idle("accept")
  /\ UNCHANGED <<config, button, GPIO0_HELD>>

\* Bug: the server waits for the client to close.
RespondedWaits == pc = "respond" /\ UNCHANGED vars

\* The response is written, or writing it failed; the socket is closed.
Responded ==
  /\ pc = "respond"
  /\ Idle("accept")
  /\ UNCHANGED <<config, button, GPIO0_HELD>>

\* Power is lost while the handler, after the last read or the client's close,
\* rewrites the sector.
CutDuringSave(n) ==
  /\ pc = "reading" /\ req.slot \in Slots
  /\ n <= Least(Size(req), BufLen)
  /\ n = pos \/ (n > pos /\ Complete(req, n))
  /\ LET v == Parsed(req, Fields(req, BodySeen(req, n))) IN
       /\ Authorized(req, n) /\ v # Unset
       /\ Fault /\ Tears(Written(req.slot, v))
       /\ Boot(flash')

Http ==
  \/ \E n \in 1..BufLen : Receive(n)
  \/ Eof \/ ReadError \/ Responded

Next ==
  \/ \E r \in Requests : Accept(r)
  \/ Http
  \/ Reset \/ MdnsPanics
  \/ Reboot \/ \E n \in 1..BufLen : CutDuringSave(n)
  \/ Button \/ SampleGpio0

Spec == Init /\ [][Next]_vars

\* Reads end (data, EOF or the 30 s timeout), responses end, the timers of the
\* reset and of gpio0_monitor fire.  Clients, the button, the power and mDNS owe nothing.
FairSpec == Spec /\ WF_vars(Http) /\ WF_vars(Reset) /\ WF_vars(SampleGpio0)

-----------------------------------------------------------------------------
(* Properties. *)

\* Every variable keeps the type of the static, local or flash slot it models.
TypeOK ==
  /\ flash \in [Slots -> Texts \cup {Unset}]
  /\ ram \in [Slots -> Texts]
  /\ unsaved \subseteq Slots /\ faults \in 0..MaxFaults
  /\ CONFIG_MODE \in BOOLEAN
  /\ button \in BOOLEAN /\ GPIO0_HELD \in BOOLEAN
  /\ pc \in {"accept", "reading", "respond", "reset", "panic"}
  /\ req \in Requests \cup {NoReq} /\ pos \in 0..BufLen /\ eof \in BOOLEAN
  /\ resp \in {0, 200, 400, 401, 404, 500}

\* The next boot brings back exactly the configuration in use, slot by slot, but
\* for slots that a save answered with 500 left behind: no save that succeeds disturbs
\* a neighbouring slot of the sector, and no handler leaves RAM and flash apart.
RamIsFlash == \A s \in Slots \ unsaved : ram[s] = Load(flash)[s]

\* The four configurations are the registers of ConfigStore, in the order of the sector:
\* saves, failed saves, boots and power losses, in whatever order requests bring them,
\* are steps of such a store.  A rewrite that stops damages one configuration at most,
\* loses those behind it and leaves the others as they should be.
Registers == INSTANCE ConfigStore
               WITH Names <- Slots, Values <- Texts, Empty <- Unset,
                    Place <- [s \in Slots |-> Layout[s].offset],
                    kept <- flash, used <- ram, failed <- unsaved
ImplementsStore == Registers!StoreSpec

\* The comment on `need`: however the request is split into segments, a save that
\* was acknowledged stored the whole form, each field up to its capacity, if it fits
\* the buffer, its Content-Length covers it and the client kept the connection open.
WholeFormSaved ==
  req.slot \in Slots /\ Size(req) <= BufLen /\ req.clen >= FormLen(req.form) /\ ~eof
    /\ (pc = "reset" \/ (pc = "respond" /\ resp = 200))
    => flash[req.slot] = Parsed(req, Fields(req, FormLen(req.form)))

\* "Network users without the button and without the password cannot get in":
\* while a login is in force and the button is not seen held, a request without the
\* credentials changes no configuration; only a boot may.
NoWayIn ==
  [][ IsSet(ram["auth"]) /\ ~GPIO0_HELD /\ req.creds # ram["auth"]
        => UNCHANGED <<ram, flash>> \/ (ram' = Load(flash) /\ UNCHANGED flash) ]_vars

\* A configuration in use came from a slot that a rewrite did not finish.
Damaged == \E s \in Slots : Erased \in {ram[s][1], ram[s][2]}

\* "it saves to flash and reboots into STA mode", whatever interrupts the handler; only
\* a torn configuration keeps the chip from running then.
StationAfterSave ==
  flash["wifi"] # Unset /\ "wifi" \notin unsaved
    ~> \/ ~CONFIG_MODE /\ pc # "panic"
       \/ flash["wifi"] = Unset
       \/ Damaged

\* Every connection ends, so the one server task is free for the next client; only a
\* torn configuration may stop the chip over it.
Answered == (pc # "accept") ~> (pc = "accept" \/ Damaged)

\* "Hold the BOOT button ...: auth is bypassed for as long as the button is held".
OwnerGetsIn == <>[]button => <>[](pc = "respond" => resp # 401)

\* "To disable the login again, submit the form with both fields blank": a login
\* that was set is not gone after a form in which a field was filled in.
DisabledByBlankForm ==
  [][ IsSet(ram["auth"]) /\ ~IsSet(ram'["auth"]) /\ pc' = "respond"
        => req.form = Blank ]_vars
=============================================================================
