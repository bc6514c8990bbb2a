----------------------------- MODULE ConfigStore -----------------------------
(***************************************************************************)
(* What the persistent configuration promises, without sectors, offsets or *)
(* requests: registers that are saved one at a time.  A register that is   *)
(* saved changes no other, and a boot runs on exactly what is kept.        *)
(*                                                                         *)
(* A save that is interrupted promises less.  The registers are rewritten  *)
(* in order: those before the one at which rewriting stops are as they     *)
(* should be, that one may hold anything, and those behind it are lost.    *)
(*                                                                         *)
(* WebConfig implements this with four slots of one flash sector.          *)
(***************************************************************************)
EXTENDS Naturals

CONSTANTS Names,    \* the registers
          Values,   \* what a register may hold
          Empty,    \* a register that was never saved, or lost
          Defaults, \* what runs in place of an empty register
          Place     \* their order

VARIABLES kept,     \* the registers
          used,     \* the configuration in use
          failed    \* registers that failed saves since boot left behind

svars == <<kept, used, failed>>

Loaded(k) == [s \in Names |-> IF k[s] = Empty THEN Defaults[s] ELSE k[s]]

StoreInit ==
  /\ kept = [s \in Names |-> Empty]
  /\ used = Loaded(kept)
  /\ failed = {}

\* A new value of register s is put into use.
Use(s) ==
  /\ used' = [used EXCEPT ![s] = used'[s]]
  /\ used'[s] \in Values

\* Register s is saved.
SaveTo(s) ==
  /\ Use(s)
  /\ kept' = [kept EXCEPT ![s] = used'[s]]
  /\ failed' = failed \ {s}

Before(s, t) == Place[s] < Place[t]

\* Rewriting the registers for a save of register s stops in register d.
StopsIn(d, s) ==
  /\ kept' \in [Names -> Values \cup {Empty}]
  /\ \A t \in Names :
       /\ Before(t, d) /\ t # s => kept'[t] = kept[t]
       /\ Before(t, d) /\ t = s => kept'[t] # Empty
       /\ Before(d, t) => kept'[t] = Empty

\* Saving register s fails, before it changed anything or while rewriting.
SaveFails(s) ==
  /\ Use(s)
  /\ \/ UNCHANGED kept
     \/ \E d \in Names : StopsIn(d, s) /\ (Before(s, d) => kept'[s] = used'[s])
  /\ failed' = failed \cup {s} \cup {t \in Names : kept'[t] # kept[t]}

\* A boot.
Restart ==
  /\ used' = Loaded(kept')
  /\ failed' = {}

\* Power is lost while register s is being saved, and comes back.
PowerLoss(s) ==
  /\ Restart
  /\ \E d \in Names : StopsIn(d, s)

StoreNext ==
  \/ \E s \in Names : SaveTo(s) \/ SaveFails(s) \/ PowerLoss(s)
  \/ Restart /\ UNCHANGED kept

StoreSpec == StoreInit /\ [][StoreNext]_svars
=============================================================================
