----------------------------- MODULE MCSlcanPort -----------------------------
(***************************************************************************)
(* An instance of SlcanPort for TLC.  The line buffer holds exactly the    *)
(* longest transmit line.                                                  *)
(***************************************************************************)
EXTENDS SlcanPort

Zeros(n) == [i \in 1..n |-> 48]

\* Identifiers at their limits (7FF and 800, 1FFFFFFF and 20000000), with digits
\* of every kind, and a bad one.
StdIds == {<<48, 48, 48>>, <<55, 70, 70>>, <<56, 48, 48>>, <<49, 97, 66>>, <<49, 71, 48>>}
ExtIds == {<<49>> \o [i \in 1..7 |-> 70], <<50>> \o Zeros(7),
           <<48, 49, 50, 51, 97, 98, 67, 68>>}

\* Length codes 0, 1, 8, 9 and f with too little data, enough, and too much.
Tails ==
  {<<48>>, <<48, 48>>, <<49>>, <<49, 97>>, <<49, 97, 53>>, <<49, 71, 53>>,
   <<57>> \o Zeros(17), <<102>>,
   <<56>> \o [i \in 1..16 |-> IF i % 2 = 0 THEN 57 ELSE 100], <<56>> \o Zeros(15)}

HostLines ==
  {<<k>> \o id \o t : k \in {Ch_t, Ch_r}, id \in StdIds, t \in Tails}
    \cup {<<k>> \o id \o t : k \in {Ch_T, Ch_R}, id \in ExtIds, t \in Tails}
    \cup {<<Ch_t>>, <<Ch_T>> \o Zeros(8)}

\* A frame behind an overlong part, which ends with the 27th byte.
Overlong == {[i \in 1..27 |-> 120] \o <<Ch_t, 49, 50, 51, 48>>,
             Zeros(26) \o <<Ch_t, 49, 50, 51, 48>>,
             [i \in 1..54 |-> Ch_t] \o <<49, 50, 51, 48>>}

HostStreams == HostLines \cup Overlong
ClockValues == {NoStamp, 0, 59999}
=============================================================================
