--------------------------- MODULE MCWifiStation ---------------------------
(***************************************************************************)
(* An instance of WifiStation for TLC.                                     *)
(***************************************************************************)
EXTENDS WifiStation

Ask == [len |-> 40, response |-> FALSE, questions |-> 1, labels |-> <<Host, Local>>,
        rest |-> 4, qtype |-> 1, qclass |-> 1]

\* A question for the device, in its variants, and packets that miss it by one field.
SomeQueries ==
  {Ask, [Ask EXCEPT !.qtype = 255, !.qclass = 32769],
   [Ask EXCEPT !.len = 11], [Ask EXCEPT !.response = TRUE], [Ask EXCEPT !.questions = 0],
   [Ask EXCEPT !.rest = 3], [Ask EXCEPT !.qtype = 28], [Ask EXCEPT !.qclass = 2]}
    \cup {[Ask EXCEPT !.labels = l] :
            l \in {<<>>, <<Host>>, <<Local, Host>>, <<Host, Local, "other">>,
                   <<"other", Local>>, <<Host, BadLabel>>}}
=============================================================================
