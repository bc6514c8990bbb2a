----------------------------- MODULE MCWebConfig -----------------------------
(***************************************************************************)
(* Instances of WebConfig for TLC.                                         *)
(***************************************************************************)
EXTENDS WebConfig

Request(slot, creds, form) ==
  [slot |-> slot, hdr |-> 2, clen |-> FormLen(form), creds |-> creds, form |-> form,
   bad |-> FALSE]

Owner == <<1, 2>>

\* Every handler, good and refused forms, with and without the credentials; a header
\* that leaves too little room, a text longer than its field, and a Content-Length
\* that is missing or too long.
SaveRequests ==
  {[Request(slot, Blank, Blank) EXCEPT !.clen = 0] : slot \in {"page", "other"}} \cup
  {[Request("auth", <<1, 1>>, <<1, 1>>) EXCEPT !.clen = 0],
   Request("auth", Blank, <<1, 1>>),
   [Request("auth", Owner, <<1, 0>>) EXCEPT !.bad = TRUE],
   [Request("wifi", <<1, 1>>, <<2, 0>>) EXCEPT !.clen = 5],
   Request("device", Blank, <<1, 0>>),
   [Request("autoconnect", <<1, 1>>, <<0, 1>>) EXCEPT !.hdr = 4]}

\* The login form as the page offers it: the user name is filled in.
LoginRequests ==
  {Request("auth", Owner, form) : form \in {Owner, <<1, 0>>, Blank}}
=============================================================================
