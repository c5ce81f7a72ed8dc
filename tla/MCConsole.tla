----------------------------- MODULE MCConsole ------------------------------
(* Two rows of three columns, with the cursor in the second when the keys    *)
(* come, so that two of them wrap and scroll; a queue of two characters, so  *)
(* that it fills up; a second exception inside the first. The first text has *)
(* two characters, so that one can be in each of the port's registers when   *)
(* serial_init sets it up.                                                   *)
EXTENDS Console

MCBootTexts == << <<"a", "nl">>, <<"a">>, <<"tab">> >>
Hello == <<"a", "nl">>
Panic == <<"!", "nl">>
=============================================================================
