------------------------------- MODULE MCLibc -------------------------------
(* An int of 5 bits and a long of 7, in buffers as tight as those of the     *)
(* code: -16 and 31, -64 and 127 fill theirs. Formats of up to two pieces,   *)
(* and some that are no formats; texts that just fit into an int's length,   *)
(* and such that do not.                                                     *)
EXTENDS Format, Memory

Powers == [b \in {10, 16} |-> [n \in 0 .. LongSize |-> b ^ n]]

NoFormats ==
  { <<"%">>, <<"%", "q">>, <<"%", "l">>, <<"%", "l", "q">>, <<"%", "l", "l">>,
    <<"%", "l", "l", "%">> }

Pieces == Directives \cup { <<"a">> }

MCFormats ==
  { <<p>> : p \in Pieces \cup NoFormats } \cup { <<p, q>> : p, q \in Pieces } \cup
  { <<p, q, <<"a">> >> : p \in { <<"%", "s">>, <<"a">> }, q \in NoFormats }

MCInts   == {-16, -9, -1, 0, 9, 10, 15}
MCUInts  == {0, 9, 15, 16, 31}
MCLongs  == {-64, -10, -1, 0, 9, 63}
MCULongs == {0, 10, 15, 100, 127}

Filler(n) == [k \in 1 .. n |-> "b"]

MCStrings == { << >>, <<"%", "d">>, Filler(14), Filler(15) }

MCCases ==
  { <<"-", "6", "4">>, <<"-", "1", "0">>, <<"0">>, <<"6", "3">>, <<"9">>, <<"9", "9">>,
    <<"-">>, << >>, <<"1", "-">>, <<"-", "b">> }
(* One call of the library in each behaviour: vsprintf, or a loop over a     *)
(* memory of six bytes, which holds six different ones or two strings.       *)
MCContents ==
  { [a \in 0 .. 5 |-> (a + 1) % 6], [a \in 0 .. 5 |-> <<1, 5, 0, 1, 4, 0>>[a + 1]],
    [a \in 0 .. 5 |-> <<1, 2, 0, 1, 2, 0>>[a + 1]], [a \in 0 .. 5 |-> <<1, 7, 0, 1, 0, 0>>[a + 1]] }

MCCalls ==
  { c \in [op : {"memmove", "memcpy", "memset", "memcmp"}, dst : 0 .. 5, src : 0 .. 5,
           size : 0 .. 4, value : {-1, 9}] :
      /\ c.dst + c.size <= 6 /\ c.src + c.size <= 6
      /\ c.op = "memcpy" => c.dst + c.size <= c.src \/ c.src + c.size <= c.dst
      /\ c.op = "memcmp" => c.dst <= c.src
      /\ c.op = "memset" => c.src = 0
      /\ c.op # "memset" => c.value = 9 } \cup
  [op : {"strcmp", "strlen"}, dst : {0, 1}, src : {3}, size : {0}, value : {0}]

(* Where the memory does not matter, it is this one.                         *)
SomeContents == CHOOSE m \in MCContents : TRUE

LibcInit == Init /\ MemInit

LibcNext ==
  \/ now = Nothing /\ mem = SomeContents /\ Next /\ UNCHANGED memVars
  \/ status = "idle" /\ MemNext /\ UNCHANGED vars

LibcSpec == LibcInit /\ [][LibcNext]_<<vars, memVars>> /\ WF_vars(vsprintf)
=============================================================================
