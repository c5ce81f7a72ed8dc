------------------------------- MODULE Memory -------------------------------
(***************************************************************************)
(* The loops of libc/string over a memory of bytes, one byte a step. The   *)
(* regions of memmove may overlap.                                         *)
(***************************************************************************)
EXTENDS Integers

CONSTANTS
  Size,        \* of the memory
  UCHAR,       \* how many values a byte has: 256
  Contents,    \* what the memory may hold at the start
  Calls        \* [op, dst, src, size, value]; the first operand is dst, and
               \* a string ends in the memory

Addresses == 0 .. Size - 1
Bytes     == 0 .. UCHAR - 1

ASSUME MemoryAssumption ==
  /\ Size \in Nat /\ UCHAR \in Nat \ {0}
  /\ Contents \subseteq [Addresses -> Bytes]
  /\ \A c \in Calls :
       /\ c.op \in {"memmove", "memcpy", "memset", "memcmp", "strcmp", "strlen"}
       /\ c.dst \in Nat /\ c.src \in Nat /\ c.size \in Nat /\ c.value \in Int
       /\ c.dst + c.size <= Size /\ c.src + c.size <= Size
       /\ c.op = "memcpy" => c.dst + c.size <= c.src \/ c.src + c.size <= c.dst
       /\ \A m \in Contents :
            /\ c.op \in {"strcmp", "strlen"} => \E z \in c.dst .. Size - 1 : m[z] = 0
            /\ c.op = "strcmp" => \E z \in c.src .. Size - 1 : m[z] = 0

VARIABLES
  mem,
  now,         \* the call in progress, or Nothing
  i,           \* its loop variable
  returned,      \* what it returned, or Nothing
  before       \* history: the memory at its start

memVars == <<mem, now, i, returned, before>>

Nothing == [op |-> "none"]

MemInit ==
  /\ mem \in Contents
  /\ now = Nothing /\ i = 0 /\ returned = Nothing
  /\ before = mem

(* From the end if the destination is above the source. *)
BadDown(c) == FALSE

Down(c) == c.op = "memmove" /\ c.dst >= c.src

Start ==
  /\ now = Nothing
  /\ \E c \in Calls : now' = c /\ i' = IF Down(c) THEN c.size ELSE 0
  /\ before' = mem
  /\ UNCHANGED <<mem, returned>>

Running(op) == now.op = op /\ returned = Nothing

Returns(value) == returned' = [value |-> value] /\ UNCHANGED <<mem, now, i, before>>

Writes(place, byte, next) ==
  /\ mem' = [mem EXCEPT ![now.dst + place] = byte]
  /\ i' = next
  /\ UNCHANGED <<now, returned, before>>

memset ==
  /\ Running("memset")
  /\ IF i < now.size THEN Writes(i, now.value % UCHAR, i + 1) ELSE Returns(now.dst)

memcpy ==
  /\ Running("memcpy")
  /\ IF i < now.size THEN Writes(i, mem[now.src + i], i + 1) ELSE Returns(now.dst)

memmove ==
  /\ Running("memmove")
  /\ IF Down(now)
     THEN IF i # 0 THEN Writes(i - 1, mem[now.src + i - 1], i - 1) ELSE Returns(now.dst)
     ELSE IF i < now.size THEN Writes(i, mem[now.src + i], i + 1) ELSE Returns(now.dst)

Advances == i' = i + 1 /\ UNCHANGED <<mem, now, returned, before>>

memcmp ==
  /\ Running("memcmp")
  /\ IF i = now.size THEN Returns(0)
     ELSE LET a == mem[now.dst + i]
              b == mem[now.src + i]
          IN IF a = b THEN Advances ELSE Returns(IF a < b THEN -1 ELSE 1)

(* Compares signed bytes. *)
BadDifference(a, b) ==
  LET signed(x) == IF x >= UCHAR \div 2 THEN x - UCHAR ELSE x IN signed(a) - signed(b)

Difference(a, b) == a - b

strcmp ==
  /\ Running("strcmp")
  /\ LET a == mem[now.dst + i]
         b == mem[now.src + i]
     IN IF a # 0 /\ a = b THEN Advances ELSE Returns(Difference(a, b))

strlen ==
  /\ Running("strlen")
  /\ IF mem[now.dst + i] # 0 THEN Advances ELSE Returns(i)

MemNext == Start \/ memset \/ memcpy \/ memmove \/ memcmp \/ strcmp \/ strlen

MemSpec == MemInit /\ [][MemNext]_memVars

-----------------------------------------------------------------------------
(* Properties. *)

Region == now.dst .. now.dst + now.size - 1

Expected(a) ==
  CASE now.op = "memset" /\ a \in Region -> now.value % UCHAR
    [] now.op \in {"memmove", "memcpy"} /\ a \in Region -> before[now.src + (a - now.dst)]
    [] OTHER -> before[a]

(* When a function has returned, the destination holds the bytes that the  *)
(* source held at the call, or the low byte of the value, and nothing else *)
(* has changed: a copy never reads what it has already overwritten, also   *)
(* where the regions of memmove overlap.                                   *)
RegionMoved == returned # Nothing => \A a \in Addresses : mem[a] = Expected(a)

(* The comparisons agree with the order of the first bytes that differ, as *)
(* unsigned numbers, and strlen finds the first NUL.                       *)
Compared ==
  LET a(k)   == mem[now.dst + k]
      b(k)   == mem[now.src + k]
      differ == { k \in 0 .. Size - 1 - now.src :
                    /\ a(k) # b(k) /\ \A j \in 0 .. k - 1 : a(j) = b(j)
                    /\ IF now.op = "memcmp" THEN k < now.size ELSE \A j \in 0 .. k - 1 : a(j) # 0 }
  IN returned # Nothing =>
       /\ now.op \in {"memcmp", "strcmp"} =>
            /\ returned.value < 0 <=> \E k \in differ : a(k) < b(k)
            /\ returned.value > 0 <=> \E k \in differ : a(k) > b(k)
       /\ now.op = "strlen" =>
            a(returned.value) = 0 /\ \A k \in 0 .. returned.value - 1 : a(k) # 0
=============================================================================
