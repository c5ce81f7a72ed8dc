---------------------------- MODULE MemoryProofs ----------------------------
(***************************************************************************)
(* Proof that the loops of libc/string move what they should, for regions  *)
(* of any size and overlap, and that the comparisons and strlen are right. *)
(* At every turn of a loop that writes, the bytes it has gone over are     *)
(* right, and the others are still those of the call; that a byte still to *)
(* be read is one of the latter is what the direction is for. A loop that  *)
(* only reads has found equal bytes, or no NUL, in all it has gone over.   *)
(***************************************************************************)
EXTENDS Memory, TLAPS

Writing == {"memset", "memcpy", "memmove"}

(* What a loop has gone over. *)
Written == IF Down(now) THEN now.dst + i .. now.dst + now.size - 1
                        ELSE now.dst .. now.dst + i - 1

Typed ==
  /\ mem \in [Addresses -> Bytes] /\ before \in Contents
  /\ now = Nothing \/ now \in Calls
  /\ i \in Nat

LoopInv ==
  /\ now.op \notin Writing => mem = before
  /\ now.op \in Writing =>
       /\ i <= now.size
       /\ returned # Nothing => i = IF Down(now) THEN 0 ELSE now.size
       /\ \A a \in Addresses : mem[a] = IF a \in Written THEN Expected(a) ELSE before[a]

(* What a comparison has gone over is equal, and what strcmp or strlen has *)
(* gone over has no NUL; the byte it is at decides what it returned.       *)
Equal(k)  == mem[now.dst + k] = mem[now.src + k]
Ended(k)  == mem[now.dst + k] = 0

Decided ==
  CASE now.op = "memcmp" ->
         IF i = now.size THEN returned.value = 0
         ELSE /\ ~Equal(i)
              /\ returned.value = IF mem[now.dst + i] < mem[now.src + i] THEN -1 ELSE 1
    [] now.op = "strcmp" ->
         /\ Ended(i) \/ ~Equal(i)
         /\ returned.value = mem[now.dst + i] - mem[now.src + i]
    [] now.op = "strlen" -> Ended(i) /\ returned.value = i

ScanInv ==
  now.op \in {"memcmp", "strcmp", "strlen"} =>
    /\ now.op = "memcmp" => i <= now.size
    /\ now.op \in {"memcmp", "strcmp"} => \A k \in 0 .. i - 1 : Equal(k)
    /\ now.op \in {"strcmp", "strlen"} => \A k \in 0 .. i - 1 : ~Ended(k)
    /\ returned # Nothing => Decided

Inv == Typed /\ (now = Nothing => returned = Nothing /\ mem \in Contents) /\ LoopInv /\ ScanInv

(* What the callers of libc/string pass.                                   *)
LEMMA CallTypes ==
  ASSUME NEW c \in Calls
  PROVE  /\ c.op \in {"memmove", "memcpy", "memset", "memcmp", "strcmp", "strlen"}
         /\ c.dst \in Nat /\ c.src \in Nat /\ c.size \in Nat /\ c.value \in Int
         /\ c.dst + c.size <= Size /\ c.src + c.size <= Size
         /\ c.op = "memcpy" => c.dst + c.size <= c.src \/ c.src + c.size <= c.dst
         /\ \A m \in Contents :
              /\ c.op \in {"strcmp", "strlen"} => \E z \in c.dst .. Size - 1 : m[z] = 0
              /\ c.op = "strcmp" => \E z \in c.src .. Size - 1 : m[z] = 0
  BY MemoryAssumption

(* A turn of a writing loop, up or down, copies or sets the right byte.    *)
LEMMA Turn ==
  ASSUME Inv, returned = Nothing, now.op \in Writing,
         NEW place \in Nat, NEW byte, NEW next \in Nat, Writes(place, byte, next),
         IF Down(now) THEN i # 0 /\ place = i - 1 /\ next = i - 1
                      ELSE i < now.size /\ place = i /\ next = i + 1,
         byte = IF now.op = "memset" THEN now.value % UCHAR ELSE mem[now.src + place]
  PROVE  Inv'
  <1>1. now \in Calls
    BY DEF Inv, Typed, Nothing, Writing
  <1>2. /\ now.dst \in Nat /\ now.src \in Nat /\ now.size \in Nat /\ now.value \in Int
        /\ now.dst + now.size <= Size /\ now.src + now.size <= Size
        /\ now.op = "memcpy" => now.dst + now.size <= now.src \/ now.src + now.size <= now.dst
    BY <1>1, CallTypes
  <1>3. i \in Nat /\ i <= now.size /\ place < now.size
    BY <1>2 DEF Inv, Typed, LoopInv
  <1>4. /\ now' = now /\ before' = before /\ returned' = returned /\ i' = next
        /\ mem' = [mem EXCEPT ![now.dst + place] = byte]
    BY DEF Writes
  <1>5. /\ now.dst + place \in Addresses /\ now.src + place \in Addresses
        /\ mem \in [Addresses -> Bytes]
    <2>1. Size \in Nat
      BY MemoryAssumption
    <2>2. now.dst + place \in Addresses /\ now.src + place \in Addresses
      BY <1>2, <1>3, <2>1 DEF Addresses
    <2> QED BY <2>2 DEF Inv, Typed
  <1>6. byte = Expected(now.dst + place)
    <2>1. now.dst + place \in now.dst .. now.dst + now.size - 1
      BY <1>2, <1>3
    <2>2. CASE now.op = "memset"
      BY <2>1, <2>2 DEF Expected, Region
    <2>3. CASE now.op # "memset"
      <3>1. Expected(now.dst + place) = before[now.src + place]
        <4> DEFINE x == now.dst + place
        <4>1. now.op \in {"memmove", "memcpy"} /\ x \in Region
          BY <2>1, <2>3 DEF Region, Writing
        <4>2. Expected(x) = before[now.src + (x - now.dst)]
          BY <2>3, <4>1 DEF Expected
        <4>3. now.src + (x - now.dst) = now.src + place
          BY <1>2, <1>3
        <4> HIDE DEF x
        <4>4. Expected(x) = before[now.src + place]
          BY <4>2, <4>3
        <4> QED BY <4>4 DEF x
      <3>2. now.src + place \notin Written
        <4>1. CASE now.op = "memcpy"
          <5>1. Written = now.dst .. now.dst + i - 1
            BY <4>1 DEF Written, Down
          <5>2. now.dst + now.size <= now.src \/ now.src + now.size <= now.dst
            BY <1>2, <4>1
          <5>3. CASE now.dst + now.size <= now.src
            BY <1>2, <1>3, <5>1, <5>3
          <5>4. CASE now.src + now.size <= now.dst
            BY <1>2, <1>3, <5>1, <5>4
          <5> QED BY <5>2, <5>3, <5>4
        <4>2. CASE now.op = "memmove" /\ now.dst < now.src
          <5>1. ~Down(now) /\ Written = now.dst .. now.dst + i - 1 /\ place = i
            BY <1>2, <4>2 DEF Written, Down
          <5> QED BY <1>2, <1>3, <4>2, <5>1
        <4>3. CASE now.op = "memmove" /\ now.dst >= now.src
          <5>1. Written = now.dst + i .. now.dst + now.size - 1 /\ place = i - 1
            BY <4>3 DEF Written, Down
          <5> QED BY <1>2, <1>3, <4>3, <5>1
        <4> QED BY <1>2, <2>3, <4>1, <4>2, <4>3 DEF Writing
      <3>3. mem[now.src + place] = before[now.src + place]
        BY <1>5, <3>2 DEF Inv, LoopInv
      <3> QED BY <2>3, <3>1, <3>3
    <2> QED BY <2>2, <2>3
  <1>7. byte \in Bytes
    <2>1. CASE now.op = "memset"
      <3>1. now.value % UCHAR \in 0 .. UCHAR - 1
        BY <1>2, MemoryAssumption
      <3> QED BY <2>1, <3>1 DEF Bytes
    <2>2. CASE now.op # "memset"
      BY <1>5, <2>2
    <2> QED BY <2>1, <2>2
  <1>8. Written' = Written \cup {now.dst + place}
    BY <1>2, <1>3, <1>4 DEF Written, Down
  <1>9. \A a \in Addresses : Expected(a)' = Expected(a)
    BY <1>4 DEF Expected, Region
  <1>10. \A a \in Addresses : mem'[a] = IF a \in Written' THEN Expected(a)' ELSE before'[a]
    <2> SUFFICES ASSUME NEW a \in Addresses
                 PROVE  mem'[a] = IF a \in Written' THEN Expected(a)' ELSE before'[a]
      OBVIOUS
    <2>1. CASE a = now.dst + place
      BY <2>1, <1>4, <1>5, <1>6, <1>8, <1>9
    <2>2. CASE a # now.dst + place
      <3>1. mem'[a] = mem[a]
        BY <2>2, <1>4, <1>5
      <3> QED BY <2>2, <3>1, <1>4, <1>8, <1>9 DEF Inv, LoopInv
    <2> QED BY <2>1, <2>2
  <1>11. LoopInv'
    BY <1>2, <1>3, <1>4, <1>10 DEF LoopInv
  <1>12. Typed'
    BY <1>4, <1>5, <1>7 DEF Typed, Inv
  <1>13. ScanInv'
    BY <1>4 DEF ScanInv, Writing
  <1> QED BY <1>1, <1>4, <1>11, <1>12, <1>13, CallTypes DEF Inv, Nothing

(* A call that returns, or a turn that only advances, writes nothing.      *)
LEMMA NoWrite ==
  ASSUME Inv, now # Nothing, UNCHANGED <<mem, now, before>>, i' \in Nat,
         now.op \in Writing => i' = i /\ (returned' # Nothing => i = IF Down(now) THEN 0 ELSE now.size),
         now.op \notin Writing => ScanInv'
  PROVE  Inv'
  <1>1. \A a \in Addresses : Expected(a)' = Expected(a)
    BY DEF Expected, Region
  <1>2. Typed' /\ now' # Nothing
    BY DEF Inv, Typed
  <1>3. LoopInv'
    <2>1. CASE now.op \in Writing
      <3>1. Written' = Written
        BY <2>1 DEF Written, Down
      <3> QED BY <1>1, <1>2, <2>1, <3>1 DEF Inv, LoopInv, Down
    <2>2. CASE now.op \notin Writing
      BY <1>2, <2>2 DEF Inv, LoopInv
    <2> QED BY <2>1, <2>2
  <1>4. ScanInv'
    BY DEF ScanInv, Writing
  <1> QED BY <1>2, <1>3, <1>4 DEF Inv

(* A turn of a loop that compares or looks for the NUL.                    *)
LEMMA Scan ==
  ASSUME Inv, memcmp \/ strcmp \/ strlen
  PROVE  ScanInv'
  <1>1. now \in Calls /\ UNCHANGED <<mem, now>> /\ returned = Nothing
    BY DEF Inv, Typed, memcmp, strcmp, strlen, Running, Nothing, Advances, Returns
  <1>2. i \in Nat /\ now.size \in Nat
    BY <1>1, CallTypes DEF Inv, Typed
  <1>3. ASSUME NEW k \in 0 .. i' - 1, Advances PROVE k \in 0 .. i - 1 \/ k = i
    BY <1>2, <1>3 DEF Advances
  <1>4. \A k : (Equal(k)' <=> Equal(k)) /\ (Ended(k)' <=> Ended(k))
    BY <1>1 DEF Equal, Ended
  <1>5. ASSUME NEW value, Returns(value), Decided'
        PROVE  ScanInv'
    BY <1>1, <1>4, <1>5 DEF ScanInv, Returns, Inv
  <1>6. CASE memcmp
    <2>1. now.op = "memcmp" /\ i <= now.size
      BY <1>6 DEF memcmp, Running, Inv, ScanInv
    <2>2. CASE i = now.size
      BY <1>1, <1>5, <1>6, <2>1, <2>2 DEF memcmp, Decided, Returns
    <2>3. CASE i # now.size /\ Equal(i)
      <3>1. Advances /\ i' <= now.size
        BY <1>2, <1>6, <2>1, <2>3 DEF memcmp, Equal, Advances
      <3> QED BY <1>1, <1>3, <1>4, <2>1, <2>3, <3>1 DEF ScanInv, Inv, Advances
    <2>4. CASE i # now.size /\ ~Equal(i)
      BY <1>1, <1>5, <1>6, <2>1, <2>4 DEF memcmp, Decided, Returns, Equal
    <2> QED BY <2>2, <2>3, <2>4
  <1>7. CASE strcmp
    <2>1. now.op = "strcmp"
      BY <1>7 DEF strcmp, Running
    <2>2. CASE ~Ended(i) /\ Equal(i)
      <3>1. Advances
        BY <1>7, <2>2 DEF strcmp, Equal, Ended
      <3> QED BY <1>1, <1>3, <1>4, <2>1, <2>2, <3>1 DEF ScanInv, Inv, Advances
    <2>3. CASE Ended(i) \/ ~Equal(i)
      BY <1>1, <1>5, <1>7, <2>1, <2>3 DEF strcmp, Decided, Returns, Equal, Ended, Difference
    <2> QED BY <2>2, <2>3
  <1>8. CASE strlen
    <2>1. now.op = "strlen"
      BY <1>8 DEF strlen, Running
    <2>2. CASE ~Ended(i)
      <3>1. Advances
        BY <1>8, <2>2 DEF strlen, Ended
      <3> QED BY <1>1, <1>3, <1>4, <2>1, <2>2, <3>1 DEF ScanInv, Inv, Advances
    <2>3. CASE Ended(i)
      BY <1>1, <1>5, <1>8, <2>1, <2>3 DEF strlen, Decided, Returns, Ended
    <2> QED BY <2>2, <2>3
  <1> QED BY <1>6, <1>7, <1>8

(* Inv holds in every state: one step for each loop.                       *)
LEMMA InvIsInvariant == MemSpec => []Inv
  <1>1. MemInit => Inv
    BY MemoryAssumption DEF MemInit, Inv, Typed, LoopInv, ScanInv, Nothing, Writing
  <1>2. Inv /\ [MemNext]_memVars => Inv'
    <2> SUFFICES ASSUME Inv, [MemNext]_memVars PROVE Inv'
      OBVIOUS
    <2>1. CASE Start
      <3>1. PICK c \in Calls : now' = c /\ i' = IF Down(c) THEN c.size ELSE 0
        BY <2>1 DEF Start
      <3>2. c.size \in Nat /\ c.dst \in Nat /\ c # Nothing
        BY CallTypes DEF Nothing
      <3>3. Written' = {}
        BY <3>1, <3>2 DEF Written, Down
      <3>4. UNCHANGED <<mem, returned>> /\ before' = mem /\ returned = Nothing /\ mem \in Contents
        BY <2>1 DEF Start, Inv
      <3>5. Typed'
        BY <3>1, <3>2, <3>4 DEF Inv, Typed
      <3>6. LoopInv'
        BY <3>1, <3>2, <3>3, <3>4 DEF LoopInv, Down
      <3>7. ScanInv'
        <4>1. now'.op \in {"memcmp", "strcmp", "strlen"} => i' = 0
          BY <3>1 DEF Down
        <4> QED BY <3>1, <3>2, <3>4, <4>1 DEF ScanInv
      <3> QED BY <3>1, <3>2, <3>4, <3>5, <3>6, <3>7 DEF Inv
    <2>2. CASE memset
      <3>1. now.op = "memset" /\ returned = Nothing /\ ~Down(now) /\ now # Nothing
        BY <2>2 DEF memset, Running, Down, Nothing
      <3>2. CASE i < now.size
        BY <2>2, <3>1, <3>2, Turn DEF memset, Writing, Inv, Typed
      <3>3. CASE ~(i < now.size)
        <4>1. i = now.size
          BY <3>1, <3>3, CallTypes DEF Inv, Typed, LoopInv, Writing
        <4> QED BY <2>2, <3>1, <3>3, <4>1, NoWrite DEF memset, Returns, Writing, Inv, Typed
      <3> QED BY <3>2, <3>3
    <2>3. CASE memcpy
      <3>1. now.op = "memcpy" /\ returned = Nothing /\ ~Down(now) /\ now # Nothing
        BY <2>3 DEF memcpy, Running, Down, Nothing
      <3>2. CASE i < now.size
        BY <2>3, <3>1, <3>2, Turn DEF memcpy, Writing, Inv, Typed
      <3>3. CASE ~(i < now.size)
        <4>1. i = now.size
          BY <3>1, <3>3, CallTypes DEF Inv, Typed, LoopInv, Writing
        <4> QED BY <2>3, <3>1, <3>3, <4>1, NoWrite DEF memcpy, Returns, Writing, Inv, Typed
      <3> QED BY <3>2, <3>3
    <2>4. CASE memmove
      <3>1. now.op = "memmove" /\ returned = Nothing /\ now # Nothing
        BY <2>4 DEF memmove, Running, Nothing
      <3>2. CASE Down(now) /\ i # 0
        <4>1. i - 1 \in Nat /\ now.src + i - 1 = now.src + (i - 1)
          BY <3>1, <3>2, CallTypes DEF Inv, Typed
        <4> QED BY <2>4, <3>1, <3>2, <4>1, Turn DEF memmove, Writing
      <3>3. CASE ~Down(now) /\ i < now.size
        BY <2>4, <3>1, <3>3, Turn DEF memmove, Writing, Inv, Typed
      <3>4. CASE (Down(now) /\ i = 0) \/ (~Down(now) /\ ~(i < now.size))
        <4>1. i = IF Down(now) THEN 0 ELSE now.size
          BY <3>1, <3>4, CallTypes DEF Inv, Typed, LoopInv, Writing
        <4> QED BY <2>4, <3>1, <3>4, <4>1, NoWrite DEF memmove, Returns, Writing, Inv, Typed
      <3> QED BY <3>2, <3>3, <3>4
    <2>5. CASE memcmp \/ strcmp \/ strlen
      <3>1. now.op \notin Writing /\ now # Nothing
        BY <2>5 DEF memcmp, strcmp, strlen, Running, Writing, Nothing
      <3>2. UNCHANGED <<mem, now, before>> /\ i' \in {i, i + 1}
        BY <2>5 DEF memcmp, strcmp, strlen, Advances, Returns
      <3> QED BY <2>5, <3>1, <3>2, NoWrite, Scan DEF Inv, Typed
    <2>6. CASE UNCHANGED memVars
      <3>1. Typed' /\ LoopInv' /\ (now = Nothing => returned = Nothing /\ mem \in Contents)'
        BY <2>6 DEF memVars, Inv, Typed, LoopInv, Written, Down, Expected, Region
      <3>2. ScanInv'
        BY <2>6 DEF memVars, Inv, ScanInv, Decided, Equal, Ended
      <3> QED BY <3>1, <3>2 DEF Inv
    <2> QED BY <2>1, <2>2, <2>3, <2>4, <2>5, <2>6 DEF MemNext
  <1> QED BY <1>1, <1>2, PTL DEF MemSpec

(* When memmove, memcpy or memset has returned, the destination holds what *)
(* the source held at the call, or the byte, and nothing else has changed, *)
(* for every size of the regions and wherever they lie.                    *)
THEOREM RegionMovedIsInvariant == MemSpec => []RegionMoved
  <1>1. Inv => RegionMoved
    <2> SUFFICES ASSUME Inv, returned # Nothing, NEW a \in Addresses PROVE mem[a] = Expected(a)
      BY DEF RegionMoved
    <2>1. now \in Calls
      BY DEF Inv, Typed
    <2>2. CASE now.op \notin Writing
      BY <2>2 DEF Inv, LoopInv, Expected, Writing
    <2>3. CASE now.op \in Writing
      <3>1. now.dst \in Nat /\ now.size \in Nat
        BY <2>1, CallTypes
      <3>2. Written = Region
        BY <2>3, <3>1 DEF Inv, LoopInv, Written, Region
      <3>3. a \notin Region => Expected(a) = before[a]
        BY DEF Expected
      <3> QED BY <2>3, <3>2, <3>3 DEF Inv, LoopInv
    <2> QED BY <2>2, <2>3
  <1> QED BY <1>1, InvIsInvariant, PTL

(* A comparison that has returned is at a byte of the memory.              *)
LEMMA InMemory ==
  ASSUME Inv, now \in Calls, now.op \in {"strcmp", "memcmp"},
         returned # Nothing, now.op = "strcmp" \/ i < now.size
  PROVE  /\ mem[now.dst + i] \in Int /\ mem[now.src + i] \in Int
         /\ now.src + i < Size
  <1>1. /\ mem \in [Addresses -> Bytes] /\ mem \in Contents /\ i \in Nat
        /\ Size \in Nat /\ now.dst \in Nat /\ now.src \in Nat /\ now.size \in Nat
        /\ now.dst + now.size <= Size /\ now.src + now.size <= Size
    BY CallTypes, MemoryAssumption DEF Inv, Typed, LoopInv, Writing
  <1>0. /\ i \in Nat /\ Size \in Nat /\ now.dst \in Nat /\ now.src \in Nat
        /\ now.size \in Nat /\ now.dst + now.size <= Size /\ now.src + now.size <= Size
    BY <1>1
  <1>2. \A a \in Addresses : mem[a] \in Int
    BY <1>1, MemoryAssumption DEF Bytes
  <1>3. now.dst + i \in Addresses /\ now.src + i \in Addresses
    <2>1. CASE now.op = "memcmp"
      BY <1>0, <2>1 DEF Addresses
    <2>2. CASE now.op = "strcmp"
      <3>1. \A k \in 0 .. i - 1 : ~Ended(k) /\ Equal(k)
        BY <2>2 DEF Inv, ScanInv
      <3>2. PICK z \in now.dst .. Size - 1 : mem[z] = 0
        BY <1>1, <2>2, CallTypes
      <3>3. PICK y \in now.src .. Size - 1 : mem[y] = 0
        BY <1>1, <2>2, CallTypes
      <3>4. ~(z < now.dst + i)
        <4> SUFFICES ASSUME z < now.dst + i PROVE FALSE
          OBVIOUS
        <4>1. z - now.dst \in 0 .. i - 1 /\ now.dst + (z - now.dst) = z
          BY <1>1, <3>2
        <4> QED BY <3>1, <3>2, <4>1 DEF Ended
      <3>5. ~(y < now.src + i)
        <4> SUFFICES ASSUME y < now.src + i PROVE FALSE
          OBVIOUS
        <4>1. y - now.src \in 0 .. i - 1 /\ now.src + (y - now.src) = y
          BY <1>1, <3>3
        <4>2. mem[now.src + (y - now.src)] = 0
          BY <3>3, <4>1
        <4>3. ~Ended(y - now.src) /\ Equal(y - now.src)
          BY <3>1, <4>1
        <4> QED BY <4>2, <4>3 DEF Ended, Equal
      <3>6. now.dst + i \in Nat /\ now.dst + i < Size
        <4>1. z \in Int /\ z <= Size - 1
          BY <1>0, <3>2
        <4> QED BY <1>0, <3>4, <4>1
      <3>7. now.src + i \in Nat /\ now.src + i < Size
        <4>1. y \in Int /\ y <= Size - 1
          BY <1>0, <3>3
        <4>2. now.src + i \in Nat /\ now.src + i <= y
          BY <1>0, <3>5, <4>1
        <4> QED BY <1>0, <4>1, <4>2
      <3> QED BY <1>0, <3>6, <3>7 DEF Addresses
    <2> QED BY <2>1, <2>2
  <1>4. now.src + i < Size
    BY <1>0, <1>3 DEF Addresses
  <1> QED BY <1>2, <1>3, <1>4

(* A place where two regions differ first is the one the loop stopped at.  *)
LEMMA FirstDifference ==
  ASSUME Inv, now \in Calls, now.op \in {"strcmp", "memcmp"}, returned # Nothing,
         NEW k \in Nat, ~Equal(k), \A j \in 0 .. k - 1 : Equal(j),
         IF now.op = "memcmp" THEN k < now.size ELSE \A j \in 0 .. k - 1 : ~Ended(j)
  PROVE  k = i
  <1>1. i \in Nat /\ now.size \in Nat /\ (\A j \in 0 .. i - 1 : Equal(j)) /\ Decided
    BY CallTypes DEF Inv, Typed, ScanInv
  <1>2. i <= k
    BY <1>1
  <1>3. ~(i < k)
    <2> SUFFICES ASSUME i < k PROVE FALSE
      OBVIOUS
    <2>1. Equal(i)
      BY <1>1
    <2>2. CASE now.op = "memcmp"
      BY <1>1, <2>1, <2>2 DEF Decided
    <2>3. CASE now.op = "strcmp"
      <3>1. ~Ended(i)
        BY <1>1, <2>3
      <3> QED BY <1>1, <2>1, <2>3, <3>1 DEF Decided
    <2> QED BY <2>2, <2>3
  <1> QED BY <1>1, <1>2, <1>3

(* memcmp and strcmp return the order of the first bytes that differ, as   *)
(* unsigned numbers, and strlen the distance to the first NUL, for strings *)
(* and regions of any length.                                              *)
THEOREM ComparedIsInvariant == MemSpec => []Compared
  <1>1. Inv => Compared
    <2> SUFFICES ASSUME Inv, returned # Nothing PROVE Compared
      BY DEF Compared
    <2>1. now \in Calls /\ i \in Nat
      BY DEF Inv, Typed
    <2> DEFINE differ == { k \in 0 .. Size - 1 - now.src :
                    /\ mem[now.dst + k] # mem[now.src + k]
                    /\ \A j \in 0 .. k - 1 : mem[now.dst + j] = mem[now.src + j]
                    /\ IF now.op = "memcmp" THEN k < now.size
                       ELSE \A j \in 0 .. k - 1 : mem[now.dst + j] # 0 }
    <2>2. ASSUME now.op \in {"memcmp", "strcmp"}
          PROVE  /\ returned.value < 0 <=> \E k \in differ : mem[now.dst + k] < mem[now.src + k]
                 /\ returned.value > 0 <=> \E k \in differ : mem[now.dst + k] > mem[now.src + k]
      <3>1. Decided
        BY <2>2 DEF Inv, ScanInv
      <3>2. \A k \in differ : k = i
        BY <2>1, <2>2, FirstDifference DEF Equal, Ended
      <3>3. CASE Equal(i) \/ (now.op = "memcmp" /\ i = now.size)
        <4>1. differ = {}
          <5> SUFFICES ASSUME NEW k \in differ PROVE FALSE
            OBVIOUS
          <5>1. k = i /\ ~Equal(k)
            BY <3>2 DEF Equal
          <5>2. now.op = "memcmp" /\ i = now.size /\ k < now.size
            BY <3>3, <5>1
          <5> QED BY <2>1, <5>1, <5>2
        <4>2. returned.value = 0
          <5>1. CASE now.op = "memcmp"
            BY <3>1, <3>3, <5>1 DEF Decided
          <5>2. CASE now.op = "strcmp"
            <6>1. mem[now.dst + i] \in Int /\ mem[now.dst + i] = mem[now.src + i]
              BY <2>1, <3>3, <5>2, InMemory DEF Equal
            <6> QED BY <3>1, <5>2, <6>1 DEF Decided
          <5> QED BY <2>2, <5>1, <5>2
        <4> QED BY <4>1, <4>2
      <3>4. CASE ~Equal(i) /\ (now.op = "memcmp" => i # now.size)
        <4>1. now.op = "strcmp" \/ i < now.size
          BY <2>1, <2>2, <3>4, CallTypes DEF Inv, ScanInv
        <4>2. mem[now.dst + i] \in Int /\ mem[now.src + i] \in Int
          BY <2>1, <2>2, <4>1, InMemory
        <4>3. i \in differ
          <5>1. /\ \A j \in 0 .. i - 1 : mem[now.dst + j] = mem[now.src + j]
                /\ now.op = "strcmp" => \A j \in 0 .. i - 1 : mem[now.dst + j] # 0
            BY <2>2 DEF Inv, ScanInv, Equal, Ended
          <5>2. i \in 0 .. Size - 1 - now.src
            BY <2>1, <2>2, <4>1, InMemory, CallTypes, MemoryAssumption
          <5> QED BY <2>2, <3>4, <4>1, <5>1, <5>2 DEF Equal
        <4>4. /\ returned.value < 0 <=> mem[now.dst + i] < mem[now.src + i]
              /\ returned.value > 0 <=> mem[now.dst + i] > mem[now.src + i]
          <5>1. CASE now.op = "memcmp"
            BY <3>1, <3>4, <4>2, <5>1 DEF Decided, Equal
          <5>2. CASE now.op = "strcmp"
            BY <3>1, <4>2, <5>2 DEF Decided
          <5> QED BY <2>2, <5>1, <5>2
        <4> QED BY <3>2, <4>3, <4>4
      <3> QED BY <2>2, <3>3, <3>4
    <2>3. ASSUME now.op = "strlen"
          PROVE  /\ mem[now.dst + returned.value] = 0
                 /\ \A k \in 0 .. returned.value - 1 : mem[now.dst + k] # 0
      BY <2>3 DEF Inv, ScanInv, Decided, Ended
    <2> HIDE DEF differ
    <2> QED BY <2>2, <2>3 DEF Compared, differ
  <1> QED BY <1>1, InvIsInvariant, PTL
=============================================================================
