-------------------------- MODULE RegexCodeProofs --------------------------
(***************************************************************************)
(* Theorems about what the matcher of Regexp runs, for patterns, strings   *)
(* and matches of any length and number.  regex_compile leaves code:       *)
(* a sequence of ops, each with a level, the number of failure points that *)
(* a match has on its stack at least when it comes there; every jump leads *)
(* to an op whose level it keeps (Code).  regex_compile builds it step by  *)
(* step, inserting ops behind which jumps have to go on leading to ops     *)
(* (CodeHolds), and the matcher, which writes into it, keeps it (RunsOn):  *)
(* so it runs op codes only, and a loop that drops a failure point has     *)
(* one.  What is on the stack is then counted in items (Room).             *)
(***************************************************************************)
EXTENDS RegexpProofs, FiniteSetTheorems

-----------------------------------------------------------------------------
(***************************************************************************)
(* The code of a pattern is a sequence of ops.                             *)
(***************************************************************************)

PlainOps == {Op.anychar, Op.begline, Op.endline, Op.begbuf, Op.endbuf, Op.push_dummy_failure,
             Op.wordchar, Op.notwordchar, Op.wordbeg, Op.wordend, Op.wordbound,
             Op.notwordbound}
CountedOps == {Op.exactn, Op.charset, Op.charset_not}
GroupOps == {Op.start_memory, Op.stop_memory}
GotoOps == {Op.jump, Op.jump_past_alt}
LoopOps == {Op.maybe_pop_jump, Op.pop_failure_jump}
CountingOps == {Op.succeed_n, Op.jump_n}

\* The numbers of the op codes that are compiled.
LEMMA OpValue == \A i \in 1..29 : Op[Opcodes[i]] = i - 1
<1> SUFFICES ASSUME NEW i \in 1..29 PROVE Op[Opcodes[i]] = i - 1 OBVIOUS
<1>1. DOMAIN Opcodes = 1..29 BY DEF Opcodes
<1> DEFINE o == Opcodes[i]
           n == CHOOSE k \in DOMAIN Opcodes : Opcodes[k] = o
<1>2. o \in Range(Opcodes) BY <1>1 DEF Range
<1>3. \E k \in DOMAIN Opcodes : Opcodes[k] = o BY <1>1
<1>4. n \in DOMAIN Opcodes /\ Opcodes[n] = o BY <1>3
<1>5. Op[o] = n - 1 BY <1>2 DEF Op
<1>6. \A j, k \in 1..29 : Opcodes[j] = Opcodes[k] => j = k BY DEF Opcodes
<1> HIDE DEF n
<1>7. n = i BY <1>1, <1>4, <1>6
<1> QED BY <1>5, <1>7

LEMMA OpCodes ==
  /\ Op.no_op = 0 /\ Op.on_failure_jump = 14 /\ Op.duplicate = 7
  /\ Op.dummy_failure_jump = 18 /\ Op.set_number_at = 22
  /\ Op.start_memory = 5 /\ Op.stop_memory = 6 /\ Op.exactn = 1
  /\ Op.charset = 3 /\ Op.charset_not = 4
  /\ Op.jump = 12 /\ Op.jump_past_alt = 13 /\ Op.pop_failure_jump = 16
  /\ Op.maybe_pop_jump = 17 /\ Op.succeed_n = 20 /\ Op.jump_n = 21
  /\ Op.anychar = 2 /\ Op.begline = 8 /\ Op.endline = 9 /\ Op.begbuf = 10 /\ Op.endbuf = 11
  /\ Op.push_dummy_failure = 19 /\ Op.wordchar = 23 /\ Op.notwordchar = 24
  /\ Op.wordbeg = 25 /\ Op.wordend = 26 /\ Op.wordbound = 27 /\ Op.notwordbound = 28
<1>1. /\ Opcodes[1] = "no_op" /\ Opcodes[2] = "exactn" /\ Opcodes[3] = "anychar"
      /\ Opcodes[4] = "charset" /\ Opcodes[5] = "charset_not" /\ Opcodes[6] = "start_memory"
      /\ Opcodes[7] = "stop_memory" /\ Opcodes[8] = "duplicate" /\ Opcodes[9] = "begline"
      /\ Opcodes[10] = "endline" /\ Opcodes[11] = "begbuf" /\ Opcodes[12] = "endbuf"
      /\ Opcodes[13] = "jump" /\ Opcodes[14] = "jump_past_alt"
      /\ Opcodes[15] = "on_failure_jump" /\ Opcodes[17] = "pop_failure_jump"
      /\ Opcodes[18] = "maybe_pop_jump" /\ Opcodes[19] = "dummy_failure_jump"
      /\ Opcodes[20] = "push_dummy_failure" /\ Opcodes[21] = "succeed_n"
      /\ Opcodes[22] = "jump_n" /\ Opcodes[23] = "set_number_at" /\ Opcodes[24] = "wordchar"
      /\ Opcodes[25] = "notwordchar" /\ Opcodes[26] = "wordbeg" /\ Opcodes[27] = "wordend"
      /\ Opcodes[28] = "wordbound" /\ Opcodes[29] = "notwordbound"
  BY DEF Opcodes
<1>2. /\ Op["no_op"] = 1 - 1 /\ Op["exactn"] = 2 - 1 /\ Op["anychar"] = 3 - 1
      /\ Op["charset"] = 4 - 1 /\ Op["charset_not"] = 5 - 1 /\ Op["start_memory"] = 6 - 1
      /\ Op["stop_memory"] = 7 - 1 /\ Op["duplicate"] = 8 - 1 /\ Op["begline"] = 9 - 1
      /\ Op["endline"] = 10 - 1 /\ Op["begbuf"] = 11 - 1 /\ Op["endbuf"] = 12 - 1
      /\ Op["jump"] = 13 - 1 /\ Op["jump_past_alt"] = 14 - 1
      /\ Op["on_failure_jump"] = 15 - 1 /\ Op["pop_failure_jump"] = 17 - 1
      /\ Op["maybe_pop_jump"] = 18 - 1 /\ Op["dummy_failure_jump"] = 19 - 1
      /\ Op["push_dummy_failure"] = 20 - 1 /\ Op["succeed_n"] = 21 - 1
      /\ Op["jump_n"] = 22 - 1 /\ Op["set_number_at"] = 23 - 1 /\ Op["wordchar"] = 24 - 1
      /\ Op["notwordchar"] = 25 - 1 /\ Op["wordbeg"] = 26 - 1 /\ Op["wordend"] = 27 - 1
      /\ Op["wordbound"] = 28 - 1 /\ Op["notwordbound"] = 29 - 1
  BY <1>1, OpValue
<1> QED BY <1>2

LEMMA OpKinds ==
  /\ PlainOps = {2, 8, 9, 10, 11, 19, 23, 24, 25, 26, 27, 28}
  /\ CountedOps = {1, 3, 4} /\ GroupOps = {5, 6} /\ GotoOps = {12, 13}
  /\ LoopOps = {16, 17} /\ CountingOps = {20, 21}
BY OpCodes DEF PlainOps, CountedOps, GroupOps, GotoOps, LoopOps, CountingOps

-----------------------------------------------------------------------------
\* Where the jump at q leads.
Target(f, q) == q + 3 + Number(f, q + 1)

\* How many bytes the op at q takes.
Size(f, q) == IF f[q] \in PlainOps THEN 1
              ELSE IF f[q] \in CountedOps THEN 2 + f[q + 1]
              ELSE IF f[q] = Op.duplicate THEN 2
              ELSE IF f[q] \in CountingOps \cup {Op.set_number_at} THEN 5
              ELSE 3

JumpArgs(f, q) == f[q + 1] \in 0..255 /\ f[q + 2] \in 0..255

\* The arguments of the op at q are such as its kind asks for.
Args(f, q, G) ==
    \/ f[q] \in PlainOps
    \/ f[q] \in CountedOps /\ f[q + 1] \in Nat
    \/ f[q] \in GroupOps /\ f[q + 1] \in 1..G /\ f[q + 2] \in Nat /\ f[q + 1] + f[q + 2] <= G
    \/ f[q] = Op.duplicate /\ f[q + 1] \in 1..G
    \/ /\ f[q] \in GotoOps \cup LoopOps \cup {Op.on_failure_jump, Op.set_number_at}
       /\ JumpArgs(f, q)
    \/ f[q] = Op.dummy_failure_jump /\ JumpArgs(f, q) /\ Number(f, q + 1) >= 0
    \/ f[q] = Op.succeed_n /\ JumpArgs(f, q) /\ f[q + 2] < Op.on_failure_jump
    \/ f[q] = Op.jump_n /\ JumpArgs(f, q) /\ Target(f, q) < q

\* The op at q may go on at t, with d more points on the failure stack.
Leads(f, q, t, d) ==
    \/ /\ f[q] \in PlainOps \cup CountedOps \cup GroupOps \cup CountingOps
                   \cup {Op.duplicate, Op.set_number_at}
       /\ d = 0 /\ t = q + Size(f, q)
    \/ /\ f[q] \in GotoOps \cup CountingOps \cup {Op.on_failure_jump}
       /\ d = 0 /\ t = Target(f, q)
    \/ f[q] = Op.on_failure_jump /\ d = 1 /\ t = q + 3
    \/ f[q] = Op.dummy_failure_jump /\ d = 1 /\ t = Target(f, q)
    \/ f[q] \in LoopOps /\ d = -1 /\ t = Target(f, q)

\* The op at q works on the counter of the op at r.
Refers(f, q, r) ==
    \/ f[q] = Op.jump_n /\ r = Target(f, q)
    \/ f[q] = Op.set_number_at /\ r = q + Number(f, q + 1)

\* The op at q, when ops are at the addresses S and at least L points are
\* on the failure stack at each.
OpOK(f, S, L, G, q) ==
    /\ Args(f, q, G)
    /\ q + Size(f, q) \in S
    /\ \A i \in S : i <= q \/ q + Size(f, q) <= i
    /\ \A t \in Int, d \in {-1, 0, 1} : Leads(f, q, t, d) => t \in S /\ L[t] <= L[q] + d
    /\ \A r \in Int : Refers(f, q, r) =>
          /\ r \in S /\ r <= Len(f) /\ f[r] \in CountingOps
          /\ f[q] = Op.jump_n => f[r] = Op.succeed_n

\* The op at q stays on its side of x.
Stays(f, q, x) ==
    \A t \in Int :
        /\ \A d \in {-1, 0, 1} : Leads(f, q, t, d) => IF q < x THEN t <= x ELSE x <= t
        /\ Refers(f, q, t) => IF q < x THEN t < x ELSE x <= t

\* P are the places left for jumps, and not ops yet.
Ops(f, S, P) == S \ (P \cup {Len(f) + 1})

\* Code may be inserted at x.
Barrier(f, S, L, P, x) == x \in S /\ L[x] = 0 /\ \A q \in Ops(f, S, P) : Stays(f, q, x)

PlaceHolds(f, S, p) ==
    p \in S /\ p + 3 \in S /\ p + 1 \notin S /\ p + 2 \notin S /\ f[p] \in {0, Op.jump_past_alt}

Code(f, S, L, P, B, G) ==
    /\ IsBuffer(f) /\ G \in Nat
    /\ S \subseteq 1..(Len(f) + 1) /\ 1 \in S /\ Len(f) + 1 \in S
    /\ L \in [S -> Nat] /\ L[1] = 0 /\ L[Len(f) + 1] = 0
    /\ \A p \in P : PlaceHolds(f, S, p)
    /\ \A q \in Ops(f, S, P) : OpOK(f, S, L, G, q)
    /\ \A x \in B : Barrier(f, S, L, P, x)

-----------------------------------------------------------------------------
LEMMA BytesAreNumbers == \A x \in 0..255 : x \in Nat /\ x \in Int
OBVIOUS

Signed(y) == IF y > 127 THEN y - 256 ELSE y
Fit(n) == n \in Int /\ -32768 <= n /\ n < 32768

LEMMA BytesOfNumber ==
  ASSUME NEW n, Fit(n)
  PROVE  /\ Bytes(n)[1] \in 0..255 /\ Bytes(n)[2] \in 0..255
         /\ Bytes(n)[1] + 256 * Signed(Bytes(n)[2]) = n
         /\ 0 <= n /\ n < 3584 => Bytes(n)[2] < 14
<1>0. n \in Int /\ -32768 <= n /\ n < 32768 BY DEF Fit
<1>1. Bytes(n)[1] = n % 256 /\ Bytes(n)[2] = (n \div 256) % 256 BY DEF Bytes
<1> DEFINE a == n \div 256
           c == n % 256
           y == a % 256
<1>2. a \in Int /\ c \in 0..255 /\ n = 256 * a + c BY <1>0
<1>3. -128 <= a /\ a < 128
  <2> HIDE DEF a, c
  <2> QED BY <1>0, <1>2
<1>4. y \in 0..255 /\ y = IF a < 0 THEN a + 256 ELSE a
  <2> HIDE DEF a
  <2> QED BY <1>2, <1>3
<1>5. Bytes(n)[1] = c /\ Bytes(n)[2] = y BY <1>1
<1> HIDE DEF a, c, y
<1>6. c + 256 * Signed(y) = n BY <1>2, <1>3, <1>4 DEF Signed
<1>7. 0 <= n /\ n < 3584 => y < 14 BY <1>0, <1>2, <1>3, <1>4
<1> QED BY <1>2, <1>4, <1>5, <1>6, <1>7

\* Two bytes are a number.
LEMMA NumberOfBytes ==
  ASSUME NEW f, IsBuffer(f), NEW p \in Nat, 1 <= p, p + 1 <= Len(f),
         f[p] \in 0..255, f[p + 1] \in 0..255
  PROVE  Number(f, p) \in Int
         /\ Number(f, p) = f[p] + 256 * Signed(f[p + 1])
<1>1. p \in DOMAIN f /\ p + 1 \in DOMAIN f BY BufferLen
<1>2. Byte(f, p) = f[p] /\ Byte(f, p + 1) = f[p + 1] BY <1>1 DEF Byte
<1>3. Number(f, p) = f[p] + 256 * Signed(f[p + 1]) BY <1>2, Zenon DEF Number, Signed
<1> DEFINE x == f[p]  y == f[p + 1]
<1>4. x \in Int /\ y \in Int BY BytesAreNumbers, Zenon
<1>5. Number(f, p) = x + 256 * Signed(y) BY <1>3
<1> HIDE DEF x, y
<1>6. Number(f, p) \in Int BY <1>4, <1>5 DEF Signed
<1> QED BY <1>3, <1>6

\* A number that fits is read as it was stored.
LEMMA NumberStored ==
  ASSUME NEW f, IsBuffer(f), NEW p \in Nat, 1 <= p, p + 1 <= Len(f), NEW n, Fit(n),
         f[p] = Bytes(n)[1], f[p + 1] = Bytes(n)[2]
  PROVE  Number(f, p) = n /\ f[p] \in 0..255 /\ f[p + 1] \in 0..255
<1>1. /\ Bytes(n)[1] \in 0..255 /\ Bytes(n)[2] \in 0..255
      /\ Bytes(n)[1] + 256 * Signed(Bytes(n)[2]) = n
  BY BytesOfNumber
<1>2. f[p] \in 0..255 /\ f[p + 1] \in 0..255 BY <1>1, Zenon
<1>3. Number(f, p) = f[p] + 256 * Signed(f[p + 1]) BY <1>2, NumberOfBytes
<1> QED BY <1>1, <1>2, <1>3, Zenon

-----------------------------------------------------------------------------
JumpOps == GotoOps \cup LoopOps \cup CountingOps
           \cup {Op.on_failure_jump, Op.set_number_at, Op.dummy_failure_jump}

LEMMA JumpsAreOthers ==
  \A o \in JumpOps :
      o \notin PlainOps /\ o \notin GroupOps /\ o \notin CountedOps /\ o # Op.duplicate
BY OpCodes, OpKinds DEF JumpOps

\* What Size says for each kind of op.
LEMMA SizeOf ==
  ASSUME NEW f, NEW q \in Nat, NEW G, Args(f, q, G)
  PROVE  /\ Size(f, q) \in Nat /\ 1 <= Size(f, q)
         /\ f[q] \in CountedOps => 2 <= Size(f, q) /\ f[q + 1] \in Nat
         /\ f[q] = Op.duplicate => Size(f, q) = 2 /\ f[q + 1] \in 1..G
         /\ f[q] \in GroupOps => Size(f, q) = 3 /\ f[q + 1] \in 1..G /\ f[q + 2] \in Nat
                                /\ f[q + 1] + f[q + 2] <= G
         /\ f[q] \in JumpOps => 3 <= Size(f, q) /\ JumpArgs(f, q)
<1> DEFINE o == f[q]
<1>1. CASE o \in PlainOps
  <2>1. Size(f, q) = 1 BY <1>1 DEF Size
  <2>2. /\ o \notin CountedOps /\ o # Op.duplicate /\ o \notin GroupOps /\ o \notin JumpOps
    <3> HIDE DEF o
    <3> QED BY <1>1, OpCodes, OpKinds DEF JumpOps
  <2> QED BY <2>1, <2>2
<1>2. CASE o \in CountedOps
  <2>1. /\ o \notin PlainOps /\ o # Op.duplicate /\ o \notin GroupOps /\ o \notin JumpOps
        /\ o \notin GotoOps \cup LoopOps \cup {Op.on_failure_jump, Op.set_number_at}
        /\ o # Op.dummy_failure_jump /\ o # Op.succeed_n /\ o # Op.jump_n
    <3> HIDE DEF o
    <3> QED BY <1>2, OpCodes, OpKinds DEF JumpOps
  <2>2. f[q + 1] \in Nat BY <1>2, <2>1, Zenon DEF Args
  <2>3. Size(f, q) = 2 + f[q + 1] BY <1>2, <2>1, Zenon DEF Size
  <2> QED BY <2>1, <2>2, <2>3
<1>3. CASE o \in GroupOps
  <2>1. /\ o \notin PlainOps /\ o # Op.duplicate /\ o \notin CountedOps /\ o \notin JumpOps
        /\ o \notin CountingOps \cup {Op.set_number_at}
        /\ o \notin GotoOps \cup LoopOps \cup {Op.on_failure_jump, Op.set_number_at}
        /\ o # Op.dummy_failure_jump /\ o # Op.succeed_n /\ o # Op.jump_n
    <3> HIDE DEF o
    <3> QED BY <1>3, OpCodes, OpKinds DEF JumpOps
  <2>2. f[q + 1] \in 1..G /\ f[q + 2] \in Nat /\ f[q + 1] + f[q + 2] <= G
    BY <1>3, <2>1, Zenon DEF Args
  <2>3. Size(f, q) = 3 BY <1>3, <2>1, Zenon DEF Size
  <2> QED BY <2>1, <2>2, <2>3
<1>4. CASE o = Op.duplicate
  <2>1. /\ o \notin PlainOps /\ o \notin GroupOps /\ o \notin CountedOps /\ o \notin JumpOps
        /\ o \notin GotoOps \cup LoopOps \cup {Op.on_failure_jump, Op.set_number_at}
        /\ o # Op.dummy_failure_jump /\ o # Op.succeed_n /\ o # Op.jump_n
    <3> HIDE DEF o
    <3> QED BY <1>4, OpCodes, OpKinds DEF JumpOps
  <2>2. f[q + 1] \in 1..G BY <1>4, <2>1, Zenon DEF Args
  <2>3. Size(f, q) = 2 BY <1>4, <2>1, Zenon DEF Size
  <2> QED BY <2>1, <2>2, <2>3
<1>5. CASE o \in JumpOps
  <2>1. o \notin PlainOps /\ o \notin GroupOps /\ o \notin CountedOps /\ o # Op.duplicate
    <3> HIDE DEF o
    <3> QED BY <1>5, OpCodes, OpKinds DEF JumpOps
  <2>2. JumpArgs(f, q) BY <2>1, Zenon DEF Args
  <2>3. Size(f, q) = 5 \/ Size(f, q) = 3 BY <2>1, Zenon DEF Size
  <2> QED BY <2>1, <2>2, <2>3
<1>6. \/ o \in PlainOps \/ o \in CountedOps \/ o \in GroupOps \/ o = Op.duplicate
      \/ o \in JumpOps
  <2>1. Op.succeed_n \in JumpOps /\ Op.jump_n \in JumpOps BY DEF JumpOps, CountingOps
  <2>2. \A x : x \in GotoOps \cup LoopOps \cup {Op.on_failure_jump, Op.set_number_at}
                => x \in JumpOps
    BY DEF JumpOps
  <2>3. Op.dummy_failure_jump \in JumpOps BY DEF JumpOps
  <2> QED BY <2>1, <2>2, <2>3, Zenon DEF Args
<1> QED BY <1>1, <1>2, <1>3, <1>4, <1>5, <1>6

\* An op whose bytes have moved by k is the same op k bytes further on.
LEMMA SameOp ==
  ASSUME NEW f, NEW g, IsBuffer(f), IsBuffer(g), NEW q \in Nat, 1 <= q, NEW k \in Nat,
         NEW G \in Nat, NEW G2 \in Nat, G <= G2, Args(f, q, G),
         q + Size(f, q) <= Len(f) + 1, q + k + Size(f, q) <= Len(g) + 1,
         \A i \in q..(q + Size(f, q) - 1) : g[i + k] = f[i]
  PROVE  /\ Size(g, q + k) = Size(f, q) /\ Args(g, q + k, G2) /\ g[q + k] = f[q]
         /\ \A t \in Int :
               /\ \A d \in {-1, 0, 1} : Leads(g, q + k, t + k, d) => Leads(f, q, t, d)
               /\ Refers(g, q + k, t + k) => Refers(f, q, t)
<1> DEFINE n == Size(f, q)
           q2 == q + k
<1>1. n \in Nat /\ 1 <= n BY SizeOf
<1>2. g[q2] = f[q] BY <1>1
<1>3. 2 <= n => g[q2 + 1] = f[q + 1]
  <2> SUFFICES ASSUME 2 <= n PROVE g[q2 + 1] = f[q + 1] OBVIOUS
  <2>1. q + 1 \in q..(q + n - 1) /\ (q + 1) + k = q2 + 1 BY <1>1
  <2> HIDE DEF n, q2
  <2>2. \A i \in q..(q + n - 1) : g[i + k] = f[i] BY DEF n
  <2> QED BY <2>1, <2>2
<1>4. 3 <= n => g[q2 + 2] = f[q + 2]
  <2> SUFFICES ASSUME 3 <= n PROVE g[q2 + 2] = f[q + 2] OBVIOUS
  <2>1. q + 2 \in q..(q + n - 1) /\ (q + 2) + k = q2 + 2 BY <1>1
  <2> HIDE DEF n, q2
  <2>2. \A i \in q..(q + n - 1) : g[i + k] = f[i] BY DEF n
  <2> QED BY <2>1, <2>2
<1>5. Len(f) \in Nat /\ Len(g) \in Nat BY BufferLen
<1>6. ASSUME f[q] \in JumpOps
      PROVE  /\ Number(g, q2 + 1) = Number(f, q + 1) /\ Number(f, q + 1) \in Int
             /\ JumpArgs(g, q2)
  <2>1. 3 <= n /\ JumpArgs(f, q) BY <1>6, SizeOf
  <2>0. 2 <= n BY <1>1, <2>1
  <2>a. g[q2 + 1] = f[q + 1] /\ g[q2 + 2] = f[q + 2] BY <1>3, <1>4, <2>0, <2>1, Zenon
  <2>2. /\ f[q + 1] \in 0..255 /\ f[q + 2] \in 0..255
        /\ g[q2 + 1] \in 0..255 /\ g[q2 + 2] \in 0..255
    BY <2>a, <2>1, Zenon DEF JumpArgs
  <2>3. (q + 1) + 1 = q + 2 /\ (q2 + 1) + 1 = q2 + 2 /\ q + 1 \in Nat /\ q2 + 1 \in Nat
        /\ 1 <= q + 1 /\ 1 <= q2 + 1 /\ q + 2 <= Len(f) /\ q2 + 2 <= Len(g)
    BY <1>1, <1>5, <2>1
  <2> HIDE DEF n, q2
  <2>4. Number(f, q + 1) \in Int /\ Number(f, q + 1) = f[q + 1] + 256 * Signed(f[q + 2])
    BY <2>2, <2>3, NumberOfBytes
  <2> DEFINE q3 == q2 + 1
  <2>b. /\ q3 \in Nat /\ 1 <= q3 /\ q3 + 1 <= Len(g) /\ q3 + 1 = q2 + 2
        /\ g[q3] \in 0..255 /\ g[q3 + 1] \in 0..255
    <3>1. q3 \in Nat /\ 1 <= q3 /\ q3 + 1 = q2 + 2 BY <2>3
    <3> QED BY <3>1, <2>2, <2>3
  <2> HIDE DEF q3
  <2>c. Number(g, q3) = g[q3] + 256 * Signed(g[q3 + 1]) BY <2>b, NumberOfBytes
  <2>5. Number(g, q2 + 1) = g[q2 + 1] + 256 * Signed(g[q2 + 2]) BY <2>b, <2>c DEF q3
  <2>6. JumpArgs(g, q2) BY <2>2 DEF JumpArgs
  <2> QED BY <2>a, <2>4, <2>5, <2>6
<1>7. Size(g, q2) = n
  <2>1. f[q] \in CountedOps => g[q2 + 1] = f[q + 1] BY <1>3, SizeOf
  <2> HIDE DEF q2
  <2> QED BY <1>2, <2>1, Zenon DEF Size
<1> HIDE DEF q2
<1>8. Args(g, q2, G2)
  <2> DEFINE o == f[q]
  <2>1. f[q] \in JumpOps => Target(g, q2) - q2 = Target(f, q) - q
        /\ (Target(f, q) < q => Target(g, q2) < q2)
    <3> SUFFICES ASSUME f[q] \in JumpOps PROVE Target(g, q2) - q2 = Target(f, q) - q
                                       /\ (Target(f, q) < q => Target(g, q2) < q2)
      OBVIOUS
    <3>1. Number(g, q2 + 1) = Number(f, q + 1) /\ Number(f, q + 1) \in Int BY <1>6
    <3> QED BY <3>1 DEF Target, q2
  <2>2. CASE o \in PlainOps BY <1>2, <2>2 DEF Args
  <2>3. CASE o \in CountedOps
    <3>1. g[q2 + 1] \in Nat BY <2>3, <1>3, SizeOf
    <3> QED BY <1>2, <2>3, <3>1, Zenon DEF Args
  <2>4. CASE o \in GroupOps
    <3>1. n = 3 /\ f[q + 1] \in 1..G /\ f[q + 2] \in Nat /\ f[q + 1] + f[q + 2] <= G
      BY <2>4, SizeOf
    <3>2. g[q2 + 1] = f[q + 1] /\ g[q2 + 2] = f[q + 2] BY <3>1, <1>3, <1>4
    <3>3. g[q2 + 1] \in 1..G2 /\ g[q2 + 2] \in Nat /\ g[q2 + 1] + g[q2 + 2] <= G2
      <4> DEFINE x == f[q + 1]  y == f[q + 2]
      <4>1. x \in 1..G /\ y \in Nat /\ x + y <= G BY <3>1, Zenon
      <4> HIDE DEF x, y
      <4>2. x \in 1..G2 /\ y \in Nat /\ x + y <= G2 BY <4>1
      <4> QED BY <4>2, <3>2, Zenon DEF x, y
    <3> QED BY <1>2, <2>4, <3>3, Zenon DEF Args
  <2>5. CASE o = Op.duplicate
    <3>1. n = 2 /\ f[q + 1] \in 1..G BY <2>5, SizeOf
    <3>2. f[q + 1] \in 1..G2
      <4> DEFINE x == f[q + 1]
      <4>1. x \in 1..G BY <3>1, Zenon
      <4> HIDE DEF x
      <4>2. x \in 1..G2 BY <4>1
      <4> QED BY <4>2 DEF x
    <3>3. g[q2 + 1] \in 1..G2 BY <3>1, <3>2, <1>3
    <3> QED BY <1>2, <2>5, <3>3, Zenon DEF Args
  <2>6. CASE o \in JumpOps
    <3>1. JumpArgs(g, q2) /\ Number(g, q2 + 1) = Number(f, q + 1) BY <1>6, <2>6
    <3>2. Target(f, q) < q => Target(g, q2) < q2 BY <2>1, <2>6
    <3>3. 3 <= n BY <2>6, SizeOf
    <3>4. g[q2 + 2] = f[q + 2] BY <1>4, <3>3
    <3>5. o \notin PlainOps /\ o \notin GroupOps /\ o \notin CountedOps /\ o # Op.duplicate
      BY <2>6, JumpsAreOthers
    <3> QED BY <1>2, <3>1, <3>2, <3>4, <3>5, Zenon DEF Args
  <2>7. \/ o \in PlainOps \/ o \in CountedOps \/ o \in GroupOps \/ o = Op.duplicate
        \/ o \in JumpOps
    <3>1. Op.succeed_n \in JumpOps /\ Op.jump_n \in JumpOps /\ Op.dummy_failure_jump \in JumpOps
      BY DEF JumpOps, CountingOps
    <3>2. \A x : x \in GotoOps \cup LoopOps \cup {Op.on_failure_jump, Op.set_number_at}
                  => x \in JumpOps
      BY DEF JumpOps
    <3> QED BY <3>1, <3>2, Zenon DEF Args
  <2> QED BY <2>2, <2>3, <2>4, <2>5, <2>6, <2>7
<1>9. ASSUME NEW t \in Int
      PROVE  /\ \A d \in {-1, 0, 1} : Leads(g, q2, t + k, d) => Leads(f, q, t, d)
             /\ Refers(g, q2, t + k) => Refers(f, q, t)
  <2>1. t + k = q2 + n => t = q + n
    <3> HIDE DEF n
    <3> QED BY <1>1 DEF q2
  <2>2. t + k = q2 + 3 => t = q + 3 BY DEF q2
  <2>3. f[q] \in JumpOps => /\ t + k = Target(g, q2) => t = Target(f, q)
                            /\ t + k = q2 + Number(g, q2 + 1) => t = q + Number(f, q + 1)
    <3> SUFFICES ASSUME f[q] \in JumpOps
                 PROVE  /\ t + k = Target(g, q2) => t = Target(f, q)
                        /\ t + k = q2 + Number(g, q2 + 1) => t = q + Number(f, q + 1)
      OBVIOUS
    <3>1. Number(g, q2 + 1) = Number(f, q + 1) /\ Number(f, q + 1) \in Int BY <1>6
    <3> QED BY <3>1 DEF Target, q2
  <2>4. /\ \A x : x \in GotoOps \cup CountingOps \cup {Op.on_failure_jump} => x \in JumpOps
        /\ \A x : x \in LoopOps => x \in JumpOps
        /\ Op.dummy_failure_jump \in JumpOps /\ Op.jump_n \in JumpOps
        /\ Op.set_number_at \in JumpOps
    BY DEF JumpOps, CountingOps
  <2>5. \A d \in {-1, 0, 1} : Leads(g, q2, t + k, d) => Leads(f, q, t, d)
    BY <1>2, <1>7, <2>1, <2>2, <2>3, <2>4, Zenon DEF Leads
  <2>6. Refers(g, q2, t + k) => Refers(f, q, t)
    BY <1>2, <2>3, <2>4, Zenon DEF Refers
  <2> QED BY <2>5, <2>6
<1> QED BY <1>2, <1>7, <1>8, <1>9 DEF q2

-----------------------------------------------------------------------------
\* The code f with k bytes inserted at x, others behind it and jumps at the
\* reserved places: ops are at New besides, and d more points are on the
\* failure stack from x on.
Rebuilt(f, S, L, P, x, k, d, g, S2, L2, New) ==
    /\ IsBuffer(g) /\ Len(f) + k <= Len(g)
    /\ \A i \in 1..(x - 1) : (\A p \in P : i < p \/ p + 2 < i) => g[i] = f[i]
    /\ \A i \in x..Len(f) : g[i + k] = f[i]
    /\ L2 \in [S2 -> Nat] /\ x \in S2 /\ L2[x] = 0
    /\ \A q \in S : IF q < x THEN q \in S2 /\ L2[q] = L[q]
                    ELSE q + k \in S2 /\ L2[q + k] = L[q] + d
    /\ S2 \subseteq Nat
    /\ \A i \in S2 : \/ i < x /\ i \in S
                     \/ x + k <= i /\ i <= Len(f) + 1 + k /\ i - k \in S
                     \/ i \in New
    /\ \A i \in New : (x <= i /\ i < x + k) \/ Len(f) + 1 + k < i

Shift(q, x, k) == IF q < x THEN q ELSE q + k

\* An op does not reach into a reserved place.
LEMMA PlacesApart ==
  ASSUME NEW f, NEW S, NEW L, NEW P, NEW B, NEW G, Code(f, S, L, P, B, G),
         NEW q \in S, q \notin P, NEW n \in Nat, 1 <= n,
         \A i \in S : i <= q \/ q + n <= i,
         NEW i \in q..(q + n - 1), NEW p \in P
  PROVE  i < p \/ p + 2 < i
<1>1. S \subseteq 1..(Len(f) + 1) /\ Len(f) \in Nat BY BufferLen DEF Code
<1>2. p \in S /\ p + 3 \in S /\ p + 1 \notin S /\ p + 2 \notin S BY DEF Code, PlaceHolds
<1>3. q \in Int /\ p \in Int BY <1>1, <1>2
<1>4. CASE q + n <= p BY <1>3, <1>4
<1>5. CASE p <= q
  <2>1. q # p /\ q # p + 1 /\ q # p + 2 BY <1>2
  <2> QED BY <1>3, <1>5, <2>1
<1> QED BY <1>2, <1>4, <1>5

LEMMA NoPlaceCounts == \A o \in {0, Op.jump_past_alt} : o \notin CountingOps
BY OpCodes, OpKinds

LEMMA MovedOps ==
  ASSUME NEW f, NEW S, NEW L, NEW P, NEW B, NEW G, Code(f, S, L, P, B, G),
         NEW x, Barrier(f, S, L, P, x), \A p \in P : p + 3 <= x,
         NEW k \in Nat, NEW d \in Nat, NEW g, NEW S2, NEW L2, NEW New,
         Rebuilt(f, S, L, P, x, k, d, g, S2, L2, New),
         NEW G2 \in Nat, G <= G2, NEW q \in Ops(f, S, P)
  PROVE  /\ OpOK(g, S2, L2, G2, Shift(q, x, k))
         /\ \A y \in Int : y <= x /\ Stays(f, q, y) => Stays(g, Shift(q, x, k), y)
<1> DEFINE n == Size(f, q)
           q2 == Shift(q, x, k)
           N == Len(f) + 1
<1>1. /\ IsBuffer(f) /\ IsBuffer(g) /\ Len(f) \in Nat /\ Len(g) \in Nat /\ G \in Nat
      /\ S \subseteq 1..N /\ L \in [S -> Nat] /\ Len(f) + k <= Len(g)
  BY BufferLen DEF Code, Rebuilt
<1>2. /\ q \in S /\ q \notin P /\ q # N /\ OpOK(f, S, L, G, q) /\ Stays(f, q, x)
      /\ x \in S /\ L[x] = 0
  BY DEF Code, Ops, Barrier
<1>3. /\ Args(f, q, G) /\ q + n \in S /\ \A i \in S : i <= q \/ q + n <= i
  BY <1>2 DEF OpOK
<1>4. n \in Nat /\ 1 <= n BY <1>1, <1>2, <1>3, SizeOf
<1>5. q \in Nat /\ 1 <= q /\ x \in Nat /\ 1 <= x /\ x <= N /\ q + n <= N /\ q < N
  BY <1>1, <1>2, <1>3
<1>6. L2 \in [S2 -> Nat] /\ x \in S2 /\ L2[x] = 0 BY DEF Rebuilt
<1>7. \A i \in S : IF i < x THEN i \in S2 /\ L2[i] = L[i]
                   ELSE i + k \in S2 /\ L2[i + k] = L[i] + d
  BY DEF Rebuilt
<1>8. \A i \in S2 : \/ i < x /\ i \in S
                    \/ x + k <= i /\ i <= Len(f) + 1 + k /\ i - k \in S
                    \/ i \in Nat /\ ((x <= i /\ i < x + k) \/ Len(f) + 1 + k < i)
  BY DEF Rebuilt
<1>13. S2 \subseteq Nat BY DEF Rebuilt
<1>9. \A i \in S : L[i] \in Nat BY <1>1
<1>10. /\ \A t \in Int, c \in {-1, 0, 1} : Leads(f, q, t, c) => t \in S /\ L[t] <= L[q] + c
       /\ \A r \in Int : Refers(f, q, r) =>
             /\ r \in S /\ r <= Len(f) /\ f[r] \in CountingOps
             /\ f[q] = Op.jump_n => f[r] = Op.succeed_n
  BY <1>2 DEF OpOK
<1> HIDE DEF n
<1>11. CASE q < x
  <2>1. q + n <= x BY <1>2, <1>3, <1>5, <1>11
  <2>2. \A i \in q..(q + n - 1) : g[i + 0] = f[i]
    <3> SUFFICES ASSUME NEW i \in q..(q + n - 1) PROVE g[i + 0] = f[i] OBVIOUS
    <3>1. \A p \in P : i < p \/ p + 2 < i BY <1>2, <1>3, <1>4, PlacesApart
    <3>2. i \in 1..(x - 1) /\ i + 0 = i BY <1>4, <1>5, <2>1
    <3>3. g[i] = f[i] BY <3>1, <3>2 DEF Rebuilt
    <3> QED BY <3>2, <3>3
  <2>3. q + Size(f, q) <= Len(f) + 1 /\ q + 0 + Size(f, q) <= Len(g) + 1
    BY <1>1, <1>4, <1>5 DEF n
  <2>4. /\ Size(g, q + 0) = Size(f, q) /\ Args(g, q + 0, G2) /\ g[q + 0] = f[q]
        /\ \A t \in Int :
               /\ \A c \in {-1, 0, 1} : Leads(g, q + 0, t + 0, c) => Leads(f, q, t, c)
               /\ Refers(g, q + 0, t + 0) => Refers(f, q, t)
    BY <1>1, <1>3, <1>5, <2>2, <2>3, SameOp DEF n
  <2>5. q + 0 = q /\ (\A t \in Int : t + 0 = t) /\ q2 = q BY <1>5, <1>11 DEF Shift
  <2>6. /\ Size(g, q) = n /\ Args(g, q, G2) /\ g[q] = f[q]
        /\ \A t \in Int :
               /\ \A c \in {-1, 0, 1} : Leads(g, q, t, c) => Leads(f, q, t, c)
               /\ Refers(g, q, t) => Refers(f, q, t)
    BY <2>4, <2>5, Zenon DEF n
  <2>7. q + n \in S2
    <3>1. CASE q + n < x BY <3>1, <1>3, <1>7
    <3>2. CASE q + n = x BY <3>2, <1>6
    <3> QED BY <3>1, <3>2, <2>1, <1>4, <1>5
  <2>8. \A i \in S2 : i <= q \/ q + n <= i
    <3> SUFFICES ASSUME NEW i \in S2 PROVE i <= q \/ q + n <= i OBVIOUS
    <3>1. CASE i < x /\ i \in S BY <3>1, <1>3
    <3>2. CASE x + k <= i /\ i - k \in S
      <4>1. i \in Int BY <1>13
      <4> QED BY <4>1, <3>2, <2>1, <1>5, <1>4
    <3>3. CASE i \in Nat /\ ((x <= i /\ i < x + k) \/ Len(f) + 1 + k < i)
      BY <3>3, <2>1, <1>4, <1>5, <1>1
    <3> QED BY <1>8, <3>1, <3>2, <3>3
  <2>9. ASSUME NEW t \in Int, NEW c \in {-1, 0, 1}, Leads(g, q, t, c)
        PROVE  t \in S2 /\ L2[t] <= L2[q] + c
    <3>1. Leads(f, q, t, c) BY <2>6, <2>9
    <3>2. t \in S /\ L[t] <= L[q] + c /\ t <= x BY <3>1, <1>2, <1>10, <1>11 DEF Stays
    <3>3. L2[q] = L[q] BY <1>2, <1>7, <1>11
    <3>4. CASE t < x
      <4>1. t \in S2 /\ L2[t] = L[t] BY <3>2, <3>4, <1>7
      <4> QED BY <3>2, <3>3, <4>1
    <3>5. CASE t = x
      <4>1. t \in S2 /\ L2[t] = L[t] BY <3>5, <1>2, <1>6
      <4> QED BY <3>2, <3>3, <4>1
    <3> QED BY <3>2, <3>4, <3>5, <1>5
  <2>10. ASSUME NEW r \in Int, Refers(g, q, r)
         PROVE  /\ r \in S2 /\ r <= Len(g) /\ g[r] \in CountingOps
                /\ g[q] = Op.jump_n => g[r] = Op.succeed_n
    <3>1. Refers(f, q, r) BY <2>6, <2>10
    <3>2. /\ r \in S /\ r <= Len(f) /\ f[r] \in CountingOps
          /\ f[q] = Op.jump_n => f[r] = Op.succeed_n
      BY <3>1, <1>10
    <3>3. r < x BY <3>1, <1>2, <1>11 DEF Stays
    <3>4. \A p \in P : r < p \/ p + 2 < r
      <4> SUFFICES ASSUME NEW p \in P PROVE r < p \/ p + 2 < r OBVIOUS
      <4>1. PlaceHolds(f, S, p) BY DEF Code
      <4>2. p \in Nat BY <4>1, <1>1 DEF PlaceHolds
      <4>3. r # p BY <4>1, <3>2, NoPlaceCounts, Zenon DEF PlaceHolds
      <4>4. r # p + 1 /\ r # p + 2 BY <4>1, <3>2 DEF PlaceHolds
      <4> QED BY <4>2, <4>3, <4>4
    <3>5. r \in 1..(x - 1) BY <3>2, <3>3, <1>1, <1>5
    <3>6. g[r] = f[r] BY <3>4, <3>5 DEF Rebuilt
    <3>7. r \in S2 /\ r <= Len(g) BY <3>2, <3>3, <1>1, <1>7
    <3> QED BY <3>2, <3>6, <3>7, <2>6
  <2>11. OpOK(g, S2, L2, G2, q) BY <2>6, <2>7, <2>8, <2>9, <2>10 DEF OpOK
  <2>12. ASSUME NEW y \in Int, Stays(f, q, y) PROVE Stays(g, q, y)
    BY <2>6, <2>12, Zenon DEF Stays
  <2> QED BY <2>5, <2>11, <2>12
<1>12. CASE ~(q < x)
  <2>1. x <= q /\ q2 = q + k /\ q2 \in Nat BY <1>5, <1>12 DEF Shift
  <2>2. \A i \in q..(q + n - 1) : g[i + k] = f[i]
    <3> SUFFICES ASSUME NEW i \in q..(q + n - 1) PROVE g[i + k] = f[i] OBVIOUS
    <3>1. i \in x..Len(f) BY <2>1, <1>4, <1>5
    <3> QED BY <3>1 DEF Rebuilt
  <2>3. q + Size(f, q) <= Len(f) + 1 /\ q + k + Size(f, q) <= Len(g) + 1
    BY <1>1, <1>4, <1>5 DEF n
  <2>4. /\ Size(g, q + k) = Size(f, q) /\ Args(g, q + k, G2) /\ g[q + k] = f[q]
        /\ \A t \in Int :
               /\ \A c \in {-1, 0, 1} : Leads(g, q + k, t + k, c) => Leads(f, q, t, c)
               /\ Refers(g, q + k, t + k) => Refers(f, q, t)
    BY <1>1, <1>3, <1>5, <2>2, <2>3, SameOp DEF n
  <2>5. \A t \in Int : t - k \in Int /\ (t - k) + k = t OBVIOUS
  <2>6. /\ Size(g, q2) = n /\ Args(g, q2, G2) /\ g[q2] = f[q]
        /\ \A t \in Int :
               /\ \A c \in {-1, 0, 1} : Leads(g, q2, t, c) => Leads(f, q, t - k, c)
               /\ Refers(g, q2, t) => Refers(f, q, t - k)
    <3> HIDE DEF q2
    <3> QED BY <2>1, <2>4, <2>5, Zenon DEF n
  <2> HIDE DEF q2
  <2>7. q2 + n \in S2
    <3>1. (q + n) + k \in S2 BY <1>3, <1>7, <2>1, <1>4, <1>5
    <3>2. (q + n) + k = q2 + n BY <2>1, <1>4, <1>5
    <3> QED BY <3>1, <3>2
  <2>8. \A i \in S2 : i <= q2 \/ q2 + n <= i
    <3> SUFFICES ASSUME NEW i \in S2 PROVE i <= q2 \/ q2 + n <= i OBVIOUS
    <3>1. CASE i < x /\ i \in S BY <3>1, <2>1, <1>1, <1>5
    <3>2. CASE x + k <= i /\ i - k \in S
      <4>1. i - k <= q \/ q + n <= i - k BY <3>2, <1>3
      <4>2. i \in Int BY <1>13
      <4> QED BY <4>1, <4>2, <2>1, <1>4, <1>5
    <3>3. CASE i \in Nat /\ ((x <= i /\ i < x + k) \/ Len(f) + 1 + k < i)
      BY <3>3, <2>1, <1>4, <1>5, <1>1
    <3> QED BY <1>8, <3>1, <3>2, <3>3
  <2>9. ASSUME NEW t \in Int, NEW c \in {-1, 0, 1}, Leads(g, q2, t, c)
        PROVE  t \in S2 /\ L2[t] <= L2[q2] + c
    <3>1. Leads(f, q, t - k, c) BY <2>6, <2>9
    <3>2. t - k \in S /\ L[t - k] <= L[q] + c /\ x <= t - k
      BY <3>1, <2>5, <1>2, <1>10, <1>12 DEF Stays
    <3>3. L2[q2] = L[q] + d BY <1>2, <1>7, <1>12, <2>1
    <3>4. (t - k) + k \in S2 /\ L2[(t - k) + k] = L[t - k] + d
      <4>1. ~(t - k < x) BY <3>2, <1>5
      <4> QED BY <4>1, <3>2, <1>7
    <3>5. t \in S2 /\ L2[t] = L[t - k] + d BY <3>4, <2>5
    <3>6. L[t - k] \in Nat /\ L[q] \in Nat BY <3>2, <1>2, <1>9
    <3> QED BY <3>2, <3>3, <3>5, <3>6
  <2>10. ASSUME NEW r \in Int, Refers(g, q2, r)
         PROVE  /\ r \in S2 /\ r <= Len(g) /\ g[r] \in CountingOps
                /\ g[q2] = Op.jump_n => g[r] = Op.succeed_n
    <3>1. Refers(f, q, r - k) BY <2>6, <2>10
    <3>2. /\ r - k \in S /\ r - k <= Len(f) /\ f[r - k] \in CountingOps
          /\ f[q] = Op.jump_n => f[r - k] = Op.succeed_n
      BY <3>1, <2>5, <1>10
    <3>3. x <= r - k BY <3>1, <2>5, <1>2, <1>12 DEF Stays
    <3>4. r - k \in x..Len(f) BY <3>2, <3>3, <1>1, <1>5
    <3>5. g[(r - k) + k] = f[r - k] BY <3>4 DEF Rebuilt
    <3>6. (r - k) + k \in S2
      <4>1. ~(r - k < x) BY <3>3, <1>5
      <4> QED BY <4>1, <3>2, <1>7
    <3>7. (r - k) + k = r /\ r <= Len(g) BY <3>2, <1>1
    <3> QED BY <3>2, <3>5, <3>6, <3>7, <2>6
  <2>11. OpOK(g, S2, L2, G2, q2) BY <2>6, <2>7, <2>8, <2>9, <2>10 DEF OpOK
  <2>12. ASSUME NEW y \in Int, y <= x, Stays(f, q, y) PROVE Stays(g, q2, y)
    <3> SUFFICES ASSUME NEW t \in Int
                 PROVE  /\ \A c \in {-1, 0, 1} :
                              Leads(g, q2, t, c) => IF q2 < y THEN t <= y ELSE y <= t
                        /\ Refers(g, q2, t) => IF q2 < y THEN t < y ELSE y <= t
      BY DEF Stays
    <3>1. ~(q2 < y) /\ ~(q < x) BY <2>1, <2>12, <1>5
    <3>2. ASSUME NEW c \in {-1, 0, 1}, Leads(g, q2, t, c) PROVE y <= t
      <4>1. Leads(f, q, t - k, c) BY <2>6, <3>2
      <4>2. x <= t - k BY <4>1, <2>5, <1>2, <3>1 DEF Stays
      <4> QED BY <4>2, <2>12, <1>5
    <3>3. ASSUME Refers(g, q2, t) PROVE y <= t
      <4>1. Refers(f, q, t - k) BY <2>6, <3>3
      <4>2. x <= t - k BY <4>1, <2>5, <1>2, <3>1 DEF Stays
      <4> QED BY <4>2, <2>12, <1>5
    <3> QED BY <3>1, <3>2, <3>3
  <2> QED BY <2>11, <2>12 DEF q2
<1> QED BY <1>11, <1>12

\* No op leads behind the end.
LEMMA EndStays ==
  ASSUME NEW f, IsBuffer(f), NEW S, S \subseteq 1..(Len(f) + 1), NEW L, NEW P, NEW G,
         NEW q \in Ops(f, S, P), OpOK(f, S, L, G, q)
  PROVE  Stays(f, q, Len(f) + 1)
<1>1. Len(f) \in Nat BY BufferLen
<1>2. q < Len(f) + 1 BY <1>1 DEF Ops
<1>3. \A t \in Int, d \in {-1, 0, 1} : Leads(f, q, t, d) => t <= Len(f) + 1
  <2> SUFFICES ASSUME NEW t \in Int, NEW d \in {-1, 0, 1}, Leads(f, q, t, d)
               PROVE  t <= Len(f) + 1
    OBVIOUS
  <2>1. t \in S BY DEF OpOK
  <2> QED BY <1>1, <2>1
<1>4. \A t \in Int : Refers(f, q, t) => t < Len(f) + 1
  <2> SUFFICES ASSUME NEW t \in Int, Refers(f, q, t) PROVE t < Len(f) + 1 OBVIOUS
  <2>1. t <= Len(f) BY DEF OpOK
  <2> QED BY <1>1, <2>1
<1> QED BY <1>2, <1>3, <1>4 DEF Stays

LEMMA EndIsBarrier ==
  ASSUME NEW f, NEW S, NEW L, NEW P, NEW B, NEW G, Code(f, S, L, P, B, G)
  PROVE  Barrier(f, S, L, P, Len(f) + 1)
BY EndStays DEF Code, Barrier

LEMMA PlaceKept ==
  ASSUME NEW f, NEW S, NEW L, NEW P, NEW B, NEW G, Code(f, S, L, P, B, G),
         NEW x \in Nat, x <= Len(f) + 1, NEW k \in Nat, NEW d, NEW g, NEW S2, NEW L2, NEW New,
         Rebuilt(f, S, L, P, x, k, d, g, S2, L2, New),
         NEW p \in P, p + 3 <= x, g[p] \in {0, Op.jump_past_alt}
  PROVE  PlaceHolds(g, S2, p)
<1>1. /\ S \subseteq 1..(Len(f) + 1) /\ Len(f) \in Nat /\ PlaceHolds(f, S, p)
  BY BufferLen DEF Code
<1>2. p \in S /\ p + 3 \in S /\ p + 1 \notin S /\ p + 2 \notin S BY <1>1 DEF PlaceHolds
<1>3. p \in Nat BY <1>1, <1>2
<1>4. \A i \in S : i < x => i \in S2 BY DEF Rebuilt
<1>5. p \in S2 BY <1>2, <1>3, <1>4
<1>6. p + 3 \in S2
  <2>1. x \in S2 BY DEF Rebuilt
  <2>2. p + 3 < x \/ p + 3 = x BY <1>3
  <2> QED BY <2>1, <2>2, <1>2, <1>4
<1>7. \A i \in S2 : i < x => i \in S
  <2> SUFFICES ASSUME NEW i \in S2, i < x PROVE i \in S OBVIOUS
  <2>1. i \in Nat BY DEF Rebuilt
  <2>2. CASE x + k <= i BY <2>1, <2>2
  <2>3. CASE i \in New
    <3>1. (x <= i /\ i < x + k) \/ Len(f) + 1 + k < i BY <2>3 DEF Rebuilt
    <3> QED BY <3>1, <2>1, <1>1
  <2> QED BY <2>2, <2>3 DEF Rebuilt
<1>8. p + 1 \notin S2 /\ p + 2 \notin S2 BY <1>2, <1>3, <1>7
<1> QED BY <1>5, <1>6, <1>8 DEF PlaceHolds

\* What is new in the code is such as code has to be.
Completed(f, S, L, P, x, k, g, S2, L2, New, P2, B2, G2) ==
    /\ S2 \subseteq 1..(Len(g) + 1) /\ Len(g) + 1 \in S2 /\ L2[Len(g) + 1] = 0
    /\ \A p \in P2 : PlaceHolds(g, S2, p)
    /\ \A y \in B2 : (y <= x /\ Barrier(f, S, L, P, y)) \/ y = Len(g) + 1
    /\ \A q \in New \cup {Len(f) + 1 + k} \cup P :
          q \in Ops(g, S2, P2) =>
              /\ OpOK(g, S2, L2, G2, q)
              /\ \A y \in B2 : y <= x => Stays(g, q, y)

\* What is rebuilt is code again when what is new in it is.
LEMMA Built ==
  ASSUME NEW f, NEW S, NEW L, NEW P, NEW B, NEW G, Code(f, S, L, P, B, G),
         NEW x, Barrier(f, S, L, P, x), \A p \in P : p + 3 <= x,
         NEW k \in Nat, NEW d \in Nat, NEW g, NEW S2, NEW L2, NEW New,
         Rebuilt(f, S, L, P, x, k, d, g, S2, L2, New),
         NEW G2 \in Nat, G <= G2, NEW P2, NEW B2,
         Completed(f, S, L, P, x, k, g, S2, L2, New, P2, B2, G2)
  PROVE  Code(g, S2, L2, P2, B2, G2)
<1>0. /\ S2 \subseteq 1..(Len(g) + 1) /\ Len(g) + 1 \in S2 /\ L2[Len(g) + 1] = 0
      /\ \A p \in P2 : PlaceHolds(g, S2, p)
      /\ \A y \in B2 : (y <= x /\ Barrier(f, S, L, P, y)) \/ y = Len(g) + 1
      /\ \A q \in New \cup {Len(f) + 1 + k} \cup P :
            q \in Ops(g, S2, P2) =>
                /\ OpOK(g, S2, L2, G2, q)
                /\ \A y \in B2 : y <= x => Stays(g, q, y)
  BY DEF Completed
<1> DEFINE N == Len(f) + 1
<1>1. /\ IsBuffer(f) /\ IsBuffer(g) /\ Len(f) \in Nat /\ Len(g) \in Nat /\ G \in Nat
      /\ S \subseteq 1..N /\ L \in [S -> Nat] /\ 1 \in S /\ L[1] = 0
  BY BufferLen DEF Code, Rebuilt
<1>2. x \in S /\ L[x] = 0 /\ x \in Nat /\ 1 <= x BY <1>1 DEF Barrier
<1>3. L2 \in [S2 -> Nat] /\ x \in S2 /\ L2[x] = 0 BY DEF Rebuilt
<1>4. \A i \in S : IF i < x THEN i \in S2 /\ L2[i] = L[i]
                   ELSE i + k \in S2 /\ L2[i + k] = L[i] + d
  BY DEF Rebuilt
<1>5. 1 \in S2 /\ L2[1] = 0
  <2>1. CASE 1 < x BY <2>1, <1>1, <1>4
  <2>2. CASE x = 1 BY <2>2, <1>3
  <2> QED BY <2>1, <2>2, <1>2
<1>6. ASSUME NEW q \in Ops(g, S2, P2)
      PROVE  /\ OpOK(g, S2, L2, G2, q)
             /\ \A y \in B2 : y <= x => Stays(g, q, y)
  <2>1. CASE q \in New \cup {N + k} \cup P BY <2>1, <1>0
  <2>2. CASE q \notin New \cup {N + k} \cup P
    <3>1. q \in S2 /\ q \in Nat BY DEF Ops, Rebuilt
    <3>2. \/ q < x /\ q \in S
          \/ x + k <= q /\ q - k \in S
      BY <3>1, <2>2 DEF Rebuilt
    <3>3. PICK r \in S : q = Shift(r, x, k) /\ r \notin P /\ r # N
      <4>1. CASE q < x /\ q \in S
        <5>1. q = Shift(q, x, k) BY <4>1 DEF Shift
        <5>2. q # N BY <4>1, <1>1, <1>2
        <5> QED BY <5>1, <5>2, <4>1, <2>2
      <4>2. CASE x + k <= q /\ q - k \in S
        <5>1. ~(q - k < x) /\ (q - k) + k = q BY <4>2, <3>1, <1>2
        <5>2. q = Shift(q - k, x, k) BY <5>1 DEF Shift
        <5>3. q - k # N BY <2>2, <5>1
        <5>4. q - k \notin P
          <6> SUFFICES ASSUME q - k \in P PROVE FALSE OBVIOUS
          <6>1. (q - k) + 3 <= x OBVIOUS
          <6> QED BY <6>1, <5>1, <3>1, <1>2
        <5> QED BY <5>2, <5>3, <5>4, <4>2
      <4> QED BY <3>2, <4>1, <4>2
    <3>4. r \in Ops(f, S, P) BY <3>3 DEF Ops
    <3>5. /\ OpOK(g, S2, L2, G2, q)
          /\ \A y \in Int : y <= x /\ Stays(f, r, y) => Stays(g, q, y)
      BY <3>3, <3>4, MovedOps
    <3>6. ASSUME NEW y \in B2, y <= x PROVE Stays(g, q, y)
      <4>0. (y <= x /\ Barrier(f, S, L, P, y)) \/ y = Len(g) + 1 BY <1>0
      <4>1. Barrier(f, S, L, P, y)
        <5>1. y = Len(g) + 1 => y = x /\ Len(g) + 1 = x
          <6>1. Len(f) + k <= Len(g) BY DEF Rebuilt
          <6>2. x <= Len(f) + 1 BY <1>1, <1>2
          <6> QED BY <6>1, <6>2, <3>6, <1>1, <1>2
        <5> QED BY <5>1, <4>0
      <4>2. y \in Int /\ Stays(f, r, y) BY <4>1, <3>4, <1>1 DEF Barrier
      <4> QED BY <4>2, <3>5, <3>6
    <3> QED BY <3>5, <3>6
  <2> QED BY <2>1, <2>2
<1>7. ASSUME NEW y \in B2 PROVE Barrier(g, S2, L2, P2, y)
  <2>0. (y <= x /\ Barrier(f, S, L, P, y)) \/ y = Len(g) + 1 BY <1>0
  <2>1. CASE y <= x /\ Barrier(f, S, L, P, y)
    <3>1. y \in S /\ L[y] = 0 /\ y \in Nat BY <2>1, <1>1 DEF Barrier
    <3>2. y \in S2 /\ L2[y] = 0
      <4>1. CASE y < x BY <4>1, <3>1, <1>4
      <4>2. CASE y = x BY <4>2, <1>3
      <4> QED BY <4>1, <4>2, <2>1, <3>1, <1>2
    <3> QED BY <3>2, <2>1, <1>6 DEF Barrier
  <2>2. CASE y = Len(g) + 1
    <3>1. \A q \in Ops(g, S2, P2) : Stays(g, q, Len(g) + 1) BY <1>0, <1>1, <1>6, EndStays
    <3> QED BY <3>1, <2>2, <1>0 DEF Barrier
  <2> QED BY <2>0, <2>1, <2>2
<1> QED BY <1>0, <1>1, <1>3, <1>5, <1>6, <1>7 DEF Code

-----------------------------------------------------------------------------
(***************************************************************************)
(* What the ops of each kind ask for, and where they lead.                 *)
(***************************************************************************)

StraightOps == PlainOps \cup CountedOps \cup GroupOps \cup {Op.duplicate}

LEMMA StraightOp ==
  ASSUME NEW f, NEW q, f[q] \in StraightOps
  PROVE  /\ \A t, d : Leads(f, q, t, d) <=> d = 0 /\ t = q + Size(f, q)
         /\ \A r : ~Refers(f, q, r)
<1> DEFINE o == f[q]
<1>1. o \in PlainOps \cup CountedOps \cup GroupOps \cup CountingOps
            \cup {Op.duplicate, Op.set_number_at}
  BY DEF StraightOps
<1>2. /\ o \notin GotoOps \cup CountingOps \cup {Op.on_failure_jump}
      /\ o # Op.on_failure_jump /\ o # Op.dummy_failure_jump /\ o \notin LoopOps
      /\ o # Op.jump_n /\ o # Op.set_number_at
  <2>1. o \in StraightOps OBVIOUS
  <2> HIDE DEF o
  <2> QED BY <2>1, OpCodes, OpKinds DEF StraightOps
<1> QED BY <1>1, <1>2, Zenon DEF Leads, Refers

LEMMA GotoOp ==
  ASSUME NEW f, NEW q, f[q] \in GotoOps
  PROVE  /\ Size(f, q) = 3
         /\ \A G : JumpArgs(f, q) => Args(f, q, G)
         /\ \A t, d : Leads(f, q, t, d) <=> d = 0 /\ t = Target(f, q)
         /\ \A r : ~Refers(f, q, r)
<1> DEFINE o == f[q]
<1>1. o \in GotoOps \cup CountingOps \cup {Op.on_failure_jump} OBVIOUS
<1>2. /\ o \notin PlainOps \cup CountedOps \cup GroupOps \cup CountingOps
               \cup {Op.duplicate, Op.set_number_at}
      /\ o \notin PlainOps /\ o \notin CountedOps /\ o # Op.duplicate
      /\ o \notin CountingOps \cup {Op.set_number_at}
      /\ o # Op.on_failure_jump /\ o # Op.dummy_failure_jump /\ o \notin LoopOps
      /\ o # Op.jump_n /\ o # Op.set_number_at
  <2>1. o \in GotoOps OBVIOUS
  <2> HIDE DEF o
  <2> QED BY <2>1, OpCodes, OpKinds
<1>3. o \in GotoOps \cup LoopOps \cup {Op.on_failure_jump, Op.set_number_at} OBVIOUS
<1>4. Size(f, q) = 3 BY <1>2, Zenon DEF Size
<1>5. \A G : JumpArgs(f, q) => Args(f, q, G) BY <1>3, Zenon DEF Args
<1> QED BY <1>1, <1>2, <1>4, <1>5, Zenon DEF Leads, Refers

LEMMA LoopOp ==
  ASSUME NEW f, NEW q, f[q] \in LoopOps
  PROVE  /\ Size(f, q) = 3
         /\ \A G : JumpArgs(f, q) => Args(f, q, G)
         /\ \A t, d : Leads(f, q, t, d) <=> d = -1 /\ t = Target(f, q)
         /\ \A r : ~Refers(f, q, r)
<1> DEFINE o == f[q]
<1>2. /\ o \notin PlainOps \cup CountedOps \cup GroupOps \cup CountingOps
               \cup {Op.duplicate, Op.set_number_at}
      /\ o \notin PlainOps /\ o \notin CountedOps /\ o # Op.duplicate
      /\ o \notin CountingOps \cup {Op.set_number_at}
      /\ o \notin GotoOps \cup CountingOps \cup {Op.on_failure_jump}
      /\ o # Op.on_failure_jump /\ o # Op.dummy_failure_jump
      /\ o # Op.jump_n /\ o # Op.set_number_at
  <2>1. o \in LoopOps OBVIOUS
  <2> HIDE DEF o
  <2> QED BY <2>1, OpCodes, OpKinds
<1>3. o \in GotoOps \cup LoopOps \cup {Op.on_failure_jump, Op.set_number_at} OBVIOUS
<1>4. Size(f, q) = 3 BY <1>2, Zenon DEF Size
<1>5. \A G : JumpArgs(f, q) => Args(f, q, G) BY <1>3, Zenon DEF Args
<1> QED BY <1>2, <1>4, <1>5, Zenon DEF Leads, Refers

LEMMA FailureJumpOp ==
  ASSUME NEW f, NEW q, f[q] = Op.on_failure_jump
  PROVE  /\ Size(f, q) = 3
         /\ \A G : JumpArgs(f, q) => Args(f, q, G)
         /\ \A t, d : Leads(f, q, t, d) <=> \/ d = 0 /\ t = Target(f, q)
                                            \/ d = 1 /\ t = q + 3
         /\ \A r : ~Refers(f, q, r)
<1> DEFINE o == f[q]
<1>1. o \in GotoOps \cup CountingOps \cup {Op.on_failure_jump} OBVIOUS
<1>2. /\ o \notin PlainOps \cup CountedOps \cup GroupOps \cup CountingOps
               \cup {Op.duplicate, Op.set_number_at}
      /\ o \notin PlainOps /\ o \notin CountedOps /\ o # Op.duplicate
      /\ o \notin CountingOps \cup {Op.set_number_at}
      /\ o # Op.dummy_failure_jump /\ o \notin LoopOps
      /\ o # Op.jump_n /\ o # Op.set_number_at
  <2>1. o = Op.on_failure_jump OBVIOUS
  <2> HIDE DEF o
  <2> QED BY <2>1, OpCodes, OpKinds
<1>3. o \in GotoOps \cup LoopOps \cup {Op.on_failure_jump, Op.set_number_at} OBVIOUS
<1>4. Size(f, q) = 3 BY <1>2, Zenon DEF Size
<1>5. \A G : JumpArgs(f, q) => Args(f, q, G) BY <1>3, Zenon DEF Args
<1> QED BY <1>1, <1>2, <1>4, <1>5, Zenon DEF Leads, Refers

LEMMA DummyJumpOp ==
  ASSUME NEW f, NEW q, f[q] = Op.dummy_failure_jump
  PROVE  /\ Size(f, q) = 3
         /\ \A G : JumpArgs(f, q) /\ Number(f, q + 1) >= 0 => Args(f, q, G)
         /\ \A G : Args(f, q, G) => Number(f, q + 1) >= 0
         /\ \A t, d : Leads(f, q, t, d) <=> d = 1 /\ t = Target(f, q)
         /\ \A r : ~Refers(f, q, r)
<1> DEFINE o == f[q]
<1>2. /\ o \notin PlainOps \cup CountedOps \cup GroupOps \cup CountingOps
               \cup {Op.duplicate, Op.set_number_at}
      /\ o \notin PlainOps /\ o \notin CountedOps /\ o # Op.duplicate /\ o \notin GroupOps
      /\ o \notin CountingOps \cup {Op.set_number_at}
      /\ o \notin GotoOps \cup CountingOps \cup {Op.on_failure_jump}
      /\ o \notin GotoOps \cup LoopOps \cup {Op.on_failure_jump, Op.set_number_at}
      /\ o # Op.on_failure_jump /\ o \notin LoopOps
      /\ o # Op.jump_n /\ o # Op.set_number_at /\ o # Op.succeed_n
  <2>1. o = Op.dummy_failure_jump OBVIOUS
  <2> HIDE DEF o
  <2> QED BY <2>1, OpCodes, OpKinds
<1>4. Size(f, q) = 3 BY <1>2, Zenon DEF Size
<1>5. \A G : JumpArgs(f, q) /\ Number(f, q + 1) >= 0 => Args(f, q, G) BY Zenon DEF Args
<1>6. \A G : Args(f, q, G) => Number(f, q + 1) >= 0 BY <1>2, Zenon DEF Args
<1> QED BY <1>2, <1>4, <1>5, <1>6, Zenon DEF Leads, Refers

LEMMA SucceedOp ==
  ASSUME NEW f, NEW q, f[q] = Op.succeed_n
  PROVE  /\ Size(f, q) = 5
         /\ \A G : JumpArgs(f, q) /\ f[q + 2] < Op.on_failure_jump => Args(f, q, G)
         /\ \A G : Args(f, q, G) => f[q + 2] < Op.on_failure_jump
         /\ \A t, d : Leads(f, q, t, d) <=> d = 0 /\ t \in {q + 5, Target(f, q)}
         /\ \A r : ~Refers(f, q, r)
<1> DEFINE o == f[q]
<1>1. o \in CountingOps BY DEF CountingOps
<1>2. /\ o \notin PlainOps /\ o \notin CountedOps /\ o # Op.duplicate /\ o \notin GroupOps
      /\ o \notin GotoOps \cup LoopOps \cup {Op.on_failure_jump, Op.set_number_at}
      /\ o # Op.dummy_failure_jump /\ o \notin LoopOps /\ o # Op.on_failure_jump
      /\ o # Op.jump_n /\ o # Op.set_number_at
  <2>1. o = Op.succeed_n OBVIOUS
  <2> HIDE DEF o
  <2> QED BY <2>1, OpCodes, OpKinds
<1>3. /\ o \in GotoOps \cup CountingOps \cup {Op.on_failure_jump}
      /\ o \in CountingOps \cup {Op.set_number_at}
      /\ o \in PlainOps \cup CountedOps \cup GroupOps \cup CountingOps
               \cup {Op.duplicate, Op.set_number_at}
  BY <1>1
<1>4. Size(f, q) = 5 BY <1>2, <1>3, Zenon DEF Size
<1>5. \A G : JumpArgs(f, q) /\ f[q + 2] < Op.on_failure_jump => Args(f, q, G) BY Zenon DEF Args
<1>6. \A G : Args(f, q, G) => f[q + 2] < Op.on_failure_jump BY <1>2, Zenon DEF Args
<1>7. \A t, d : Leads(f, q, t, d) <=> d = 0 /\ t \in {q + Size(f, q), Target(f, q)}
  BY <1>2, <1>3, Zenon DEF Leads
<1>8. \A t, d : Leads(f, q, t, d) <=> d = 0 /\ t \in {q + 5, Target(f, q)}
  BY <1>4, <1>7
<1>9. \A r : ~Refers(f, q, r) BY <1>2, Zenon DEF Refers
<1> QED BY <1>4, <1>5, <1>6, <1>8, <1>9

LEMMA JumpNOp ==
  ASSUME NEW f, NEW q, f[q] = Op.jump_n
  PROVE  /\ Size(f, q) = 5
         /\ \A G : JumpArgs(f, q) /\ Target(f, q) < q => Args(f, q, G)
         /\ \A t, d : Leads(f, q, t, d) <=> d = 0 /\ t \in {q + 5, Target(f, q)}
         /\ \A r : Refers(f, q, r) <=> r = Target(f, q)
<1> DEFINE o == f[q]
<1>1. o \in CountingOps BY DEF CountingOps
<1>2. /\ o \notin PlainOps /\ o \notin CountedOps /\ o # Op.duplicate /\ o \notin GroupOps
      /\ o \notin GotoOps \cup LoopOps \cup {Op.on_failure_jump, Op.set_number_at}
      /\ o # Op.dummy_failure_jump /\ o \notin LoopOps /\ o # Op.on_failure_jump
      /\ o # Op.succeed_n /\ o # Op.set_number_at
  <2>1. o = Op.jump_n OBVIOUS
  <2> HIDE DEF o
  <2> QED BY <2>1, OpCodes, OpKinds
<1>3. /\ o \in GotoOps \cup CountingOps \cup {Op.on_failure_jump}
      /\ o \in CountingOps \cup {Op.set_number_at}
      /\ o \in PlainOps \cup CountedOps \cup GroupOps \cup CountingOps
               \cup {Op.duplicate, Op.set_number_at}
  BY <1>1
<1>4. Size(f, q) = 5 BY <1>2, <1>3, Zenon DEF Size
<1>5. \A G : JumpArgs(f, q) /\ Target(f, q) < q => Args(f, q, G) BY Zenon DEF Args
<1>7. \A t, d : Leads(f, q, t, d) <=> d = 0 /\ t \in {q + Size(f, q), Target(f, q)}
  BY <1>2, <1>3, Zenon DEF Leads
<1>8. \A t, d : Leads(f, q, t, d) <=> d = 0 /\ t \in {q + 5, Target(f, q)}
  BY <1>4, <1>7
<1>9. \A r : Refers(f, q, r) <=> r = Target(f, q) BY <1>2, Zenon DEF Refers
<1> QED BY <1>4, <1>5, <1>8, <1>9

LEMMA SetNumberOp ==
  ASSUME NEW f, NEW q, f[q] = Op.set_number_at
  PROVE  /\ Size(f, q) = 5
         /\ \A G : JumpArgs(f, q) => Args(f, q, G)
         /\ \A t, d : Leads(f, q, t, d) <=> d = 0 /\ t = q + 5
         /\ \A r : Refers(f, q, r) <=> r = q + Number(f, q + 1)
         /\ f[q] # Op.jump_n
<1> DEFINE o == f[q]
<1>1. o \in CountingOps \cup {Op.set_number_at} OBVIOUS
<1>2. /\ o \notin PlainOps /\ o \notin CountedOps /\ o # Op.duplicate /\ o \notin GroupOps
      /\ o # Op.dummy_failure_jump /\ o \notin LoopOps /\ o # Op.on_failure_jump
      /\ o \notin GotoOps \cup CountingOps \cup {Op.on_failure_jump}
      /\ o # Op.succeed_n /\ o # Op.jump_n
  <2>1. o = Op.set_number_at OBVIOUS
  <2> HIDE DEF o
  <2> QED BY <2>1, OpCodes, OpKinds
<1>3. /\ o \in GotoOps \cup LoopOps \cup {Op.on_failure_jump, Op.set_number_at}
      /\ o \in PlainOps \cup CountedOps \cup GroupOps \cup CountingOps
               \cup {Op.duplicate, Op.set_number_at}
  OBVIOUS
<1>4. Size(f, q) = 5 BY <1>1, <1>2, Zenon DEF Size
<1>5. \A G : JumpArgs(f, q) => Args(f, q, G) BY <1>3, Zenon DEF Args
<1>7. \A t, d : Leads(f, q, t, d) <=> d = 0 /\ t = q + Size(f, q)
  BY <1>2, <1>3, Zenon DEF Leads
<1>8. \A t, d : Leads(f, q, t, d) <=> d = 0 /\ t = q + 5 BY <1>4, <1>7
<1>9. \A r : Refers(f, q, r) <=> r = q + Number(f, q + 1) BY <1>2, Zenon DEF Refers
<1> QED BY <1>2, <1>4, <1>5, <1>8, <1>9

-----------------------------------------------------------------------------
(***************************************************************************)
(* Code that is rebuilt.                                                   *)
(***************************************************************************)

\* The bytes of f are in g, those from x on k bytes further.
Carries(f, P, x, k, g) ==
    /\ IsBuffer(g) /\ Len(f) + k <= Len(g)
    /\ \A i \in 1..(x - 1) : (\A p \in P : i < p \/ p + 2 < i) => g[i] = f[i]
    /\ \A i \in x..Len(f) : g[i + k] = f[i]

\* The addresses of the ops, and the points on the failure stack at each.
NewOps(S, x, k, New) == {q \in S : q < x} \cup {q + k : q \in {i \in S : x <= i}} \cup New
NewLabels(S, L, x, k, d, New) ==
    [i \in NewOps(S, x, k, New) |->
        IF i < x THEN L[i] ELSE IF i \in New THEN 0 ELSE L[i - k] + d]

Raised(f, S, L, P, x, k, d, g, S2, L2, New) ==
    /\ Rebuilt(f, S, L, P, x, k, d, g, S2, L2, New)
    /\ S2 \subseteq 1..(Len(g) + 1)
    /\ \A i \in New : i \in S2 /\ L2[i] = 0
    /\ Len(f) + 1 + k \in S2 /\ L2[Len(f) + 1 + k] = d
    /\ x + k \in S2 /\ L2[x + k] = d
    /\ \A i \in S : i < x => i \in S2 /\ L2[i] = L[i]

LEMMA Assembled ==
  ASSUME NEW f, NEW S, NEW L, NEW P, NEW B, NEW G, Code(f, S, L, P, B, G),
         NEW x, Barrier(f, S, L, P, x), NEW k \in Nat, NEW d \in Nat, k = 0 => d = 0,
         NEW g, Carries(f, P, x, k, g),
         NEW New, New \subseteq 1..(Len(g) + 1), k # 0 => x \in New,
         \A i \in New : (x <= i /\ i < x + k) \/ Len(f) + 1 + k < i
  PROVE  \E S2, L2 : Raised(f, S, L, P, x, k, d, g, S2, L2, New)
<1> DEFINE N == Len(f) + 1
           S2 == NewOps(S, x, k, New)
           L2 == NewLabels(S, L, x, k, d, New)
<1>1. /\ IsBuffer(f) /\ IsBuffer(g) /\ Len(f) \in Nat /\ Len(g) \in Nat /\ Len(f) + k <= Len(g)
      /\ S \subseteq 1..N /\ L \in [S -> Nat] /\ N \in S /\ L[N] = 0
  BY BufferLen DEF Code, Carries
<1>2. x \in S /\ L[x] = 0 /\ x \in Nat /\ 1 <= x /\ x <= N BY <1>1 DEF Barrier
<1>3. \A i \in S : L[i] \in Nat /\ i \in Nat /\ 1 <= i /\ i <= N BY <1>1
<1>4. \A i \in New : i \in Nat /\ 1 <= i /\ i <= Len(g) + 1 BY <1>1
<1>5. ASSUME NEW i \in S, i < x PROVE i \in S2 /\ L2[i] = L[i]
  BY <1>5 DEF NewOps, NewLabels
<1>6. ASSUME NEW i \in S, ~(i < x) PROVE i + k \in S2 /\ L2[i + k] = L[i] + d
  <2>1. i + k \in S2 BY <1>2, <1>3, <1>6 DEF NewOps
  <2>2. i + k \notin New
    <3>1. x + k <= i + k /\ i + k <= N + k BY <1>2, <1>3, <1>6
    <3> SUFFICES ASSUME i + k \in New PROVE FALSE OBVIOUS
    <3>2. (x <= i + k /\ i + k < x + k) \/ N + k < i + k OBVIOUS
    <3> QED BY <3>1, <3>2, <1>2, <1>3
  <2>3. ~(i + k < x) /\ (i + k) - k = i BY <1>2, <1>3, <1>6
  <2> QED BY <2>1, <2>2, <2>3 DEF NewLabels
<1>7. ASSUME NEW i \in New PROVE i \in S2 /\ L2[i] = 0
  <2>1. ~(i < x)
    <3>1. (x <= i /\ i < x + k) \/ N + k < i OBVIOUS
    <3> QED BY <3>1, <1>1, <1>2, <1>4
  <2> QED BY <2>1 DEF NewOps, NewLabels
<1>8. N + k \in S2 /\ L2[N + k] = d
  <2>1. ~(N < x) BY <1>1, <1>2
  <2> QED BY <2>1, <1>1, <1>6
<1>9. x + k \in S2 /\ L2[x + k] = d
  <2>1. ~(x < x) BY <1>2
  <2> QED BY <2>1, <1>2, <1>6
<1>10. x \in S2 /\ L2[x] = 0
  <2>1. CASE k = 0
    <3>1. x + k = x /\ d = 0 BY <2>1, <1>2
    <3> QED BY <3>1, <1>9
  <2>2. CASE k # 0 BY <2>2, <1>7
  <2> QED BY <2>1, <2>2
<1>11. S2 \subseteq 1..(Len(g) + 1)
  <2> SUFFICES ASSUME NEW i \in S2 PROVE i \in 1..(Len(g) + 1) OBVIOUS
  <2>1. CASE i \in S BY <2>1, <1>1, <1>3
  <2>2. CASE \E q \in S : i = q + k BY <2>2, <1>1, <1>3
  <2>3. CASE i \in New BY <2>3
  <2> QED BY <2>1, <2>2, <2>3 DEF NewOps
<1>12. L2 \in [S2 -> Nat]
  <2> SUFFICES ASSUME NEW i \in S2
               PROVE  (IF i < x THEN L[i] ELSE IF i \in New THEN 0 ELSE L[i - k] + d) \in Nat
    BY DEF NewLabels
  <2>1. CASE i \in S /\ i < x BY <2>1, <1>3
  <2>2. CASE \E q \in S : x <= q /\ i = q + k
    <3>1. PICK q \in S : x <= q /\ i = q + k BY <2>2
    <3>2. ~(i < x) /\ i - k = q BY <3>1, <1>2, <1>3
    <3> QED BY <3>2, <1>3
  <2>3. CASE i \in New
    <3>1. ~(i < x)
      <4>1. (x <= i /\ i < x + k) \/ N + k < i BY <2>3
      <4> QED BY <4>1, <2>3, <1>1, <1>2, <1>4
    <3> QED BY <3>1, <2>3
  <2> QED BY <2>1, <2>2, <2>3 DEF NewOps
<1>13. ASSUME NEW i \in S2
       PROVE  \/ i < x /\ i \in S
              \/ x + k <= i /\ i <= N + k /\ i - k \in S
              \/ i \in New
  <2>1. CASE \E q \in S : x <= q /\ i = q + k
    <3>1. PICK q \in S : x <= q /\ i = q + k BY <2>1
    <3>2. i - k = q /\ x + k <= i /\ i <= N + k BY <3>1, <1>2, <1>3
    <3> QED BY <3>2
  <2> QED BY <2>1 DEF NewOps
<1>14. S2 \subseteq Nat BY <1>1, <1>11
<1>15. Rebuilt(f, S, L, P, x, k, d, g, S2, L2, New)
  BY <1>5, <1>6, <1>10, <1>12, <1>13, <1>14 DEF Rebuilt, Carries
<1>16. \A i \in S : i < x => i \in S2 /\ L2[i] = L[i] BY <1>5
<1> HIDE DEF S2, L2
<1>17. Raised(f, S, L, P, x, k, d, g, S2, L2, New)
  BY <1>7, <1>8, <1>9, <1>11, <1>15, <1>16 DEF Raised
<1> QED BY <1>17

\* What an op that is new has to show.
LEMMA NewOpOK ==
  ASSUME NEW f, NEW S, NEW L, NEW P, NEW x \in Nat, x <= Len(f) + 1, IsBuffer(f),
         NEW k \in Nat, NEW d, NEW g, NEW S2, NEW L2, NEW New, S \subseteq Int,
         Rebuilt(f, S, L, P, x, k, d, g, S2, L2, New),
         NEW G2, NEW q \in Nat, x <= q, Args(g, q, G2), q + Size(g, q) \in S2,
         (q < x + k /\ q + Size(g, q) <= x + k) \/ Len(f) + 1 + k <= q,
         \A i \in New : i <= q \/ q + Size(g, q) <= i,
         \A t, c : Leads(g, q, t, c) => t \in S2 /\ L2[t] <= L2[q] + c,
         \A r : Refers(g, q, r) =>
             /\ r \in S2 /\ r <= Len(g) /\ g[r] \in CountingOps
             /\ g[q] = Op.jump_n => g[r] = Op.succeed_n
  PROVE  OpOK(g, S2, L2, G2, q)
<1> DEFINE n == Size(g, q)
<1>1. n \in Nat /\ 1 <= n BY SizeOf
<1>2. Len(f) \in Nat BY BufferLen
<1>3. \A i \in S2 : i <= q \/ q + n <= i
  <2> SUFFICES ASSUME NEW i \in S2 PROVE i <= q \/ q + n <= i OBVIOUS
  <2>0. i \in Nat /\ S2 \subseteq Nat BY DEF Rebuilt
  <2>1. CASE i < x BY <2>0, <2>1
  <2>2. CASE x + k <= i /\ i <= Len(f) + 1 + k
    <3>1. (q < x + k /\ q + n <= x + k) \/ Len(f) + 1 + k <= q OBVIOUS
    <3> HIDE DEF n
    <3> QED BY <3>1, <2>0, <2>2, <1>1, <1>2
  <2>3. CASE i \in New BY <2>3
  <2> QED BY <2>1, <2>2, <2>3 DEF Rebuilt
<1> QED BY <1>3 DEF OpOK

\* Less may be asked of code.
LEMMA CodeFor ==
  ASSUME NEW f, NEW S, NEW L, NEW P, NEW B, NEW G, Code(f, S, L, P, B, G),
         NEW B2, B2 \subseteq B
  PROVE  Code(f, S, L, P, B2, G)
BY DEF Code

\* Code that ends at a barrier.
LEMMA Truncated ==
  ASSUME NEW f, NEW S, NEW L, NEW P, NEW B, NEW G, Code(f, S, L, P, B, G),
         NEW x, Barrier(f, S, L, P, x), \A p \in P : p + 3 <= x,
         NEW g, IsBuffer(g), Len(g) = x - 1, Agree(g, f, x - 1),
         NEW B2, \A y \in B2 : y \in B /\ y <= x
  PROVE  \E S2, L2 : Code(g, S2, L2, P, B2, G)
<1> DEFINE N == Len(f) + 1
           S2 == {i \in S : i <= x}
           L2 == [i \in S2 |-> L[i]]
<1>1. /\ IsBuffer(f) /\ Len(f) \in Nat /\ G \in Nat /\ S \subseteq 1..N /\ 1 \in S /\ L[1] = 0
      /\ L \in [S -> Nat]
  BY BufferLen DEF Code
<1>2. x \in S /\ L[x] = 0 /\ x \in Nat /\ 1 <= x /\ x <= N BY <1>1 DEF Barrier
<1>3. Len(g) + 1 = x BY <1>2
<1>4. S2 \subseteq 1..x /\ 1 \in S2 /\ x \in S2 /\ L2 \in [S2 -> Nat] /\ L2[1] = 0 /\ L2[x] = 0
  <2>1. S2 \subseteq 1..x
    <3> SUFFICES ASSUME NEW i \in S, i <= x PROVE i \in 1..x OBVIOUS
    <3>1. i \in 1..N BY <1>1
    <3>2. N \in Nat BY <1>1
    <3> QED BY <3>1, <3>2, <1>2
  <2>2. 1 \in S2 /\ x \in S2 BY <1>1, <1>2
  <2>3. L2 \in [S2 -> Nat]
    <3>1. \A i \in S2 : L[i] \in Nat BY <1>1
    <3> QED BY <3>1
  <2>4. L2[1] = 0 /\ L2[x] = 0 BY <2>2, <1>1, <1>2
  <2> QED BY <2>1, <2>2, <2>3, <2>4
<1>5. ASSUME NEW p \in P PROVE PlaceHolds(g, S2, p)
  <2>1. PlaceHolds(f, S, p) BY DEF Code
  <2>2. /\ p \in S /\ p + 3 \in S /\ p + 1 \notin S /\ p + 2 \notin S
        /\ f[p] \in {0, Op.jump_past_alt} /\ p \in Nat /\ 1 <= p /\ p + 3 <= x
    BY <2>1, <1>1 DEF PlaceHolds
  <2>3. p \in 1..(x - 1) BY <2>2, <1>2
  <2>4. g[p] = f[p] BY <2>3 DEF Agree
  <2>5. p \in S2 /\ p + 3 \in S2 /\ p + 1 \notin S2 /\ p + 2 \notin S2 BY <2>2, <1>2
  <2> QED BY <2>2, <2>4, <2>5 DEF PlaceHolds
<1>6. ASSUME NEW q \in Ops(g, S2, P)
      PROVE  /\ OpOK(g, S2, L2, G, q) /\ q \in Ops(f, S, P)
             /\ \A y \in Int : Stays(f, q, y) => Stays(g, q, y)
  <2> DEFINE n == Size(f, q)
  <2>1. q \in S /\ q < x /\ q \notin P /\ q \in Nat /\ 1 <= q /\ q # N /\ q \in S2
    BY <1>1, <1>2, <1>3, <1>4 DEF Ops
  <2>2. q \in Ops(f, S, P) BY <2>1 DEF Ops
  <2>3. OpOK(f, S, L, G, q) /\ Stays(f, q, x) BY <2>2 DEF Code, Barrier
  <2>4. /\ Args(f, q, G) /\ q + n \in S /\ \A i \in S : i <= q \/ q + n <= i
        /\ \A t \in Int, d \in {-1, 0, 1} : Leads(f, q, t, d) => t \in S /\ L[t] <= L[q] + d
        /\ \A r \in Int : Refers(f, q, r) =>
              /\ r \in S /\ r <= Len(f) /\ f[r] \in CountingOps
              /\ f[q] = Op.jump_n => f[r] = Op.succeed_n
    BY <2>3 DEF OpOK
  <2>5. n \in Nat /\ 1 <= n BY <2>1, <2>4, <1>1, SizeOf
  <2>6. q + n <= x BY <2>1, <2>4, <1>2
  <2>7. \A i \in q..(q + n - 1) : g[i + 0] = f[i]
    <3> SUFFICES ASSUME NEW i \in q..(q + n - 1) PROVE g[i + 0] = f[i] OBVIOUS
    <3>1. i \in 1..(x - 1) /\ i + 0 = i BY <2>1, <2>5, <2>6, <1>2
    <3> QED BY <3>1 DEF Agree
  <2>8. q + n <= Len(f) + 1 /\ q + 0 + n <= Len(g) + 1 BY <2>1, <2>4, <2>5, <2>6, <1>1, <1>3
  <2>9. /\ Size(g, q + 0) = Size(f, q) /\ Args(g, q + 0, G) /\ g[q + 0] = f[q]
        /\ \A t \in Int :
               /\ \A d \in {-1, 0, 1} : Leads(g, q + 0, t + 0, d) => Leads(f, q, t, d)
               /\ Refers(g, q + 0, t + 0) => Refers(f, q, t)
    <3>1. G <= G BY <1>1
    <3> QED BY <3>1, <2>1, <2>4, <2>7, <2>8, <1>1, SameOp
  <2>10. q + 0 = q /\ (\A t \in Int : t + 0 = t) BY <2>1
  <2>11. /\ Size(g, q) = n /\ Args(g, q, G) /\ g[q] = f[q]
         /\ \A t \in Int :
               /\ \A d \in {-1, 0, 1} : Leads(g, q, t, d) => Leads(f, q, t, d)
               /\ Refers(g, q, t) => Refers(f, q, t)
    BY <2>9, <2>10, Zenon
  <2> HIDE DEF n
  <2>12. ASSUME NEW t \in Int, NEW d \in {-1, 0, 1}, Leads(g, q, t, d)
         PROVE  t \in S2 /\ L2[t] <= L2[q] + d
    <3>1. Leads(f, q, t, d) BY <2>11, <2>12
    <3>2. t <= x BY <3>1, <2>1, <2>3 DEF Stays
    <3> QED BY <3>1, <3>2, <2>1, <2>4
  <2>13. ASSUME NEW r \in Int, Refers(g, q, r)
         PROVE  /\ r \in S2 /\ r <= Len(g) /\ g[r] \in CountingOps
                /\ g[q] = Op.jump_n => g[r] = Op.succeed_n
    <3>1. Refers(f, q, r) BY <2>11, <2>13
    <3>2. r < x BY <3>1, <2>1, <2>3 DEF Stays
    <3>3. /\ r \in S /\ f[r] \in CountingOps
          /\ f[q] = Op.jump_n => f[r] = Op.succeed_n
      BY <3>1, <2>4
    <3>4. r \in 1..(x - 1) BY <3>2, <3>3, <1>1, <1>2
    <3>5. g[r] = f[r] BY <3>4 DEF Agree
    <3> QED BY <3>2, <3>3, <3>4, <3>5, <2>11, <1>2
  <2>14. \A i \in S2 : i <= q \/ q + n <= i BY <2>4
  <2>15. q + n \in S2 BY <2>4, <2>6
  <2>16. OpOK(g, S2, L2, G, q)
    <3> HIDE DEF S2, L2
    <3> QED BY <2>11, <2>12, <2>13, <2>14, <2>15 DEF OpOK
  <2>17. ASSUME NEW y \in Int, Stays(f, q, y) PROVE Stays(g, q, y)
    BY <2>11, <2>17, Zenon DEF Stays
  <2> QED BY <2>2, <2>16, <2>17
<1>7. ASSUME NEW y \in B, y <= x PROVE Barrier(g, S2, L2, P, y)
  <2>1. Barrier(f, S, L, P, y) BY DEF Code
  <2>2. y \in S /\ L[y] = 0 /\ y \in Int BY <2>1, <1>1 DEF Barrier
  <2>3. y \in S2 /\ L2[y] = 0 BY <2>2, <1>7
  <2>4. \A q \in Ops(g, S2, P) : Stays(g, q, y) BY <1>6, <2>1, <2>2 DEF Barrier
  <2> QED BY <2>3, <2>4 DEF Barrier
<1> HIDE DEF S2, L2
<1>8. Code(g, S2, L2, P, B2, G) BY <1>1, <1>3, <1>4, <1>5, <1>6, <1>7 DEF Code
<1> QED BY <1>8

\* An op that goes on behind itself is written at the end.
LEMMA PushStraight ==
  ASSUME NEW f, NEW S, NEW L, NEW P, NEW B, NEW G, Code(f, S, L, P, B, G),
         NEW G2 \in Nat, G <= G2, NEW g, IsBuffer(g), NEW n \in Nat, 1 <= n,
         Len(g) = Len(f) + n, Agree(f, g, Len(f)),
         g[Len(f) + 1] \in StraightOps, Args(g, Len(f) + 1, G2), Size(g, Len(f) + 1) = n
  PROVE  \E S2, L2 : Code(g, S2, L2, P, B \cup {Len(f) + 1, Len(g) + 1}, G2)
<1> DEFINE N == Len(f) + 1
           M == Len(g) + 1
           New == {M}
           k == 0
           B2 == B \cup {N, M}
<1>1. /\ IsBuffer(f) /\ Len(f) \in Nat /\ S \subseteq 1..N /\ G \in Nat
  BY BufferLen DEF Code
<1>2. Barrier(f, S, L, P, N) BY EndIsBarrier
<1>3. M = N + n /\ M \in Nat /\ N \in Nat BY <1>1
<1>4. ASSUME NEW p \in P PROVE p + 3 <= N /\ p \in 1..(N - 1) /\ PlaceHolds(f, S, p)
  <2>1. PlaceHolds(f, S, p) BY DEF Code
  <2>2. p \in S /\ p + 3 \in S BY <2>1 DEF PlaceHolds
  <2> QED BY <2>1, <2>2, <1>1
<1>5. Carries(f, P, N, k, g)
  <2>1. \A i \in 1..(N - 1) : g[i] = f[i] BY <1>1 DEF Agree
  <2>2. \A i \in N..Len(f) : FALSE BY <1>1
  <2>3. Len(f) + k <= Len(g) BY <1>1
  <2> QED BY <2>1, <2>2, <2>3 DEF Carries
<1>6. /\ New \subseteq 1..(Len(g) + 1) /\ (k # 0 => N \in New)
      /\ \A i \in New : (N <= i /\ i < N + k) \/ Len(f) + 1 + k < i
  BY <1>1, <1>3
<1>15. PICK S2, L2 : Raised(f, S, L, P, N, k, k, g, S2, L2, New)
  <2>1. k \in Nat OBVIOUS
  <2> HIDE DEF N, New, k
  <2> QED BY <1>2, <1>5, <1>6, <2>1, Assembled
<1>7. /\ Rebuilt(f, S, L, P, N, k, k, g, S2, L2, New)
      /\ S2 \subseteq 1..(Len(g) + 1)
      /\ \A i \in New : i \in S2 /\ L2[i] = 0
      /\ N + k \in S2 /\ L2[N + k] = k
  BY <1>15 DEF Raised
<1>8. /\ \A t, c : Leads(g, N, t, c) <=> c = 0 /\ t = M
      /\ \A r : ~Refers(g, N, r)
  <2>1. g[N] \in StraightOps /\ Size(g, N) = n OBVIOUS
  <2> HIDE DEF N, M
  <2> QED BY <2>1, <1>3, StraightOp
<1>9. L2[N] = 0 /\ N \in S2 /\ M \in S2 /\ L2[M] = 0
  <2>1. N + k = N BY <1>3
  <2> QED BY <1>7, <2>1
<1>10. OpOK(g, S2, L2, G2, N)
  <2>1. /\ \A t, c : Leads(g, N, t, c) => t \in S2 /\ L2[t] <= L2[N] + c
        /\ \A i \in New : i <= N \/ N + Size(g, N) <= i
        /\ N + Size(g, N) \in S2 /\ Args(g, N, G2)
    BY <1>8, <1>9, <1>3
  <2>2. Len(f) + 1 + k <= N /\ N <= Len(f) + 1 /\ N <= N /\ S \subseteq Int
    BY <1>1
  <2>3. Rebuilt(f, S, L, P, N, k, k, g, S2, L2, New) BY <1>7
  <2>4. k \in Nat OBVIOUS
  <2> HIDE DEF N, New, k
  <2> QED BY <2>1, <2>2, <2>3, <2>4, <1>1, <1>3, <1>8, NewOpOK
<1>11. ASSUME NEW p \in P PROVE PlaceHolds(g, S2, p)
  <2>1. p + 3 <= N /\ p \in 1..(N - 1) /\ f[p] \in {0, Op.jump_past_alt}
    BY <1>4 DEF PlaceHolds
  <2>2. g[p] = f[p] BY <2>1, <1>1 DEF Agree
  <2>3. Rebuilt(f, S, L, P, N, k, k, g, S2, L2, New) /\ N <= Len(f) + 1 BY <1>7, <1>1
  <2>4. k \in Nat OBVIOUS
  <2> HIDE DEF N, New, k
  <2> QED BY <2>1, <2>2, <2>3, <2>4, <1>3, PlaceKept
<1>12. \A y \in B2 : (y <= N /\ Barrier(f, S, L, P, y)) \/ y = Len(g) + 1
  <2>1. ASSUME NEW y \in B PROVE y <= N /\ Barrier(f, S, L, P, y)
    <3>1. Barrier(f, S, L, P, y) BY DEF Code
    <3>2. y \in S BY <3>1 DEF Barrier
    <3> QED BY <3>1, <3>2, <1>1
  <2>2. N <= N BY <1>3
  <2> QED BY <2>1, <2>2, <1>2
<1>13. ASSUME NEW q \in New \cup {Len(f) + 1 + k} \cup P, q \in Ops(g, S2, P)
       PROVE  /\ OpOK(g, S2, L2, G2, q)
              /\ \A y \in B2 : y <= N => Stays(g, q, y)
  <2>1. q = N BY <1>13, <1>1 DEF Ops
  <2>2. ASSUME NEW y \in B2, y <= N PROVE Stays(g, N, y)
    <3>1. y \in Int
      <4>1. \A z \in B : z \in Int
        <5> SUFFICES ASSUME NEW z \in B PROVE z \in Int OBVIOUS
        <5>1. z \in S BY DEF Code, Barrier
        <5> QED BY <5>1, <1>1
      <4> QED BY <4>1, <1>3
    <3>2. ~(N < y) /\ y <= M BY <2>2, <3>1, <1>3
    <3> HIDE DEF N, M
    <3> QED BY <3>2, <1>8 DEF Stays
  <2> QED BY <2>1, <2>2, <1>10
<1>14. Code(g, S2, L2, P, B2, G2)
  <2>1. \A p \in P : p + 3 <= N BY <1>4
  <2>2. S2 \subseteq 1..(Len(g) + 1) /\ Len(g) + 1 \in S2 /\ L2[Len(g) + 1] = 0 BY <1>7
  <2>3. Rebuilt(f, S, L, P, N, k, k, g, S2, L2, New) BY <1>7
  <2>4. k \in Nat OBVIOUS
  <2>5. \A p \in P : PlaceHolds(g, S2, p) BY <1>11
  <2>6. \A q \in New \cup {Len(f) + 1 + k} \cup P :
            q \in Ops(g, S2, P) =>
                /\ OpOK(g, S2, L2, G2, q)
                /\ \A y \in B2 : y <= N => Stays(g, q, y)
    BY <1>13
  <2> HIDE DEF N, M, New, B2, k
  <2>7. Completed(f, S, L, P, N, k, g, S2, L2, New, P, B2, G2)
    BY <2>2, <2>5, <2>6, <1>12 DEF Completed
  <2> QED BY <2>1, <2>3, <2>4, <2>7, <1>2, Built
<1> QED BY <1>14

-----------------------------------------------------------------------------
(***************************************************************************)
(* What insert_op1, insert_op2 and store_op1 write, byte by byte.          *)
(***************************************************************************)

\* The bytes from loc on have moved by k.
Moved(f, g, loc, k) ==
    /\ IsBuffer(g) /\ Len(g) = Len(f) + k
    /\ \A i \in 1..(loc - 1) : g[i] = f[i]
    /\ \A i \in loc..Len(f) : g[i + k] = f[i]

\* The op o is at q, and the number n is its first argument.
HasJump(g, q, o, n) ==
    1 <= q /\ q + 2 <= Len(g) /\ g[q] = o /\ g[q + 1] = Bytes(n)[1] /\ g[q + 2] = Bytes(n)[2]

LEMMA InsertMoves ==
  ASSUME NEW buf, NEW bytes, IsBuffer(buf), IsBuffer(bytes),
         NEW loc \in Nat, 1 <= loc, loc <= Len(buf) + 1
  PROVE  /\ Moved(buf, Insert(buf, loc, bytes), loc, Len(bytes))
         /\ \A i \in 1..Len(bytes) : Insert(buf, loc, bytes)[loc - 1 + i] = bytes[i]
<1> DEFINE head == SubSeq(buf, 1, loc - 1)
           tail == SubSeq(buf, loc, Len(buf))
           l == loc - 1
           k == Len(bytes)
           n == Len(buf)
<1>1. n \in Nat /\ k \in Nat /\ l \in Nat BY BufferLen
<1>2. /\ IsBuffer(head) /\ Len(head) = l
      /\ \A i \in 1..l : head[i] = buf[i]
  <2>1. /\ IsBuffer(head) /\ Len(head) = l + 1 - 1
        /\ \A i \in 1..(l + 1 - 1) : head[i] = buf[1 + i - 1]
    BY <1>1, BufferPart
  <2>2. l + 1 - 1 = l /\ \A i \in 1..l : 1 + i - 1 = i BY <1>1
  <2> QED BY <2>1, <2>2
<1>3. /\ IsBuffer(tail) /\ Len(tail) = n + 1 - loc
      /\ \A i \in 1..(n + 1 - loc) : tail[i] = buf[loc + i - 1]
  BY <1>1, BufferPart
<1>8. Insert(buf, loc, bytes) = (head \o bytes) \o tail BY DEF Insert
<1> DEFINE two == head \o bytes
           new == two \o tail
<1> HIDE DEF head, tail
<1>4. /\ IsBuffer(two) /\ Len(two) = l + k /\ Agree(head, two, l)
      /\ \A i \in 1..k : two[l + i] = bytes[i]
  BY <1>2, BufferCat
<1> HIDE DEF two
<1>5. /\ IsBuffer(new) /\ Len(new) = (l + k) + (n + 1 - loc)
      /\ Agree(two, new, l + k)
      /\ \A i \in 1..(n + 1 - loc) : new[(l + k) + i] = tail[i]
  <2>1. /\ IsBuffer(new) /\ Len(new) = Len(two) + Len(tail)
        /\ Agree(two, new, Len(two))
        /\ \A i \in 1..Len(tail) : new[Len(two) + i] = tail[i]
    <3>1. IsBuffer(two) /\ IsBuffer(tail) BY <1>3, <1>4
    <3> HIDE DEF new
    <3>2. /\ IsBuffer(two \o tail) /\ Len(two \o tail) = Len(two) + Len(tail)
          /\ Agree(two, two \o tail, Len(two))
          /\ \A i \in 1..Len(tail) : (two \o tail)[Len(two) + i] = tail[i]
      BY <3>1, BufferCat
    <3> QED BY <3>2 DEF new
  <2> QED BY <2>1, <1>3, <1>4
<1> HIDE DEF new
<1>6. Len(new) = n + k BY <1>1, <1>5
<1>7. ASSUME NEW i \in 1..l PROVE new[i] = buf[i]
  <2>1. i \in 1..(l + k) BY <1>1
  <2> QED BY <2>1, <1>2, <1>4, <1>5 DEF Agree
<1>9. ASSUME NEW i \in 1..k PROVE new[l + i] = bytes[i]
  <2>1. l + i \in 1..(l + k) BY <1>1
  <2> QED BY <2>1, <1>4, <1>5 DEF Agree
<1>10. ASSUME NEW i \in loc..n PROVE new[i + k] = buf[i]
  <2> DEFINE j == i - l
  <2>1. j \in 1..(n + 1 - loc) /\ (l + k) + j = i + k /\ loc + j - 1 = i BY <1>1
  <2> HIDE DEF j
  <2> QED BY <2>1, <1>3, <1>5
<1>11. Moved(buf, new, loc, k) BY <1>5, <1>6, <1>7, <1>10 DEF Moved
<1> QED BY <1>8, <1>9, <1>11 DEF new, two

OpCode(op, n) == <<Op[op]>> \o Bytes(n)
OpCode2(op, n, n2) == OpCode(op, n) \o Bytes(n2)

LEMMA OpBytes ==
  ASSUME NEW op, NEW n
  PROVE  /\ IsBuffer(OpCode(op, n)) /\ Len(OpCode(op, n)) = 3 /\ OpCode(op, n)[1] = Op[op]
         /\ OpCode(op, n)[2] = Bytes(n)[1] /\ OpCode(op, n)[3] = Bytes(n)[2]
<1> DEFINE code == <<Op[op]>>
           c == Bytes(n)
           one == OpCode(op, n)
<1>1. IsBuffer(code) /\ Len(code) = 1 /\ code[1] = Op[op] BY BufferOf1
<1>2. IsBuffer(c) /\ Len(c) = 2 BY BufferOf2 DEF Bytes
<1>3. one = code \o c BY DEF OpCode
<1> HIDE DEF code, c, one
<1>4. IsBuffer(code) /\ IsBuffer(c) BY <1>1, <1>2
<1>5. /\ IsBuffer(code \o c) /\ Len(code \o c) = Len(code) + Len(c)
      /\ Agree(code, code \o c, Len(code))
      /\ \A i \in 1..Len(c) : (code \o c)[Len(code) + i] = c[i]
  BY <1>4, BufferCat
<1>6. /\ IsBuffer(one) /\ Len(one) = 1 + 2 /\ Agree(code, one, 1)
      /\ \A i \in 1..2 : one[1 + i] = c[i]
  BY <1>1, <1>2, <1>3, <1>5
<1>7. one[1 + 1] = c[1] /\ one[1 + 2] = c[2] BY <1>6
<1>8. one[1] = code[1] BY <1>6 DEF Agree
<1>9. /\ IsBuffer(one) /\ Len(one) = 3 /\ one[1] = Op[op] /\ one[2] = c[1] /\ one[3] = c[2]
  BY <1>1, <1>6, <1>7, <1>8
<1> QED BY <1>9 DEF one, c

LEMMA Op2Bytes ==
  ASSUME NEW op, NEW n, NEW n2
  PROVE  /\ IsBuffer(OpCode2(op, n, n2)) /\ Len(OpCode2(op, n, n2)) = 5
         /\ OpCode2(op, n, n2)[1] = Op[op]
         /\ OpCode2(op, n, n2)[2] = Bytes(n)[1] /\ OpCode2(op, n, n2)[3] = Bytes(n)[2]
<1> DEFINE c == Bytes(n2)
           one == OpCode(op, n)
           two == OpCode2(op, n, n2)
<1>1. /\ IsBuffer(one) /\ Len(one) = 3 /\ one[1] = Op[op]
      /\ one[2] = Bytes(n)[1] /\ one[3] = Bytes(n)[2]
  BY OpBytes
<1>2. IsBuffer(c) /\ Len(c) = 2 BY BufferOf2 DEF Bytes
<1>3. two = one \o c BY DEF OpCode2
<1> HIDE DEF c, one, two
<1>4. IsBuffer(one) /\ IsBuffer(c) BY <1>1, <1>2
<1>5. /\ IsBuffer(one \o c) /\ Len(one \o c) = Len(one) + Len(c)
      /\ Agree(one, one \o c, Len(one))
  BY <1>4, BufferCat
<1>6. IsBuffer(two) /\ Len(two) = 3 + 2 /\ Agree(one, two, 3) BY <1>1, <1>2, <1>3, <1>5
<1>7. two[1] = one[1] /\ two[2] = one[2] /\ two[3] = one[3] BY <1>6 DEF Agree
<1>8. /\ IsBuffer(two) /\ Len(two) = 5 /\ two[1] = Op[op]
      /\ two[2] = Bytes(n)[1] /\ two[3] = Bytes(n)[2]
  BY <1>1, <1>6, <1>7
<1> QED BY <1>8 DEF two

LEMMA InsertJumpMoves ==
  ASSUME NEW buf, IsBuffer(buf), NEW op, NEW to, NEW loc \in Nat, 1 <= loc, loc <= Len(buf) + 1
  PROVE  /\ Moved(buf, InsertJump(buf, op, loc, to), loc, 3)
         /\ HasJump(InsertJump(buf, op, loc, to), loc, Op[op], to - loc - 3)
<1>0. PICK n : n = to - loc - 3 OBVIOUS
<1> DEFINE code == OpCode(op, n)
           new == Insert(buf, loc, code)
<1>1. /\ IsBuffer(code) /\ Len(code) = 3 /\ code[1] = Op[op]
      /\ code[2] = Bytes(n)[1] /\ code[3] = Bytes(n)[2]
  BY OpBytes
<1>2. InsertJump(buf, op, loc, to) = new BY <1>0 DEF InsertJump, InsertOp1, OpCode
<1> DEFINE x == Bytes(n)[1]  y == Bytes(n)[2]
<1>3. code[2] = x /\ code[3] = y BY <1>1
<1> HIDE DEF code, x, y
<1>4. Moved(buf, new, loc, 3) /\ \A i \in 1..3 : new[loc - 1 + i] = code[i]
  <2>1. /\ Moved(buf, new, loc, Len(code))
        /\ \A i \in 1..Len(code) : new[loc - 1 + i] = code[i]
    <3>1. IsBuffer(code) BY <1>1
    <3>2. /\ Moved(buf, Insert(buf, loc, code), loc, Len(code))
          /\ \A i \in 1..Len(code) : Insert(buf, loc, code)[loc - 1 + i] = code[i]
      BY <3>1, InsertMoves
    <3> QED BY <3>2 DEF new
  <2> QED BY <2>1, <1>1
<1> HIDE DEF new
<1>5. new[loc - 1 + 1] = code[1] /\ new[loc - 1 + 2] = code[2] /\ new[loc - 1 + 3] = code[3]
  BY <1>4
<1>6. loc - 1 + 1 = loc /\ loc - 1 + 2 = loc + 1 /\ loc - 1 + 3 = loc + 2 OBVIOUS
<1>7. loc + 2 <= Len(new)
  <2>1. Len(buf) \in Nat BY BufferLen
  <2>2. Len(new) = Len(buf) + 3 BY <1>4 DEF Moved
  <2> QED BY <2>1, <2>2
<1>8. HasJump(new, loc, Op[op], n) BY <1>1, <1>3, <1>5, <1>6, <1>7 DEF HasJump, x, y
<1> QED BY <1>0, <1>2, <1>4, <1>8

LEMMA InsertOp2Moves ==
  ASSUME NEW buf, IsBuffer(buf), NEW op, NEW n, NEW n2,
         NEW loc \in Nat, 1 <= loc, loc <= Len(buf) + 1
  PROVE  /\ Moved(buf, InsertOp2(buf, loc, op, n, n2), loc, 5)
         /\ HasJump(InsertOp2(buf, loc, op, n, n2), loc, Op[op], n)
<1> DEFINE code == OpCode2(op, n, n2)
           new == Insert(buf, loc, code)
<1>1. /\ IsBuffer(code) /\ Len(code) = 5 /\ code[1] = Op[op]
      /\ code[2] = Bytes(n)[1] /\ code[3] = Bytes(n)[2]
  BY Op2Bytes
<1>2. InsertOp2(buf, loc, op, n, n2) = new BY DEF InsertOp2, OpCode2, OpCode
<1> DEFINE x == Bytes(n)[1]  y == Bytes(n)[2]
<1>3. code[2] = x /\ code[3] = y BY <1>1
<1> HIDE DEF code, x, y
<1>4. Moved(buf, new, loc, 5) /\ \A i \in 1..5 : new[loc - 1 + i] = code[i]
  <2>1. /\ Moved(buf, new, loc, Len(code))
        /\ \A i \in 1..Len(code) : new[loc - 1 + i] = code[i]
    <3>1. IsBuffer(code) BY <1>1
    <3>2. /\ Moved(buf, Insert(buf, loc, code), loc, Len(code))
          /\ \A i \in 1..Len(code) : Insert(buf, loc, code)[loc - 1 + i] = code[i]
      BY <3>1, InsertMoves
    <3> QED BY <3>2 DEF new
  <2> QED BY <2>1, <1>1
<1> HIDE DEF new
<1>5. new[loc - 1 + 1] = code[1] /\ new[loc - 1 + 2] = code[2] /\ new[loc - 1 + 3] = code[3]
  BY <1>4
<1>6. loc - 1 + 1 = loc /\ loc - 1 + 2 = loc + 1 /\ loc - 1 + 3 = loc + 2 OBVIOUS
<1>7. loc + 2 <= Len(new)
  <2>1. Len(buf) \in Nat BY BufferLen
  <2>2. Len(new) = Len(buf) + 5 BY <1>4 DEF Moved
  <2> QED BY <2>1, <2>2
<1>8. HasJump(new, loc, Op[op], n) BY <1>1, <1>3, <1>5, <1>6, <1>7 DEF HasJump, x, y
<1> QED BY <1>2, <1>4, <1>8

LEMMA StoreJumpHas ==
  ASSUME NEW buf, IsBuffer(buf), NEW op, NEW to, NEW loc \in Nat, 1 <= loc, loc + 2 <= Len(buf)
  PROVE  HasJump(StoreJump(buf, op, loc, to), loc, Op[op], to - loc - 3)
<1> DEFINE n == to - loc - 3
           x == Bytes(n)[1]
           y == Bytes(n)[2]
           l2 == loc + 1
           l3 == loc + 1 + 1
           one == Write(buf, loc, Op[op])
           two == Write(one, l2, x)
           three == Write(two, l3, y)
<1>1. StoreJump(buf, op, loc, to) = three
  BY DEF StoreJump, StoreOp1, StoreNumber, Write
<1>2. /\ Len(buf) \in Nat /\ l2 = loc + 1 /\ l3 = loc + 2 /\ loc + 2 <= Len(buf)
      /\ loc \in 1..Len(buf) /\ l2 \in 1..Len(buf) /\ l3 \in 1..Len(buf)
      /\ loc # l2 /\ loc # l3 /\ l2 # l3
  BY BufferLen
<1> HIDE DEF n, x, y, l2, l3
<1>3. /\ IsBuffer(one) /\ Len(one) = Len(buf)
      /\ \A i \in 1..Len(buf) : one[i] = IF i = loc THEN Op[op] ELSE buf[i]
  BY WriteKeeps
<1> HIDE DEF one
<1>4. /\ IsBuffer(two) /\ Len(two) = Len(one)
      /\ \A i \in 1..Len(one) : two[i] = IF i = l2 THEN x ELSE one[i]
  BY <1>3, WriteKeeps
<1> HIDE DEF two
<1>5. /\ IsBuffer(three) /\ Len(three) = Len(two)
      /\ \A i \in 1..Len(two) : three[i] = IF i = l3 THEN y ELSE two[i]
  BY <1>4, WriteKeeps
<1> HIDE DEF three
<1>6. three[loc] = Op[op] /\ three[l2] = x /\ three[l3] = y BY <1>2, <1>3, <1>4, <1>5
<1>7. loc + 2 <= Len(three) BY <1>2, <1>3, <1>4, <1>5
<1>8. HasJump(three, loc, Op[op], n) BY <1>2, <1>6, <1>7 DEF HasJump, x, y
<1> QED BY <1>1, <1>8 DEF n

\* A jump that is pushed.
LEMMA PushedJump ==
  ASSUME NEW buf, IsBuffer(buf), NEW op, NEW n, NEW n2
  PROVE  /\ Moved(buf, buf \o OpCode(op, n), Len(buf) + 1, 3)
         /\ HasJump(buf \o OpCode(op, n), Len(buf) + 1, Op[op], n)
         /\ Moved(buf, buf \o OpCode2(op, n, n2), Len(buf) + 1, 5)
         /\ HasJump(buf \o OpCode2(op, n, n2), Len(buf) + 1, Op[op], n)
<1> DEFINE code == OpCode(op, n)
           code2 == OpCode2(op, n, n2)
           x == Bytes(n)[1]  y == Bytes(n)[2]
<1>1. /\ IsBuffer(code) /\ Len(code) = 3 /\ code[1] = Op[op] /\ code[2] = x /\ code[3] = y
      /\ IsBuffer(code2) /\ Len(code2) = 5 /\ code2[1] = Op[op] /\ code2[2] = x /\ code2[3] = y
  BY OpBytes, Op2Bytes
<1>2. Len(buf) \in Nat BY BufferLen
<1> HIDE DEF code, code2, x, y
<1>3. ASSUME NEW c, IsBuffer(c), NEW k \in {3, 5}, Len(c) = k, c[1] = Op[op], c[2] = x, c[3] = y
      PROVE  Moved(buf, buf \o c, Len(buf) + 1, k) /\ HasJump(buf \o c, Len(buf) + 1, Op[op], n)
  <2> DEFINE g == buf \o c
  <2>1. /\ IsBuffer(g) /\ Len(g) = Len(buf) + Len(c) /\ Agree(buf, g, Len(buf))
        /\ \A i \in 1..Len(c) : g[Len(buf) + i] = c[i]
    BY <1>3, BufferCat
  <2> HIDE DEF g
  <2>2. Len(g) = Len(buf) + k BY <2>1, <1>3
  <2>3. Len(buf) + 1 - 1 = Len(buf) BY <1>2
  <2>4. \A i \in 1..(Len(buf) + 1 - 1) : g[i] = buf[i] BY <2>1, <2>3 DEF Agree
  <2>5. \A i \in (Len(buf) + 1)..Len(buf) : g[i + k] = buf[i] BY <1>2
  <2>6. g[Len(buf) + 1] = Op[op] /\ g[Len(buf) + 2] = x /\ g[Len(buf) + 3] = y
    BY <2>1, <1>3
  <2>7. Len(buf) + 1 + 1 = Len(buf) + 2 /\ Len(buf) + 1 + 2 = Len(buf) + 3 BY <1>2
  <2>8. 1 <= Len(buf) + 1 /\ Len(buf) + 1 + 2 <= Len(g) BY <1>2, <2>2
  <2>9. HasJump(g, Len(buf) + 1, Op[op], n) BY <2>6, <2>7, <2>8 DEF HasJump, x, y
  <2> QED BY <2>1, <2>2, <2>4, <2>5, <2>9 DEF Moved, g
<1>4. Moved(buf, buf \o code, Len(buf) + 1, 3) /\ HasJump(buf \o code, Len(buf) + 1, Op[op], n)
  BY <1>1, <1>3
<1>5. Moved(buf, buf \o code2, Len(buf) + 1, 5) /\ HasJump(buf \o code2, Len(buf) + 1, Op[op], n)
  BY <1>1, <1>3
<1> QED BY <1>4, <1>5 DEF code, code2

-----------------------------------------------------------------------------
(***************************************************************************)
(* New ops in code that is rebuilt.                                        *)
(***************************************************************************)

\* A jump whose distance fits is one that leads there.
LEMMA JumpReads ==
  ASSUME NEW g, IsBuffer(g), NEW q \in Nat, NEW o, NEW n, Fit(n), HasJump(g, q, o, n)
  PROVE  /\ g[q] = o /\ JumpArgs(g, q) /\ Number(g, q + 1) = n /\ Target(g, q) = q + 3 + n
         /\ 0 <= n /\ n < 3584 => g[q + 2] < 14
<1> DEFINE p == q + 1
<1>1. p \in Nat /\ 1 <= p /\ p + 1 = q + 2 OBVIOUS
<1>2. /\ p + 1 <= Len(g) /\ g[p] = Bytes(n)[1] /\ g[p + 1] = Bytes(n)[2] /\ g[q] = o
  BY <1>1 DEF HasJump
<1> HIDE DEF p
<1>3. Number(g, p) = n /\ g[p] \in 0..255 /\ g[p + 1] \in 0..255
  BY <1>1, <1>2, NumberStored
<1>4. JumpArgs(g, q) BY <1>1, <1>3 DEF JumpArgs, p
<1>5. Target(g, q) = q + 3 + n BY <1>3 DEF Target, p
<1>6. 0 <= n /\ n < 3584 => Bytes(n)[2] < 14 BY BytesOfNumber
<1> QED BY <1>1, <1>2, <1>3, <1>4, <1>5, <1>6 DEF p

\* The op at q is new, and so far behind that it does not reach before x.
NewOp(g, S, L, G, x, q) ==
    OpOK(g, S, L, G, q) /\ \A y \in Int : y <= x => Stays(g, q, y)

\* There is room for n bytes at q between the ops.
Free(f, x, k, New, q, n) ==
    /\ x <= q
    /\ (q < x + k /\ q + n <= x + k) \/ Len(f) + 1 + k <= q
    /\ \A i \in New : i <= q \/ q + n <= i

\* The op at t comes after x, and no more than l points are on the stack.
Reached(S, L, x, t, l) == t \in S /\ L[t] <= l /\ x <= t

LEMMA NewOpHolds ==
  ASSUME NEW f, NEW S, NEW L, NEW P, NEW x \in Nat, x <= Len(f) + 1, IsBuffer(f),
         NEW k \in Nat, NEW d, NEW g, NEW S2, NEW L2, NEW New, S \subseteq Int,
         Rebuilt(f, S, L, P, x, k, d, g, S2, L2, New),
         NEW G, NEW q \in Nat, NEW n, n = Size(g, q), Args(g, q, G), q + n \in S2,
         Free(f, x, k, New, q, n),
         \A t, c : Leads(g, q, t, c) => Reached(S2, L2, x, t, L2[q] + c),
         \A r : Refers(g, q, r) =>
             /\ r \in S2 /\ r <= Len(g) /\ g[r] \in CountingOps /\ x <= r
             /\ g[q] = Op.jump_n => g[r] = Op.succeed_n
  PROVE  NewOp(g, S2, L2, G, x, q)
<1>1. x <= q /\ ((q < x + k /\ q + Size(g, q) <= x + k) \/ Len(f) + 1 + k <= q)
      /\ \A i \in New : i <= q \/ q + Size(g, q) <= i
  BY DEF Free
<1>2. \A t, c : Leads(g, q, t, c) => t \in S2 /\ L2[t] <= L2[q] + c BY DEF Reached
<1>3. \A r : Refers(g, q, r) =>
             /\ r \in S2 /\ r <= Len(g) /\ g[r] \in CountingOps
             /\ g[q] = Op.jump_n => g[r] = Op.succeed_n
  OBVIOUS
<1>4. OpOK(g, S2, L2, G, q)
  <2>1. q + Size(g, q) \in S2 OBVIOUS
  <2> QED BY <1>1, <1>2, <1>3, <2>1, NewOpOK
<1>5. ASSUME NEW y \in Int, y <= x PROVE Stays(g, q, y)
  <2>1. ~(q < y) BY <1>1, <1>5
  <2>2. ASSUME NEW t \in Int, NEW d2 \in {-1, 0, 1}, Leads(g, q, t, d2) PROVE y <= t
    <3>1. x <= t BY <2>2 DEF Reached
    <3> QED BY <3>1, <1>5
  <2>3. ASSUME NEW t \in Int, Refers(g, q, t) PROVE y <= t
    <3>1. x <= t BY <2>3
    <3> QED BY <3>1, <1>5
  <2> QED BY <2>1, <2>2, <2>3 DEF Stays
<1> QED BY <1>4, <1>5 DEF NewOp

\* What is inserted at x is code when its ops are.
LEMMA Spliced ==
  ASSUME NEW f, NEW S, NEW L, NEW P, NEW B, NEW G, Code(f, S, L, P, B, G),
         NEW x, Barrier(f, S, L, P, x), \A p \in P : p + 3 <= x,
         NEW k \in Nat, NEW d \in Nat, NEW g, NEW S2, NEW L2, NEW New,
         Raised(f, S, L, P, x, k, d, g, S2, L2, New),
         Len(g) + 1 \in S2, L2[Len(g) + 1] = 0, \A i \in 1..(x - 1) : g[i] = f[i],
         \A q \in New \cup {Len(f) + 1 + k} : q # Len(g) + 1 => NewOp(g, S2, L2, G, x, q)
  PROVE  Code(g, S2, L2, P, {y \in B : y <= x} \cup {Len(g) + 1}, G)
<1> DEFINE B2 == {y \in B : y <= x} \cup {Len(g) + 1}
<1>1. /\ IsBuffer(f) /\ Len(f) \in Nat /\ S \subseteq 1..(Len(f) + 1) /\ G \in Nat
  BY BufferLen DEF Code
<1>2. x \in S /\ x \in Nat /\ x <= Len(f) + 1 BY <1>1 DEF Barrier
<1>3. Rebuilt(f, S, L, P, x, k, d, g, S2, L2, New) /\ S2 \subseteq 1..(Len(g) + 1) BY DEF Raised
<1>4. ASSUME NEW p \in P PROVE PlaceHolds(g, S2, p)
  <2>1. PlaceHolds(f, S, p) /\ p + 3 <= x BY DEF Code
  <2>2. p \in 1..(x - 1) /\ f[p] \in {0, Op.jump_past_alt} BY <2>1, <1>1, <1>2 DEF PlaceHolds
  <2>3. g[p] \in {0, Op.jump_past_alt} BY <2>2
  <2> QED BY <2>1, <2>3, <1>1, <1>2, <1>3, PlaceKept
<1>5. \A y \in B2 : (y <= x /\ Barrier(f, S, L, P, y)) \/ y = Len(g) + 1 BY DEF Code
<1>6. ASSUME NEW q \in New \cup {Len(f) + 1 + k} \cup P, q \in Ops(g, S2, P)
      PROVE  OpOK(g, S2, L2, G, q) /\ \A y \in B2 : y <= x => Stays(g, q, y)
  <2>1. q \in New \cup {Len(f) + 1 + k} /\ q # Len(g) + 1 BY <1>6 DEF Ops
  <2>2. NewOp(g, S2, L2, G, x, q) BY <2>1
  <2>3. \A y \in B2 : y \in Int
    <3>1. \A y \in B : y \in Int
      <4> SUFFICES ASSUME NEW y \in B PROVE y \in Int OBVIOUS
      <4>1. y \in S BY DEF Code, Barrier
      <4> QED BY <4>1, <1>1
    <3>2. Len(g) + 1 \in Int BY <1>3, BufferLen DEF Rebuilt
    <3> QED BY <3>1, <3>2
  <2> QED BY <2>2, <2>3 DEF NewOp
<1>7. \A q \in New \cup {Len(f) + 1 + k} \cup P : q \in Ops(g, S2, P) =>
          OpOK(g, S2, L2, G, q) /\ \A y \in B2 : y <= x => Stays(g, q, y)
  BY <1>6
<1> HIDE DEF B2
<1>8. Completed(f, S, L, P, x, k, g, S2, L2, New, P, B2, G)
  BY <1>3, <1>4, <1>5, <1>7 DEF Completed
<1>9. G <= G BY <1>1
<1>10. Code(g, S2, L2, P, B2, G) BY <1>1, <1>3, <1>8, <1>9, Built
<1> QED BY <1>10 DEF B2

-----------------------------------------------------------------------------
\* The jumps that are new, kind by kind.
Splice(f, S, L, P, x, k, d, g, S2, L2, New) ==
    /\ IsBuffer(f) /\ x \in Nat /\ 1 <= x /\ x <= Len(f) + 1 /\ k \in Nat /\ S \subseteq Int
    /\ Rebuilt(f, S, L, P, x, k, d, g, S2, L2, New)

LEMMA SpliceHolds ==
  ASSUME NEW f, NEW S, NEW L, NEW P, NEW x, NEW k, NEW d, NEW g, NEW S2, NEW L2, NEW New,
         Splice(f, S, L, P, x, k, d, g, S2, L2, New), NEW G,
         NEW q \in Nat, NEW n, n = Size(g, q), Args(g, q, G), q + n \in S2,
         Free(f, x, k, New, q, n),
         \A t, c : Leads(g, q, t, c) => Reached(S2, L2, x, t, L2[q] + c),
         \A r : Refers(g, q, r) =>
             /\ r \in S2 /\ r <= Len(g) /\ g[r] \in CountingOps /\ x <= r
             /\ g[q] = Op.jump_n => g[r] = Op.succeed_n
  PROVE  NewOp(g, S2, L2, G, x, q)
<1>1. /\ IsBuffer(f) /\ x \in Nat /\ x <= Len(f) + 1 /\ k \in Nat /\ S \subseteq Int
      /\ Rebuilt(f, S, L, P, x, k, d, g, S2, L2, New)
  BY DEF Splice
<1> QED BY <1>1, NewOpHolds

LEMMA NewFailureJump ==
  ASSUME NEW f, NEW S, NEW L, NEW P, NEW x, NEW k, NEW d, NEW g, NEW S2, NEW L2, NEW New,
         Splice(f, S, L, P, x, k, d, g, S2, L2, New), NEW G,
         NEW q \in Nat, NEW n, Fit(n), HasJump(g, q, Op.on_failure_jump, n),
         Free(f, x, k, New, q, 3), NEW l \in Nat, L2[q] = l,
         Reached(S2, L2, x, q + 3 + n, l), Reached(S2, L2, x, q + 3, l + 1)
  PROVE  NewOp(g, S2, L2, G, x, q)
<1>0. IsBuffer(g) BY DEF Splice, Rebuilt
<1>1. g[q] = Op.on_failure_jump /\ JumpArgs(g, q) /\ Target(g, q) = q + 3 + n
  BY <1>0, JumpReads
<1>2. /\ Size(g, q) = 3 /\ Args(g, q, G)
      /\ \A t, c : Leads(g, q, t, c) <=> \/ c = 0 /\ t = Target(g, q)
                                         \/ c = 1 /\ t = q + 3
      /\ \A r : ~Refers(g, q, r)
  BY <1>1, FailureJumpOp
<1>3. q + 3 \in S2 BY DEF Reached
<1>4. \A t, c : Leads(g, q, t, c) => Reached(S2, L2, x, t, L2[q] + c) BY <1>1, <1>2
<1> QED BY <1>2, <1>3, <1>4, SpliceHolds

LEMMA NewLoopJump ==
  ASSUME NEW f, NEW S, NEW L, NEW P, NEW x, NEW k, NEW d, NEW g, NEW S2, NEW L2, NEW New,
         Splice(f, S, L, P, x, k, d, g, S2, L2, New), NEW G,
         NEW q \in Nat, NEW n, Fit(n), HasJump(g, q, Op.maybe_pop_jump, n),
         Free(f, x, k, New, q, 3), L2[q] = 1, q + 3 \in S2,
         Reached(S2, L2, x, q + 3 + n, 0)
  PROVE  NewOp(g, S2, L2, G, x, q)
<1>0. IsBuffer(g) BY DEF Splice, Rebuilt
<1>1. g[q] = Op.maybe_pop_jump /\ JumpArgs(g, q) /\ Target(g, q) = q + 3 + n
  BY <1>0, JumpReads
<1>2. /\ Size(g, q) = 3 /\ Args(g, q, G)
      /\ \A t, c : Leads(g, q, t, c) <=> c = -1 /\ t = Target(g, q)
      /\ \A r : ~Refers(g, q, r)
  BY <1>1, LoopOp DEF LoopOps
<1>4. \A t, c : Leads(g, q, t, c) => Reached(S2, L2, x, t, L2[q] + c)
  <2>1. 1 + (-1) = 0 OBVIOUS
  <2> QED BY <1>1, <1>2, <2>1
<1> QED BY <1>2, <1>4, SpliceHolds

LEMMA NewDummyJump ==
  ASSUME NEW f, NEW S, NEW L, NEW P, NEW x, NEW k, NEW d, NEW g, NEW S2, NEW L2, NEW New,
         Splice(f, S, L, P, x, k, d, g, S2, L2, New), NEW G,
         NEW q \in Nat, NEW n, Fit(n), 0 <= n, HasJump(g, q, Op.dummy_failure_jump, n),
         Free(f, x, k, New, q, 3), NEW l \in Nat, L2[q] = l, q + 3 \in S2,
         Reached(S2, L2, x, q + 3 + n, l + 1)
  PROVE  NewOp(g, S2, L2, G, x, q)
<1>0. IsBuffer(g) BY DEF Splice, Rebuilt
<1>1. /\ g[q] = Op.dummy_failure_jump /\ JumpArgs(g, q) /\ Target(g, q) = q + 3 + n
      /\ Number(g, q + 1) = n
  BY <1>0, JumpReads
<1>5. Number(g, q + 1) >= 0 BY <1>1 DEF Fit
<1>2. /\ Size(g, q) = 3 /\ Args(g, q, G)
      /\ \A t, c : Leads(g, q, t, c) <=> c = 1 /\ t = Target(g, q)
      /\ \A r : ~Refers(g, q, r)
  BY <1>1, <1>5, DummyJumpOp
<1>4. \A t, c : Leads(g, q, t, c) => Reached(S2, L2, x, t, L2[q] + c) BY <1>1, <1>2
<1> QED BY <1>2, <1>4, SpliceHolds

LEMMA NewGoto ==
  ASSUME NEW f, NEW S, NEW L, NEW P, NEW x, NEW k, NEW d, NEW g, NEW S2, NEW L2, NEW New,
         Splice(f, S, L, P, x, k, d, g, S2, L2, New), NEW G,
         NEW q \in Nat, NEW n, Fit(n), NEW o \in GotoOps, HasJump(g, q, o, n),
         Free(f, x, k, New, q, 3), NEW l \in Nat, L2[q] = l, q + 3 \in S2,
         Reached(S2, L2, x, q + 3 + n, l)
  PROVE  NewOp(g, S2, L2, G, x, q)
<1>0. IsBuffer(g) BY DEF Splice, Rebuilt
<1>1. g[q] = o /\ JumpArgs(g, q) /\ Target(g, q) = q + 3 + n BY <1>0, JumpReads
<1>2. /\ Size(g, q) = 3 /\ Args(g, q, G)
      /\ \A t, c : Leads(g, q, t, c) <=> c = 0 /\ t = Target(g, q)
      /\ \A r : ~Refers(g, q, r)
  BY <1>1, GotoOp
<1>4. \A t, c : Leads(g, q, t, c) => Reached(S2, L2, x, t, L2[q] + c)
  <2>1. l + 0 = l OBVIOUS
  <2> QED BY <1>1, <1>2, <2>1
<1> QED BY <1>2, <1>4, SpliceHolds

LEMMA NewSucceed ==
  ASSUME NEW f, NEW S, NEW L, NEW P, NEW x, NEW k, NEW d, NEW g, NEW S2, NEW L2, NEW New,
         Splice(f, S, L, P, x, k, d, g, S2, L2, New), NEW G,
         NEW q \in Nat, NEW n, Fit(n), 0 <= n, n < 3584, HasJump(g, q, Op.succeed_n, n),
         Free(f, x, k, New, q, 5), NEW l \in Nat, L2[q] = l,
         Reached(S2, L2, x, q + 5, l), Reached(S2, L2, x, q + 3 + n, l)
  PROVE  NewOp(g, S2, L2, G, x, q)
<1>0. IsBuffer(g) BY DEF Splice, Rebuilt
<1>1. /\ g[q] = Op.succeed_n /\ JumpArgs(g, q) /\ Target(g, q) = q + 3 + n /\ g[q + 2] < 14
  BY <1>0, JumpReads
<1>5. g[q + 2] < Op.on_failure_jump BY <1>1, OpCodes
<1>2. /\ Size(g, q) = 5 /\ Args(g, q, G)
      /\ \A t, c : Leads(g, q, t, c) <=> c = 0 /\ t \in {q + 5, Target(g, q)}
      /\ \A r : ~Refers(g, q, r)
  BY <1>1, <1>5, SucceedOp
<1>3. q + 5 \in S2 BY DEF Reached
<1>4. \A t, c : Leads(g, q, t, c) => Reached(S2, L2, x, t, L2[q] + c)
  <2>1. l + 0 = l OBVIOUS
  <2> QED BY <1>1, <1>2, <2>1
<1> QED BY <1>2, <1>3, <1>4, SpliceHolds

LEMMA NewJumpN ==
  ASSUME NEW f, NEW S, NEW L, NEW P, NEW x, NEW k, NEW d, NEW g, NEW S2, NEW L2, NEW New,
         Splice(f, S, L, P, x, k, d, g, S2, L2, New), NEW G,
         NEW q \in Nat, NEW n, Fit(n), n < -3, HasJump(g, q, Op.jump_n, n),
         Free(f, x, k, New, q, 5), NEW l \in Nat, L2[q] = l,
         Reached(S2, L2, x, q + 5, l), Reached(S2, L2, x, q + 3 + n, l),
         q + 3 + n <= Len(g), g[q + 3 + n] = Op.succeed_n
  PROVE  NewOp(g, S2, L2, G, x, q)
<1>0. IsBuffer(g) BY DEF Splice, Rebuilt
<1>1. /\ g[q] = Op.jump_n /\ JumpArgs(g, q) /\ Target(g, q) = q + 3 + n
  BY <1>0, JumpReads
<1>5. Target(g, q) < q BY <1>1 DEF Fit
<1>2. /\ Size(g, q) = 5 /\ Args(g, q, G)
      /\ \A t, c : Leads(g, q, t, c) <=> c = 0 /\ t \in {q + 5, Target(g, q)}
      /\ \A r : Refers(g, q, r) <=> r = Target(g, q)
  BY <1>1, <1>5, JumpNOp
<1>3. q + 5 \in S2 /\ q + 3 + n \in S2 /\ x <= q + 3 + n BY DEF Reached
<1>4. \A t, c : Leads(g, q, t, c) => Reached(S2, L2, x, t, L2[q] + c)
  <2>1. l + 0 = l OBVIOUS
  <2> QED BY <1>1, <1>2, <2>1
<1>6. \A r : Refers(g, q, r) =>
             /\ r \in S2 /\ r <= Len(g) /\ g[r] \in CountingOps /\ x <= r
             /\ g[q] = Op.jump_n => g[r] = Op.succeed_n
  BY <1>1, <1>2, <1>3 DEF CountingOps
<1> QED BY <1>2, <1>3, <1>4, <1>6, SpliceHolds

LEMMA NewSetNumber ==
  ASSUME NEW f, NEW S, NEW L, NEW P, NEW x, NEW k, NEW d, NEW g, NEW S2, NEW L2, NEW New,
         Splice(f, S, L, P, x, k, d, g, S2, L2, New), NEW G,
         NEW q \in Nat, NEW n, Fit(n), 0 <= n, HasJump(g, q, Op.set_number_at, n),
         Free(f, x, k, New, q, 5), NEW l \in Nat, L2[q] = l,
         Reached(S2, L2, x, q + 5, l),
         q + n \in S2, q + n <= Len(g), g[q + n] \in CountingOps
  PROVE  NewOp(g, S2, L2, G, x, q)
<1>0. IsBuffer(g) /\ x \in Nat BY DEF Splice, Rebuilt
<1>1. /\ g[q] = Op.set_number_at /\ JumpArgs(g, q) /\ Number(g, q + 1) = n
  BY <1>0, JumpReads
<1>2. /\ Size(g, q) = 5 /\ Args(g, q, G) /\ g[q] # Op.jump_n
      /\ \A t, c : Leads(g, q, t, c) <=> c = 0 /\ t = q + 5
      /\ \A r : Refers(g, q, r) <=> r = q + Number(g, q + 1)
  BY <1>1, SetNumberOp
<1>3. q + 5 \in S2 BY DEF Reached
<1>4. \A t, c : Leads(g, q, t, c) => Reached(S2, L2, x, t, L2[q] + c)
  <2>1. l + 0 = l OBVIOUS
  <2> QED BY <1>1, <1>2, <2>1
<1>5. x <= q + n BY <1>0 DEF Free, Fit
<1>6. \A r : Refers(g, q, r) =>
             /\ r \in S2 /\ r <= Len(g) /\ g[r] \in CountingOps /\ x <= r
             /\ g[q] = Op.jump_n => g[r] = Op.succeed_n
  BY <1>1, <1>2, <1>5
<1> QED BY <1>2, <1>3, <1>4, <1>6, SpliceHolds

-----------------------------------------------------------------------------
(***************************************************************************)
(* Repetitions.                                                            *)
(***************************************************************************)

\* The bytes of f are in g, those from x on k bytes further.
Kept(f, g, x, k) ==
    /\ IsBuffer(g) /\ Len(f) + k <= Len(g)
    /\ \A i \in 1..(x - 1) : g[i] = f[i]
    /\ \A i \in x..Len(f) : g[i + k] = f[i]

LEMMA KeptInserted ==
  ASSUME NEW f, NEW h, NEW g, NEW x \in Nat, 1 <= x, NEW j \in Nat, NEW k \in Nat,
         IsBuffer(f), IsBuffer(h), Kept(f, h, x, j), Moved(h, g, x, k), x <= Len(f) + 1,
         NEW l, l = j + k
  PROVE  Kept(f, g, x, l)
<1>1. Len(f) \in Nat /\ Len(h) \in Nat BY BufferLen
<1>2. IsBuffer(g) /\ Len(f) + (j + k) <= Len(g) BY <1>1 DEF Kept, Moved
<1>3. \A i \in 1..(x - 1) : g[i] = f[i] BY DEF Kept, Moved
<1>4. ASSUME NEW i \in x..Len(f) PROVE g[i + (j + k)] = f[i]
  <2>1. h[i + j] = f[i] BY DEF Kept
  <2>2. Len(f) + j <= Len(h) BY DEF Kept
  <2>3. i + j \in x..Len(h) BY <2>2, <1>1
  <2>4. g[(i + j) + k] = h[i + j] BY <2>3 DEF Moved
  <2>5. (i + j) + k = i + (j + k) OBVIOUS
  <2> QED BY <2>1, <2>4, <2>5
<1> QED BY <1>2, <1>3, <1>4 DEF Kept

LEMMA KeptBefore ==
  ASSUME NEW f, NEW g, IsBuffer(f), NEW k \in Nat, Moved(f, g, Len(f) + 1, k),
         NEW x \in Nat, 1 <= x, x <= Len(f) + 1
  PROVE  Kept(f, g, x, 0)
<1>1. Len(f) \in Nat BY BufferLen
<1>2. \A i \in 1..Len(f) : g[i] = f[i]
  <2>1. Len(f) + 1 - 1 = Len(f) BY <1>1
  <2> QED BY <2>1 DEF Moved
<1>3. \A i \in 1..(x - 1) : g[i] = f[i] BY <1>1, <1>2
<1>4. \A i \in x..Len(f) : g[i + 0] = f[i]
  <2> SUFFICES ASSUME NEW i \in x..Len(f) PROVE g[i + 0] = f[i] OBVIOUS
  <2>1. i \in 1..Len(f) /\ i + 0 = i BY <1>1
  <2> QED BY <2>1, <1>2
<1> QED BY <1>1, <1>3, <1>4 DEF Kept, Moved

LEMMA JumpMoved ==
  ASSUME NEW h, NEW g, IsBuffer(h), NEW x \in Nat, NEW k \in Nat, Moved(h, g, x, k),
         NEW q \in Nat, x <= q, NEW o, NEW n, HasJump(h, q, o, n), NEW r, r = q + k
  PROVE  HasJump(g, r, o, n)
<1>1. Len(h) \in Nat BY BufferLen
<1>2. 1 <= q /\ q + 2 <= Len(h) BY DEF HasJump
<1>3. \A i \in x..Len(h) : g[i + k] = h[i] BY DEF Moved
<1>4. g[q + k] = h[q] BY <1>1, <1>2, <1>3
<1>5. g[q + k + 1] = h[q + 1]
  <2>1. q + 1 \in x..Len(h) /\ (q + 1) + k = q + k + 1 BY <1>1, <1>2
  <2> QED BY <2>1, <1>3
<1>6. g[q + k + 2] = h[q + 2]
  <2>1. q + 2 \in x..Len(h) /\ (q + 2) + k = q + k + 2 BY <1>1, <1>2
  <2> QED BY <2>1, <1>3
<1>7. 1 <= q + k /\ q + k + 2 <= Len(g) BY <1>1, <1>2 DEF Moved
<1> QED BY <1>4, <1>5, <1>6, <1>7 DEF HasJump

LEMMA JumpMoved3 ==
  ASSUME NEW h, NEW g, IsBuffer(h), NEW x \in Nat, Moved(h, g, x, 3),
         NEW q \in Nat, x <= q, NEW o, NEW n, HasJump(h, q, o, n), NEW r, r = q + 3
  PROVE  HasJump(g, r, o, n)
<1>1. PICK k \in Nat : k = 3 OBVIOUS
<1>2. Moved(h, g, x, k) /\ r = q + k BY <1>1
<1> QED BY <1>2, JumpMoved

LEMMA JumpMoved5 ==
  ASSUME NEW h, NEW g, IsBuffer(h), NEW x \in Nat, Moved(h, g, x, 5),
         NEW q \in Nat, x <= q, NEW o, NEW n, HasJump(h, q, o, n), NEW r, r = q + 5
  PROVE  HasJump(g, r, o, n)
<1>1. PICK k \in Nat : k = 5 OBVIOUS
<1>2. Moved(h, g, x, k) /\ r = q + k BY <1>1
<1> QED BY <1>2, JumpMoved

\* Code into which something may be inserted at x.
Opens(f, S, L, P, B, G, x) ==
    /\ Code(f, S, L, P, B, G) /\ Barrier(f, S, L, P, x) /\ \A p \in P : p + 3 <= x
    /\ \A y \in B : y <= x

LEMMA OpensAt ==
  ASSUME NEW f, NEW S, NEW L, NEW P, NEW B, NEW G, NEW x, Opens(f, S, L, P, B, G, x)
  PROVE  /\ IsBuffer(f) /\ Len(f) \in Nat /\ x \in Nat /\ 1 <= x /\ x <= Len(f) + 1
         /\ S \subseteq Int
<1>1. IsBuffer(f) /\ Len(f) \in Nat /\ S \subseteq 1..(Len(f) + 1) /\ x \in S
  BY BufferLen DEF Opens, Code, Barrier
<1> QED BY <1>1

LEMMA SpliceMade ==
  ASSUME NEW f, NEW S, NEW L, NEW P, NEW B, NEW G, NEW x, Opens(f, S, L, P, B, G, x),
         NEW k \in Nat, NEW d \in Nat, k # 0, NEW g, Kept(f, g, x, k),
         NEW New, New \subseteq 1..(Len(g) + 1), x \in New,
         \A i \in New : (x <= i /\ i < x + k) \/ Len(f) + 1 + k < i
  PROVE  \E S2, L2 : /\ Raised(f, S, L, P, x, k, d, g, S2, L2, New)
                     /\ Splice(f, S, L, P, x, k, d, g, S2, L2, New)
<1>1. Carries(f, P, x, k, g) BY DEF Kept, Carries
<1>2. Code(f, S, L, P, B, G) /\ Barrier(f, S, L, P, x) BY DEF Opens
<1>3. PICK S2, L2 : Raised(f, S, L, P, x, k, d, g, S2, L2, New)
  BY <1>1, <1>2, Assembled
<1>4. Rebuilt(f, S, L, P, x, k, d, g, S2, L2, New) BY <1>3 DEF Raised
<1>5. Splice(f, S, L, P, x, k, d, g, S2, L2, New) BY <1>4, OpensAt DEF Splice
<1> QED BY <1>3, <1>5

LEMMA SpliceDone ==
  ASSUME NEW f, NEW S, NEW L, NEW P, NEW B, NEW G, NEW x, Opens(f, S, L, P, B, G, x),
         NEW k \in Nat, NEW d \in Nat, NEW g, Kept(f, g, x, k), NEW S2, NEW L2, NEW New,
         Raised(f, S, L, P, x, k, d, g, S2, L2, New),
         Len(g) + 1 \in S2, L2[Len(g) + 1] = 0,
         \A q \in New \cup {Len(f) + 1 + k} : q # Len(g) + 1 => NewOp(g, S2, L2, G, x, q)
  PROVE  Code(g, S2, L2, P, B \cup {Len(g) + 1}, G)
<1>1. Code(f, S, L, P, B, G) /\ Barrier(f, S, L, P, x) /\ \A p \in P : p + 3 <= x
  BY DEF Opens
<1>2. \A i \in 1..(x - 1) : g[i] = f[i] BY DEF Kept
<1>3. {y \in B : y <= x} \cup {Len(g) + 1} = B \cup {Len(g) + 1} BY DEF Opens
<1>4. Code(g, S2, L2, P, {y \in B : y <= x} \cup {Len(g) + 1}, G)
  BY <1>1, <1>2, Spliced
<1> QED BY <1>3, <1>4

\* No distance in the code has the byte of an on_failure_jump as its high one.
Short(g) == Len(g) < 3584

\* The code of a ?: what may be left out.
LEMMA OptionalCode ==
  ASSUME NEW f, NEW S, NEW L, NEW P, NEW B, NEW G, NEW x, Opens(f, S, L, P, B, G, x),
         NEW g, g = InsertJump(f, "on_failure_jump", x, Len(f) + 1 + 3), Short(g)
  PROVE  \E S2, L2 : Code(g, S2, L2, P, B \cup {Len(g) + 1}, G)
<1>1. /\ IsBuffer(f) /\ Len(f) \in Nat /\ x \in Nat /\ 1 <= x /\ x <= Len(f) + 1
      /\ S \subseteq Int
  BY OpensAt
<1> DEFINE N == Len(f) + 1
           n == N + 3 - x - 3
           New == {x}
<1>2. Moved(f, g, x, 3) /\ HasJump(g, x, Op.on_failure_jump, n)
  <2>1. x \in Nat /\ 1 <= x /\ x <= Len(f) + 1 BY <1>1
  <2> QED BY <2>1, <1>1, InsertJumpMoves
<1>3. /\ Len(g) + 1 = N + 3 /\ IsBuffer(g) /\ Kept(f, g, x, 3) BY <1>1, <1>2 DEF Moved, Kept
<1>4. Fit(n) /\ x + 3 + n = N + 3 BY <1>1, <1>3 DEF Fit, Short
<1>5. /\ New \subseteq 1..(Len(g) + 1) /\ x \in New
      /\ \A i \in New : (x <= i /\ i < x + 3) \/ Len(f) + 1 + 3 < i
  BY <1>1, <1>3
<1>6. PICK S2, L2 : /\ Raised(f, S, L, P, x, 3, 0, g, S2, L2, New)
                    /\ Splice(f, S, L, P, x, 3, 0, g, S2, L2, New)
  <2>1. 3 \in Nat /\ 0 \in Nat /\ 3 # 0 OBVIOUS
  <2> HIDE DEF New, N, n
  <2> QED BY <2>1, <1>3, <1>5, SpliceMade
<1>7. /\ x \in S2 /\ L2[x] = 0 /\ x + 3 \in S2 /\ L2[x + 3] = 0 /\ N + 3 \in S2 /\ L2[N + 3] = 0
  BY <1>6 DEF Raised
<1>8. NewOp(g, S2, L2, G, x, x)
  <2>1. Free(f, x, 3, New, x, 3) BY <1>1 DEF Free
  <2>2. Reached(S2, L2, x, x + 3 + n, 0) /\ Reached(S2, L2, x, x + 3, 0 + 1)
    BY <1>1, <1>4, <1>7 DEF Reached
  <2> HIDE DEF n, New
  <2> QED BY <2>1, <2>2, <1>1, <1>2, <1>4, <1>6, <1>7, NewFailureJump
<1>9. \A q \in New \cup {Len(f) + 1 + 3} : q # Len(g) + 1 => NewOp(g, S2, L2, G, x, q)
  BY <1>3, <1>8
<1>10. Len(g) + 1 \in S2 /\ L2[Len(g) + 1] = 0 BY <1>3, <1>7
<1>11. Code(g, S2, L2, P, B \cup {Len(g) + 1}, G)
  BY <1>3, <1>6, <1>9, <1>10, SpliceDone
<1> QED BY <1>11

\* The jump back and the failure point before what is repeated, and the jump
\* over that.
Loops(f, h, g, x) ==
    /\ Moved(f, h, Len(f) + 1, 3)
    /\ HasJump(h, Len(f) + 1, Op.maybe_pop_jump, x - 3 - (Len(f) + 1) - 3)
    /\ Moved(h, g, x, 3)
    /\ HasJump(g, x, Op.on_failure_jump, Len(f) + 7 - x - 3)
Enters(f, g, x) == Moved(f, g, x, 3) /\ HasJump(g, x, Op.dummy_failure_jump, 3)

\* The code of a * after what it repeats.
LEMMA LoopCode ==
  ASSUME NEW f, NEW S, NEW L, NEW P, NEW B, NEW G, NEW x, Opens(f, S, L, P, B, G, x),
         NEW h, NEW g, Loops(f, h, g, x), Short(g)
  PROVE  \E S2, L2 : Code(g, S2, L2, P, B \cup {Len(g) + 1}, G)
<1>1. /\ IsBuffer(f) /\ Len(f) \in Nat /\ x \in Nat /\ 1 <= x /\ x <= Len(f) + 1
      /\ S \subseteq Int
  BY OpensAt
<1> DEFINE N == Len(f) + 1
           n == Len(f) + 7 - x - 3
           j == x - 3 - N - 3
           New == {x, N + 6}
<1>2. Moved(f, h, N, 3) /\ HasJump(h, N, Op.maybe_pop_jump, j) BY DEF Loops
<1>3. IsBuffer(h) /\ Len(h) = Len(f) + 3 BY <1>2 DEF Moved
<1>4. Moved(h, g, x, 3) /\ HasJump(g, x, Op.on_failure_jump, n) BY DEF Loops
<1>5. Len(g) + 1 = N + 6 /\ IsBuffer(g) BY <1>1, <1>3, <1>4 DEF Moved
<1>6. HasJump(g, N + 3, Op.maybe_pop_jump, j)
  <2>1. N \in Nat /\ x <= N /\ N + 3 = N + 3 BY <1>1
  <2> HIDE DEF N, j
  <2> QED BY <2>1, <1>1, <1>2, <1>3, <1>4, JumpMoved3
<1>7. Kept(f, g, x, 3)
  <2>1. Kept(f, h, x, 0) BY <1>1, <1>2, KeptBefore
  <2>2. 3 = 0 + 3 OBVIOUS
  <2> HIDE DEF N, j, n
  <2> QED BY <2>1, <2>2, <1>1, <1>3, <1>4, KeptInserted
<1>8. Fit(n) /\ x + 3 + n = N + 6 BY <1>1, <1>5 DEF Fit, Short
<1>9. Fit(j) /\ N + 3 + 3 + j = x BY <1>1, <1>5 DEF Fit, Short
<1>10. /\ New \subseteq 1..(Len(g) + 1) /\ x \in New
       /\ \A i \in New : (x <= i /\ i < x + 3) \/ Len(f) + 1 + 3 < i
  BY <1>1, <1>5
<1>11. PICK S2, L2 : /\ Raised(f, S, L, P, x, 3, 1, g, S2, L2, New)
                     /\ Splice(f, S, L, P, x, 3, 1, g, S2, L2, New)
  <2>1. 3 \in Nat /\ 1 \in Nat /\ 3 # 0 OBVIOUS
  <2> HIDE DEF New, N, n, j
  <2> QED BY <2>1, <1>7, <1>10, SpliceMade
<1>12. /\ x \in S2 /\ L2[x] = 0 /\ x + 3 \in S2 /\ L2[x + 3] = 1 /\ N + 3 \in S2 /\ L2[N + 3] = 1
       /\ N + 6 \in S2 /\ L2[N + 6] = 0
  BY <1>11 DEF Raised
<1>13. NewOp(g, S2, L2, G, x, x)
  <2>1. Free(f, x, 3, New, x, 3) BY <1>1 DEF Free
  <2>2. Reached(S2, L2, x, x + 3 + n, 0) /\ Reached(S2, L2, x, x + 3, 0 + 1)
    BY <1>1, <1>8, <1>12 DEF Reached
  <2> HIDE DEF n, New
  <2> QED BY <2>1, <2>2, <1>1, <1>4, <1>8, <1>11, <1>12, NewFailureJump
<1>14. NewOp(g, S2, L2, G, x, N + 3)
  <2>1. Free(f, x, 3, New, N + 3, 3) BY <1>1 DEF Free
  <2>2. Reached(S2, L2, x, N + 3 + 3 + j, 0) BY <1>1, <1>9, <1>12 DEF Reached
  <2>3. N + 3 \in Nat /\ N + 3 + 3 = N + 6 BY <1>1
  <2>4. N + 3 + 3 \in S2 BY <2>3, <1>12
  <2> HIDE DEF N, j, New
  <2> QED BY <2>1, <2>2, <2>3, <2>4, <1>6, <1>9, <1>11, <1>12, NewLoopJump
<1>15. \A q \in New \cup {Len(f) + 1 + 3} : q # Len(g) + 1 => NewOp(g, S2, L2, G, x, q)
  BY <1>5, <1>13, <1>14
<1>16. Len(g) + 1 \in S2 /\ L2[Len(g) + 1] = 0 BY <1>5, <1>12
<1>17. Code(g, S2, L2, P, B \cup {Len(g) + 1}, G)
  BY <1>7, <1>11, <1>15, <1>16, SpliceDone
<1> QED BY <1>17

\* The code of a +, which is entered behind the failure point.
LEMMA OnceLoopCode ==
  ASSUME NEW f, NEW S, NEW L, NEW P, NEW B, NEW G, NEW x, Opens(f, S, L, P, B, G, x),
         NEW h, NEW e, Loops(f, h, e, x), NEW g, Enters(e, g, x), Short(g)
  PROVE  \E S2, L2 : Code(g, S2, L2, P, B \cup {Len(g) + 1}, G)
<1>1. /\ IsBuffer(f) /\ Len(f) \in Nat /\ x \in Nat /\ 1 <= x /\ x <= Len(f) + 1
      /\ S \subseteq Int
  BY OpensAt
<1> DEFINE N == Len(f) + 1
           n == Len(f) + 7 - x - 3
           j == x - 3 - N - 3
           New == {x, x + 3, N + 9}
<1>2. Moved(f, h, N, 3) /\ HasJump(h, N, Op.maybe_pop_jump, j) BY DEF Loops
<1>3. IsBuffer(h) /\ Len(h) = Len(f) + 3 BY <1>2 DEF Moved
<1>4. Moved(h, e, x, 3) /\ HasJump(e, x, Op.on_failure_jump, n) BY DEF Loops
<1>5. Len(e) + 1 = N + 6 /\ IsBuffer(e) BY <1>1, <1>3, <1>4 DEF Moved
<1>6. Moved(e, g, x, 3) /\ HasJump(g, x, Op.dummy_failure_jump, 3) BY DEF Enters
<1>7. Len(g) + 1 = N + 9 /\ IsBuffer(g) BY <1>1, <1>5, <1>6 DEF Moved
<1>8. HasJump(g, x + 3, Op.on_failure_jump, n)
  <2>1. x \in Nat /\ x <= x BY <1>1
  <2>2. IsBuffer(e) /\ Moved(e, g, x, 3) BY <1>5, <1>6
  <2>4. PICK r, o : r = x + 3 /\ o = Op.on_failure_jump OBVIOUS
  <2>3. HasJump(e, x, o, n) BY <1>4, <2>4
  <2> HIDE DEF n
  <2>6. r = x + 3 BY <2>4
  <2>5. HasJump(g, r, o, n) BY <2>1, <2>2, <2>3, <2>6, JumpMoved3
  <2> QED BY <2>4, <2>5
<1>9. HasJump(g, N + 6, Op.maybe_pop_jump, j)
  <2>1. PICK r, l, o : r = N + 3 /\ l = N + 6 /\ o = Op.maybe_pop_jump OBVIOUS
  <2>2. N \in Nat /\ x <= N /\ r \in Nat /\ x <= r /\ l = r + 3 /\ x \in Nat BY <2>1, <1>1
  <2>3. IsBuffer(h) /\ Moved(h, e, x, 3) /\ IsBuffer(e) /\ Moved(e, g, x, 3)
    BY <1>3, <1>4, <1>5, <1>6
  <2>4. HasJump(h, N, o, j) BY <1>2, <2>1
  <2>7. r = N + 3 BY <2>1
  <2> HIDE DEF N, j
  <2>5. HasJump(e, r, o, j) BY <2>2, <2>3, <2>4, <2>7, JumpMoved3
  <2>6. HasJump(g, l, o, j) BY <2>2, <2>3, <2>5, JumpMoved3
  <2> QED BY <2>1, <2>6
<1>10. Kept(f, g, x, 6)
  <2>1. Kept(f, h, x, 0) BY <1>1, <1>2, KeptBefore
  <2>2. 3 = 0 + 3 /\ 6 = 3 + 3 OBVIOUS
  <2> HIDE DEF N, j, n
  <2>3. Kept(f, e, x, 3) BY <2>1, <2>2, <1>1, <1>3, <1>4, KeptInserted
  <2> QED BY <2>2, <2>3, <1>1, <1>5, <1>6, KeptInserted
<1>11. Fit(n) /\ x + 3 + 3 + n = N + 9 /\ Fit(3) BY <1>1, <1>7 DEF Fit, Short
<1>12. Fit(j) /\ N + 6 + 3 + j = x + 3 BY <1>1, <1>7 DEF Fit, Short
<1>13. /\ New \subseteq 1..(Len(g) + 1) /\ x \in New
       /\ \A i \in New : (x <= i /\ i < x + 6) \/ Len(f) + 1 + 6 < i
  BY <1>1, <1>7
<1>14. PICK S2, L2 : /\ Raised(f, S, L, P, x, 6, 1, g, S2, L2, New)
                     /\ Splice(f, S, L, P, x, 6, 1, g, S2, L2, New)
  <2>1. 6 \in Nat /\ 1 \in Nat /\ 6 # 0 OBVIOUS
  <2> HIDE DEF New, N, n, j
  <2> QED BY <2>1, <1>10, <1>13, SpliceMade
<1>15. /\ x \in S2 /\ L2[x] = 0 /\ x + 3 \in S2 /\ L2[x + 3] = 0 /\ x + 6 \in S2 /\ L2[x + 6] = 1
       /\ N + 6 \in S2 /\ L2[N + 6] = 1 /\ N + 9 \in S2 /\ L2[N + 9] = 0
  BY <1>14 DEF Raised
<1>16. NewOp(g, S2, L2, G, x, x)
  <2>1. Free(f, x, 6, New, x, 3) BY <1>1 DEF Free
  <2>2. Reached(S2, L2, x, x + 3 + 3, 0 + 1) BY <1>1, <1>15 DEF Reached
  <2> HIDE DEF n, New
  <2> QED BY <2>1, <2>2, <1>1, <1>6, <1>11, <1>14, <1>15, NewDummyJump
<1>17. NewOp(g, S2, L2, G, x, x + 3)
  <2>1. Free(f, x, 6, New, x + 3, 3) BY <1>1 DEF Free
  <2>2. Reached(S2, L2, x, x + 3 + 3 + n, 0) /\ Reached(S2, L2, x, x + 3 + 3, 0 + 1)
    BY <1>1, <1>11, <1>15 DEF Reached
  <2>3. x + 3 \in Nat BY <1>1
  <2> HIDE DEF n, New
  <2> QED BY <2>1, <2>2, <2>3, <1>8, <1>11, <1>14, <1>15, NewFailureJump
<1>18. NewOp(g, S2, L2, G, x, N + 6)
  <2>1. Free(f, x, 6, New, N + 6, 3) BY <1>1 DEF Free
  <2>2. Reached(S2, L2, x, N + 6 + 3 + j, 0) BY <1>1, <1>12, <1>15 DEF Reached
  <2>3. N + 6 \in Nat /\ N + 6 + 3 = N + 9 BY <1>1
  <2>4. N + 6 + 3 \in S2 BY <2>3, <1>15
  <2> HIDE DEF N, j, New
  <2> QED BY <2>1, <2>2, <2>3, <2>4, <1>9, <1>12, <1>14, <1>15, NewLoopJump
<1>19. \A q \in New \cup {Len(f) + 1 + 6} : q # Len(g) + 1 => NewOp(g, S2, L2, G, x, q)
  BY <1>7, <1>16, <1>17, <1>18
<1>20. Len(g) + 1 \in S2 /\ L2[Len(g) + 1] = 0 BY <1>7, <1>15
<1>21. Code(g, S2, L2, P, B \cup {Len(g) + 1}, G)
  BY <1>10, <1>14, <1>19, <1>20, SpliceDone
<1> QED BY <1>21

-----------------------------------------------------------------------------
(***************************************************************************)
(* Intervals.                                                              *)
(***************************************************************************)

LEMMA KeptPushed ==
  ASSUME NEW f, NEW h, NEW g, NEW x \in Nat, 1 <= x, NEW j \in Nat, NEW k \in Nat,
         IsBuffer(f), IsBuffer(h), Kept(f, h, x, j), Moved(h, g, Len(h) + 1, k),
         x <= Len(f) + 1
  PROVE  Kept(f, g, x, j)
<1>1. Len(f) \in Nat /\ Len(h) \in Nat /\ Len(f) + j <= Len(h) BY BufferLen DEF Kept
<1>2. \A i \in 1..Len(h) : g[i] = h[i]
  <2>1. Len(h) + 1 - 1 = Len(h) BY <1>1
  <2> QED BY <2>1 DEF Moved
<1>3. IsBuffer(g) /\ Len(f) + j <= Len(g) BY <1>1 DEF Moved
<1>4. ASSUME NEW i \in 1..(x - 1) PROVE g[i] = f[i]
  <2>1. h[i] = f[i] BY DEF Kept
  <2>2. i \in 1..Len(h) BY <1>1
  <2> QED BY <2>1, <2>2, <1>2
<1>5. ASSUME NEW i \in x..Len(f) PROVE g[i + j] = f[i]
  <2>1. h[i + j] = f[i] BY DEF Kept
  <2>2. i + j \in 1..Len(h) BY <1>1
  <2> QED BY <2>1, <2>2, <1>2
<1> QED BY <1>3, <1>4, <1>5 DEF Kept

\* The code of an interval that is passed over.
Skips(f, g, x) == Moved(f, g, x, 3) /\ HasJump(g, x, Op.jump, Len(f) + 1 - x)

LEMMA SkipCode ==
  ASSUME NEW f, NEW S, NEW L, NEW P, NEW B, NEW G, NEW x, Opens(f, S, L, P, B, G, x),
         NEW g, Skips(f, g, x), Short(g)
  PROVE  \E S2, L2 : Code(g, S2, L2, P, B \cup {Len(g) + 1}, G)
<1>1. /\ IsBuffer(f) /\ Len(f) \in Nat /\ x \in Nat /\ 1 <= x /\ x <= Len(f) + 1
      /\ S \subseteq Int
  BY OpensAt
<1> DEFINE N == Len(f) + 1
           n == Len(f) + 1 - x
           New == {x}
<1>2. Moved(f, g, x, 3) /\ HasJump(g, x, Op.jump, n) BY DEF Skips
<1>3. /\ Len(g) + 1 = N + 3 /\ IsBuffer(g) /\ Kept(f, g, x, 3) BY <1>1, <1>2 DEF Moved, Kept
<1>4. Fit(n) /\ x + 3 + n = N + 3 BY <1>1, <1>3 DEF Fit, Short
<1>5. /\ New \subseteq 1..(Len(g) + 1) /\ x \in New
      /\ \A i \in New : (x <= i /\ i < x + 3) \/ Len(f) + 1 + 3 < i
  BY <1>1, <1>3
<1>6. PICK S2, L2 : /\ Raised(f, S, L, P, x, 3, 0, g, S2, L2, New)
                    /\ Splice(f, S, L, P, x, 3, 0, g, S2, L2, New)
  <2>1. 3 \in Nat /\ 0 \in Nat /\ 3 # 0 OBVIOUS
  <2> HIDE DEF New, N, n
  <2> QED BY <2>1, <1>3, <1>5, SpliceMade
<1>7. /\ x \in S2 /\ L2[x] = 0 /\ x + 3 \in S2 /\ N + 3 \in S2 /\ L2[N + 3] = 0
  BY <1>6 DEF Raised
<1>8. NewOp(g, S2, L2, G, x, x)
  <2>1. Free(f, x, 3, New, x, 3) BY <1>1 DEF Free
  <2>2. Reached(S2, L2, x, x + 3 + n, 0) BY <1>1, <1>4, <1>7 DEF Reached
  <2>3. PICK o \in GotoOps : o = Op.jump BY DEF GotoOps
  <2>4. HasJump(g, x, o, n) BY <2>3, <1>2
  <2> HIDE DEF n, New
  <2> QED BY <2>1, <2>2, <2>4, <1>1, <1>4, <1>6, <1>7, NewGoto
<1>9. \A q \in New \cup {Len(f) + 1 + 3} : q # Len(g) + 1 => NewOp(g, S2, L2, G, x, q)
  BY <1>3, <1>8
<1>10. Len(g) + 1 \in S2 /\ L2[Len(g) + 1] = 0 BY <1>3, <1>7
<1>11. Code(g, S2, L2, P, B \cup {Len(g) + 1}, G)
  BY <1>3, <1>6, <1>9, <1>10, SpliceDone
<1> QED BY <1>11

\* The code of an interval that is entered once at the most.
Once(f, h, g, x) ==
    /\ Moved(f, h, x, 5) /\ HasJump(h, x, Op.succeed_n, Len(f) + 3 - x)
    /\ Moved(h, g, x, 5) /\ HasJump(g, x, Op.set_number_at, 5)

LEMMA OnceCode ==
  ASSUME NEW f, NEW S, NEW L, NEW P, NEW B, NEW G, NEW x, Opens(f, S, L, P, B, G, x),
         NEW h, NEW g, Once(f, h, g, x), Short(g)
  PROVE  \E S2, L2 : Code(g, S2, L2, P, B \cup {Len(g) + 1}, G)
<1>1. /\ IsBuffer(f) /\ Len(f) \in Nat /\ x \in Nat /\ 1 <= x /\ x <= Len(f) + 1
      /\ S \subseteq Int
  BY OpensAt
<1> DEFINE N == Len(f) + 1
           n == Len(f) + 3 - x
           New == {x, x + 5}
<1>2. Moved(f, h, x, 5) /\ HasJump(h, x, Op.succeed_n, n) BY DEF Once
<1>3. IsBuffer(h) /\ Len(h) = Len(f) + 5 BY <1>2 DEF Moved
<1>4. Moved(h, g, x, 5) /\ HasJump(g, x, Op.set_number_at, 5) BY DEF Once
<1>5. Len(g) + 1 = N + 10 /\ IsBuffer(g) BY <1>1, <1>3, <1>4 DEF Moved
<1>6. HasJump(g, x + 5, Op.succeed_n, n)
  <2> HIDE DEF n
  <2> QED BY <1>1, <1>2, <1>3, <1>4, JumpMoved5
<1>7. Kept(f, g, x, 10)
  <2>1. Kept(f, h, x, 5) BY <1>1, <1>2, <1>3 DEF Kept, Moved
  <2>2. 10 = 5 + 5 OBVIOUS
  <2> HIDE DEF N, n
  <2> QED BY <2>1, <2>2, <1>1, <1>3, <1>4, KeptInserted
<1>8. Fit(n) /\ 0 <= n /\ n < 3584 /\ x + 5 + 3 + n = N + 10 /\ Fit(5)
  BY <1>1, <1>5 DEF Fit, Short
<1>9. /\ New \subseteq 1..(Len(g) + 1) /\ x \in New
      /\ \A i \in New : (x <= i /\ i < x + 10) \/ Len(f) + 1 + 10 < i
  BY <1>1, <1>5
<1>10. PICK S2, L2 : /\ Raised(f, S, L, P, x, 10, 0, g, S2, L2, New)
                     /\ Splice(f, S, L, P, x, 10, 0, g, S2, L2, New)
  <2>1. 10 \in Nat /\ 0 \in Nat /\ 10 # 0 OBVIOUS
  <2> HIDE DEF New, N, n
  <2> QED BY <2>1, <1>7, <1>9, SpliceMade
<1>11. /\ x \in S2 /\ L2[x] = 0 /\ x + 5 \in S2 /\ L2[x + 5] = 0
       /\ x + 10 \in S2 /\ L2[x + 10] = 0 /\ N + 10 \in S2 /\ L2[N + 10] = 0
  BY <1>10 DEF Raised
<1>12. NewOp(g, S2, L2, G, x, x)
  <2>1. Free(f, x, 10, New, x, 5) BY <1>1 DEF Free
  <2>2. Reached(S2, L2, x, x + 5, 0) BY <1>1, <1>11 DEF Reached
  <2>3. x + 5 <= Len(g) BY <1>1, <1>5
  <2>4. g[x + 5] \in CountingOps BY <1>6 DEF HasJump, CountingOps
  <2> HIDE DEF n, New, N
  <2> QED BY <2>1, <2>2, <2>3, <2>4, <1>1, <1>4, <1>8, <1>10, <1>11, NewSetNumber
<1>13. NewOp(g, S2, L2, G, x, x + 5)
  <2>1. Free(f, x, 10, New, x + 5, 5) BY <1>1 DEF Free
  <2>2. Reached(S2, L2, x, x + 5 + 3 + n, 0) BY <1>1, <1>8, <1>11 DEF Reached
  <2>3. Reached(S2, L2, x, x + 5 + 5, 0) BY <1>1, <1>11 DEF Reached
  <2>4. x + 5 \in Nat BY <1>1
  <2>5. Fit(n) /\ 0 <= n /\ n < 3584 BY <1>8
  <2>6. L2[x + 5] = 0 BY <1>11
  <2> HIDE DEF n, New, N
  <2> QED BY <2>1, <2>2, <2>3, <2>4, <2>5, <2>6, <1>6, <1>10, NewSucceed
<1>14. \A q \in New \cup {Len(f) + 1 + 10} : q # Len(g) + 1 => NewOp(g, S2, L2, G, x, q)
  BY <1>5, <1>12, <1>13
<1>15. Len(g) + 1 \in S2 /\ L2[Len(g) + 1] = 0 BY <1>5, <1>11
<1>16. Code(g, S2, L2, P, B \cup {Len(g) + 1}, G)
  BY <1>7, <1>10, <1>14, <1>15, SpliceDone
<1> QED BY <1>16

\* The code of an interval that may be entered again.
Repeats(f, h, e, c, g, x) ==
    /\ Moved(f, h, x, 5) /\ HasJump(h, x, Op.succeed_n, Len(f) + 8 - x)
    /\ Moved(h, e, x, 5) /\ HasJump(e, x, Op.set_number_at, 5)
    /\ Moved(e, c, Len(e) + 1, 5) /\ HasJump(c, Len(e) + 1, Op.jump_n, x - Len(f) - 9)
    /\ Moved(c, g, x, 5) /\ HasJump(g, x, Op.set_number_at, Len(f) + 16 - x)

LEMMA AgainCode ==
  ASSUME NEW f, NEW S, NEW L, NEW P, NEW B, NEW G, NEW x, Opens(f, S, L, P, B, G, x),
         NEW h, NEW e, NEW c, NEW g, Repeats(f, h, e, c, g, x), Short(g)
  PROVE  \E S2, L2 : Code(g, S2, L2, P, B \cup {Len(g) + 1}, G)
<1>1. /\ IsBuffer(f) /\ Len(f) \in Nat /\ x \in Nat /\ 1 <= x /\ x <= Len(f) + 1
      /\ S \subseteq Int
  BY OpensAt
<1> DEFINE N == Len(f) + 1
           n == Len(f) + 8 - x
           j == x - Len(f) - 9
           far == Len(f) + 16 - x
           New == {x, x + 5, x + 10, N + 20}
<1>2. Moved(f, h, x, 5) /\ HasJump(h, x, Op.succeed_n, n) BY DEF Repeats
<1>3. IsBuffer(h) /\ Len(h) = Len(f) + 5 BY <1>2 DEF Moved
<1>4. Moved(h, e, x, 5) /\ HasJump(e, x, Op.set_number_at, 5) BY DEF Repeats
<1>5. IsBuffer(e) /\ Len(e) = Len(f) + 10 /\ Len(e) \in Nat BY <1>1, <1>3, <1>4 DEF Moved
<1>6. Moved(e, c, Len(e) + 1, 5) /\ HasJump(c, Len(e) + 1, Op.jump_n, j) BY DEF Repeats
<1>7. IsBuffer(c) /\ Len(c) = Len(f) + 15 BY <1>1, <1>5, <1>6 DEF Moved
<1>8. Moved(c, g, x, 5) /\ HasJump(g, x, Op.set_number_at, far) BY DEF Repeats
<1>9. Len(g) + 1 = N + 20 /\ IsBuffer(g) BY <1>1, <1>7, <1>8 DEF Moved
<1>10. Kept(f, e, x, 10)
  <2>1. Kept(f, h, x, 5) BY <1>1, <1>2, <1>3 DEF Kept, Moved
  <2>2. 10 = 5 + 5 OBVIOUS
  <2> HIDE DEF N, n, j
  <2> QED BY <2>1, <2>2, <1>1, <1>3, <1>4, KeptInserted
<1>11. Kept(f, g, x, 15)
  <2>1. Kept(f, c, x, 10)
    <3>1. 10 \in Nat /\ 5 \in Nat OBVIOUS
    <3> HIDE DEF N, n, j
    <3> QED BY <3>1, <1>1, <1>5, <1>6, <1>10, KeptPushed
  <2>2. 15 = 10 + 5 OBVIOUS
  <2> HIDE DEF N, n, j
  <2> QED BY <2>1, <2>2, <1>1, <1>7, <1>8, KeptInserted
<1>12. HasJump(g, x + 5, Op.set_number_at, 5) /\ HasJump(g, x + 10, Op.succeed_n, n)
  <2>1. HasJump(e, x + 5, Op.succeed_n, n)
    <3> HIDE DEF n
    <3> QED BY <1>1, <1>2, <1>3, <1>4, JumpMoved5
  <2>2. \A i \in 1..Len(e) : c[i] = e[i]
    <3>1. Len(e) + 1 - 1 = Len(e) BY <1>5
    <3> QED BY <3>1, <1>6 DEF Moved
  <2>3. HasJump(c, x, Op.set_number_at, 5)
    <3>1. 1 <= x /\ x + 2 <= Len(e) /\ x \in 1..Len(e) /\ x + 1 \in 1..Len(e)
          /\ x + 2 \in 1..Len(e) /\ x + 2 <= Len(c)
      BY <1>1, <1>5, <1>7
    <3> QED BY <3>1, <2>2, <1>4 DEF HasJump
  <2>4. HasJump(c, x + 5, Op.succeed_n, n)
    <3>1. PICK r : r = x + 5 OBVIOUS
    <3>2. 1 <= r /\ r + 2 <= Len(c) /\ r \in 1..Len(e) /\ r + 1 \in 1..Len(e)
          /\ r + 2 \in 1..Len(e)
      BY <3>1, <1>1, <1>5, <1>7
    <3>3. HasJump(e, r, Op.succeed_n, n) BY <3>1, <2>1
    <3> HIDE DEF n
    <3>4. HasJump(c, r, Op.succeed_n, n) BY <3>2, <3>3, <2>2 DEF HasJump
    <3> QED BY <3>1, <3>4
  <2>5. HasJump(g, x + 5, Op.set_number_at, 5) BY <2>3, <1>1, <1>7, <1>8, JumpMoved5
  <2>6. HasJump(g, x + 10, Op.succeed_n, n)
    <3>1. PICK r : r = x + 5 OBVIOUS
    <3>2. x \in Nat /\ r \in Nat /\ x <= r /\ x + 10 = r + 5 BY <1>1, <3>1
    <3>3. IsBuffer(c) /\ Moved(c, g, x, 5) BY <1>7, <1>8
    <3> HIDE DEF n
    <3>4. HasJump(c, r, Op.succeed_n, n) BY <3>1, <2>4
    <3> QED BY <3>2, <3>3, <3>4, JumpMoved5
  <2> QED BY <2>5, <2>6
<1>13. HasJump(g, N + 15, Op.jump_n, j)
  <2>1. Len(e) + 1 = N + 10 BY <1>1, <1>5
  <2>2. HasJump(c, N + 10, Op.jump_n, j) BY <2>1, <1>6
  <2>3. N + 10 \in Nat /\ x <= N + 10 /\ N + 15 = (N + 10) + 5 BY <1>1
  <2>4. IsBuffer(c) /\ Moved(c, g, x, 5) BY <1>7, <1>8
  <2> HIDE DEF N, j
  <2> QED BY <2>2, <2>3, <2>4, <1>1, JumpMoved5
<1>14. Fit(n) /\ 0 <= n /\ n < 3584 /\ x + 10 + 3 + n = N + 20 /\ Fit(5)
  BY <1>1, <1>9 DEF Fit, Short
<1>15. Fit(far) /\ 0 <= far /\ x + far = N + 15 BY <1>1, <1>9 DEF Fit, Short
<1>16. Fit(j) /\ j < -3 /\ N + 15 + 3 + j = x + 10 BY <1>1, <1>9 DEF Fit, Short
<1>17. /\ New \subseteq 1..(Len(g) + 1) /\ x \in New
       /\ \A i \in New : (x <= i /\ i < x + 15) \/ Len(f) + 1 + 15 < i
  BY <1>1, <1>9
<1>18. PICK S2, L2 : /\ Raised(f, S, L, P, x, 15, 0, g, S2, L2, New)
                     /\ Splice(f, S, L, P, x, 15, 0, g, S2, L2, New)
  <2>1. 15 \in Nat /\ 0 \in Nat /\ 15 # 0 OBVIOUS
  <2> HIDE DEF New, N, n, j
  <2> QED BY <2>1, <1>11, <1>17, SpliceMade
<1>19. /\ x \in S2 /\ L2[x] = 0 /\ x + 5 \in S2 /\ L2[x + 5] = 0
       /\ x + 10 \in S2 /\ L2[x + 10] = 0 /\ x + 15 \in S2 /\ L2[x + 15] = 0
       /\ N + 15 \in S2 /\ L2[N + 15] = 0 /\ N + 20 \in S2 /\ L2[N + 20] = 0
  BY <1>18 DEF Raised
<1>20. NewOp(g, S2, L2, G, x, x)
  <2>1. Free(f, x, 15, New, x, 5) BY <1>1 DEF Free
  <2>2. Reached(S2, L2, x, x + 5, 0) BY <1>1, <1>19 DEF Reached
  <2>3. x + far <= Len(g) BY <1>1, <1>9, <1>15
  <2>4. g[x + far] \in CountingOps /\ x + far \in S2
    BY <1>13, <1>15, <1>19 DEF HasJump, CountingOps
  <2>5. L2[x] = 0 /\ Fit(far) /\ 0 <= far BY <1>15, <1>19
  <2>6. HasJump(g, x, Op.set_number_at, far) /\ x \in Nat BY <1>1, <1>8
  <2> HIDE DEF n, New, N, far
  <2> QED BY <2>1, <2>2, <2>3, <2>4, <2>5, <2>6, <1>18, NewSetNumber
<1>21. NewOp(g, S2, L2, G, x, x + 5)
  <2>1. Free(f, x, 15, New, x + 5, 5) BY <1>1 DEF Free
  <2>2. Reached(S2, L2, x, x + 5 + 5, 0) BY <1>1, <1>19 DEF Reached
  <2>3. x + 5 + 5 <= Len(g) /\ x + 5 + 5 = x + 10 /\ x + 5 \in Nat BY <1>1, <1>9
  <2>4. g[x + 5 + 5] \in CountingOps /\ x + 5 + 5 \in S2
    BY <2>3, <1>12, <1>19 DEF HasJump, CountingOps
  <2>5. L2[x + 5] = 0 /\ Fit(5) /\ 0 <= 5 BY <1>14, <1>19
  <2>6. HasJump(g, x + 5, Op.set_number_at, 5) BY <1>12
  <2> HIDE DEF n, New, N, far
  <2> QED BY <2>1, <2>2, <2>3, <2>4, <2>5, <2>6, <1>18, NewSetNumber
<1>22. NewOp(g, S2, L2, G, x, x + 10)
  <2>1. Free(f, x, 15, New, x + 10, 5) BY <1>1 DEF Free
  <2>2. Reached(S2, L2, x, x + 10 + 3 + n, 0) BY <1>1, <1>14, <1>19 DEF Reached
  <2>3. Reached(S2, L2, x, x + 10 + 5, 0) BY <1>1, <1>19 DEF Reached
  <2>4. x + 10 \in Nat BY <1>1
  <2>5. Fit(n) /\ 0 <= n /\ n < 3584 BY <1>14
  <2>6. L2[x + 10] = 0 BY <1>19
  <2>7. HasJump(g, x + 10, Op.succeed_n, n) BY <1>12
  <2> HIDE DEF n, New, N
  <2> QED BY <2>1, <2>2, <2>3, <2>4, <2>5, <2>6, <2>7, <1>18, NewSucceed
<1>23. NewOp(g, S2, L2, G, x, N + 15)
  <2>1. Free(f, x, 15, New, N + 15, 5) BY <1>1 DEF Free
  <2>2. Reached(S2, L2, x, N + 15 + 3 + j, 0) BY <1>1, <1>16, <1>19 DEF Reached
  <2>3. Reached(S2, L2, x, N + 15 + 5, 0) BY <1>1, <1>19 DEF Reached
  <2>4. N + 15 \in Nat BY <1>1
  <2>5. Fit(j) /\ j < -3 BY <1>16
  <2>6. L2[N + 15] = 0 BY <1>19
  <2>7. N + 15 + 3 + j <= Len(g) BY <1>1, <1>9, <1>16
  <2>8. g[N + 15 + 3 + j] = Op.succeed_n BY <1>12, <1>16 DEF HasJump
  <2> HIDE DEF n, New, N, j
  <2> QED BY <2>1, <2>2, <2>3, <2>4, <2>5, <2>6, <2>7, <2>8, <1>13, <1>18, NewJumpN
<1>24. \A q \in New \cup {Len(f) + 1 + 15} : q # Len(g) + 1 => NewOp(g, S2, L2, G, x, q)
  BY <1>9, <1>20, <1>21, <1>22, <1>23
<1>25. Len(g) + 1 \in S2 /\ L2[Len(g) + 1] = 0 BY <1>9, <1>19
<1>26. Code(g, S2, L2, P, B \cup {Len(g) + 1}, G)
  BY <1>11, <1>18, <1>24, <1>25, SpliceDone
<1> QED BY <1>26
-----------------------------------------------------------------------------
(***************************************************************************)
(* Code that is written over.                                              *)
(***************************************************************************)

\* The ops E and the places are written anew, the other ops are not touched.
Edits(f, S, P, E, g) ==
    /\ IsBuffer(g) /\ Len(g) = Len(f)
    /\ \A q \in Ops(f, S, P) \ E : \A i \in q..(q + Size(f, q) - 1) : g[i] = f[i]
    /\ \A r \in S : r <= Len(f) /\ f[r] \in CountingOps => g[r] = f[r]

LEMMA Edited ==
  ASSUME NEW f, NEW S, NEW L, NEW P, NEW B, NEW G, Code(f, S, L, P, B, G),
         NEW g, NEW E, Edits(f, S, P, E, g), NEW P2, NEW B2, B2 \subseteq B,
         \A p \in P2 : PlaceHolds(g, S, p),
         \A q \in Ops(g, S, P2) : q \in E \cup P =>
             OpOK(g, S, L, G, q) /\ \A y \in B2 : Stays(g, q, y)
  PROVE  Code(g, S, L, P2, B2, G)
<1> DEFINE N == Len(f) + 1
<1>1. /\ IsBuffer(f) /\ Len(f) \in Nat /\ G \in Nat /\ S \subseteq 1..N /\ 1 \in S /\ L[1] = 0
      /\ L \in [S -> Nat] /\ N \in S /\ L[N] = 0
  BY BufferLen DEF Code
<1>2. IsBuffer(g) /\ Len(g) = Len(f) BY DEF Edits
<1>3. ASSUME NEW q \in Ops(g, S, P2), q \notin E \cup P
      PROVE  /\ OpOK(g, S, L, G, q) /\ q \in Ops(f, S, P)
             /\ \A y \in Int : Stays(f, q, y) => Stays(g, q, y)
  <2> DEFINE n == Size(f, q)
  <2>1. q \in S /\ q \in Nat /\ 1 <= q /\ q # N BY <1>1, <1>2 DEF Ops
  <2>2. q \in Ops(f, S, P) BY <2>1, <1>3 DEF Ops
  <2>3. OpOK(f, S, L, G, q) BY <2>2 DEF Code
  <2>4. /\ Args(f, q, G) /\ q + n \in S /\ \A i \in S : i <= q \/ q + n <= i
        /\ \A t \in Int, d \in {-1, 0, 1} : Leads(f, q, t, d) => t \in S /\ L[t] <= L[q] + d
        /\ \A r \in Int : Refers(f, q, r) =>
              /\ r \in S /\ r <= Len(f) /\ f[r] \in CountingOps
              /\ f[q] = Op.jump_n => f[r] = Op.succeed_n
    BY <2>3 DEF OpOK
  <2>5. n \in Nat /\ 1 <= n BY <2>1, <2>4, <1>1, SizeOf
  <2>7. \A i \in q..(q + n - 1) : g[i + 0] = f[i]
    <3> SUFFICES ASSUME NEW i \in q..(q + n - 1) PROVE g[i + 0] = f[i] OBVIOUS
    <3>1. i + 0 = i BY <2>1, <2>5
    <3>2. g[i] = f[i] BY <2>2, <1>3 DEF Edits
    <3> QED BY <3>1, <3>2
  <2>8. q + n <= Len(f) + 1 /\ q + 0 + n <= Len(g) + 1 BY <2>1, <2>4, <2>5, <1>1, <1>2
  <2>9. /\ Size(g, q + 0) = Size(f, q) /\ Args(g, q + 0, G) /\ g[q + 0] = f[q]
        /\ \A t \in Int :
               /\ \A d \in {-1, 0, 1} : Leads(g, q + 0, t + 0, d) => Leads(f, q, t, d)
               /\ Refers(g, q + 0, t + 0) => Refers(f, q, t)
    <3>1. G <= G BY <1>1
    <3> QED BY <3>1, <2>1, <2>4, <2>7, <2>8, <1>1, <1>2, SameOp
  <2>10. q + 0 = q /\ (\A t \in Int : t + 0 = t) BY <2>1
  <2>11. /\ Size(g, q) = n /\ Args(g, q, G) /\ g[q] = f[q]
         /\ \A t \in Int :
               /\ \A d \in {-1, 0, 1} : Leads(g, q, t, d) => Leads(f, q, t, d)
               /\ Refers(g, q, t) => Refers(f, q, t)
    BY <2>9, <2>10, Zenon
  <2> HIDE DEF n
  <2>13. ASSUME NEW r \in Int, Refers(g, q, r)
         PROVE  /\ r \in S /\ r <= Len(g) /\ g[r] \in CountingOps
                /\ g[q] = Op.jump_n => g[r] = Op.succeed_n
    <3>1. Refers(f, q, r) BY <2>11, <2>13
    <3>3. /\ r \in S /\ r <= Len(f) /\ f[r] \in CountingOps
          /\ f[q] = Op.jump_n => f[r] = Op.succeed_n
      BY <3>1, <2>4
    <3>5. g[r] = f[r] BY <3>3 DEF Edits
    <3> QED BY <3>3, <3>5, <2>11, <1>2
  <2>16. OpOK(g, S, L, G, q) BY <2>4, <2>11, <2>13 DEF OpOK
  <2>17. ASSUME NEW y \in Int, Stays(f, q, y) PROVE Stays(g, q, y)
    BY <2>11, <2>17, Zenon DEF Stays
  <2> QED BY <2>2, <2>16, <2>17
<1>4. ASSUME NEW q \in Ops(g, S, P2)
      PROVE  OpOK(g, S, L, G, q) /\ \A y \in B2 : Stays(g, q, y)
  <2>1. CASE q \in E \cup P BY <2>1
  <2>2. CASE q \notin E \cup P
    <3>1. OpOK(g, S, L, G, q) /\ q \in Ops(f, S, P) BY <2>2, <1>3
    <3>2. ASSUME NEW y \in B2 PROVE Stays(g, q, y)
      <4>1. Barrier(f, S, L, P, y) BY DEF Code
      <4>2. y \in Int /\ Stays(f, q, y) BY <4>1, <3>1, <1>1 DEF Barrier
      <4> QED BY <4>2, <2>2, <1>3
    <3> QED BY <3>1, <3>2
  <2> QED BY <2>1, <2>2
<1>5. ASSUME NEW y \in B2 PROVE Barrier(g, S, L, P2, y)
  <2>1. Barrier(f, S, L, P, y) BY DEF Code
  <2> QED BY <2>1, <1>4 DEF Barrier
<1> QED BY <1>1, <1>2, <1>4, <1>5 DEF Code

\* One op is written anew.
LEMMA Patched ==
  ASSUME NEW f, NEW S, NEW L, NEW P, NEW B, NEW G, Code(f, S, L, P, B, G),
         NEW g, IsBuffer(g), Len(g) = Len(f), NEW r \in Ops(f, S, P),
         \A i \in 1..Len(f) : i < r \/ r + Size(f, r) <= i => g[i] = f[i],
         OpOK(g, S, L, G, r), \A y \in B : Stays(g, r, y),
         f[r] \in CountingOps => g[r] = f[r]
  PROVE  Code(g, S, L, P, B, G)
<1>1. /\ IsBuffer(f) /\ Len(f) \in Nat /\ S \subseteq 1..(Len(f) + 1) /\ G \in Nat
      /\ r \in S /\ r # Len(f) + 1 /\ r \notin P
  BY BufferLen DEF Code, Ops
<1>2. ASSUME NEW q \in Ops(f, S, P)
      PROVE  /\ q \in S /\ q \in Nat /\ 1 <= q /\ q <= Len(f) /\ q \notin P
             /\ Size(f, q) \in Nat /\ 1 <= Size(f, q) /\ q + Size(f, q) \in S
             /\ \A i \in S : i <= q \/ q + Size(f, q) <= i
  <2>1. q \in S /\ q \in Nat /\ 1 <= q /\ q <= Len(f) /\ q \notin P BY <1>1 DEF Ops
  <2>2. OpOK(f, S, L, G, q) BY DEF Code
  <2>3. Args(f, q, G) /\ q + Size(f, q) \in S /\ \A i \in S : i <= q \/ q + Size(f, q) <= i
    BY <2>2 DEF OpOK
  <2> QED BY <2>1, <2>3, SizeOf
<1>3. ASSUME NEW q \in Ops(f, S, P) \ {r}, NEW i \in q..(q + Size(f, q) - 1)
      PROVE  g[i] = f[i]
  <2> DEFINE n == Size(f, q)
             k == Size(f, r)
  <2>1. /\ q \in S /\ q \in Nat /\ 1 <= q /\ n \in Nat /\ 1 <= n /\ q + n \in S
        /\ r <= q \/ q + n <= r
    BY <1>1, <1>2
  <2>2. r \in Nat /\ k \in Nat /\ 1 <= k /\ (q <= r \/ r + k <= q) BY <1>2, <2>1
  <2>3. q # r /\ q + n <= Len(f) + 1 BY <2>1, <1>1
  <2>5. i \in q..(q + n - 1) OBVIOUS
  <2> HIDE DEF n, k
  <2>4. i \in 1..Len(f) /\ (i < r \/ r + k <= i) BY <2>1, <2>2, <2>3, <2>5, <1>1
  <2> QED BY <2>4 DEF k
<1>4. ASSUME NEW q \in S, q <= Len(f), f[q] \in CountingOps PROVE g[q] = f[q]
  <2>1. CASE q = r BY <2>1, <1>4
  <2>2. CASE q # r
    <3>1. r \in Nat /\ Size(f, r) \in Nat /\ 1 <= Size(f, r) /\ (q <= r \/ r + Size(f, r) <= q)
      BY <1>2
    <3>2. q \in 1..Len(f) BY <1>1, <1>4
    <3>3. q < r \/ r + Size(f, r) <= q BY <2>2, <3>1, <3>2
    <3> QED BY <3>2, <3>3
  <2> QED BY <2>1, <2>2
<1>5. Edits(f, S, P, {r}, g) BY <1>3, <1>4 DEF Edits
<1>6. ASSUME NEW p \in P PROVE PlaceHolds(g, S, p)
  <2>1. PlaceHolds(f, S, p) BY DEF Code
  <2>2. p \in S /\ p + 3 \in S /\ p # r BY <2>1, <1>1 DEF PlaceHolds
  <2>3. p \in 1..Len(f) BY <2>2, <1>1
  <2>4. r \in Nat /\ Size(f, r) \in Nat /\ 1 <= Size(f, r) /\ (p <= r \/ r + Size(f, r) <= p)
    BY <1>2, <2>2
  <2>5. p < r \/ r + Size(f, r) <= p BY <2>2, <2>3, <2>4
  <2>6. g[p] = f[p] BY <2>3, <2>5
  <2> QED BY <2>1, <2>6 DEF PlaceHolds
<1>7. \A q \in Ops(g, S, P) : q \in {r} \cup P =>
          OpOK(g, S, L, G, q) /\ \A y \in B : Stays(g, q, y)
  BY DEF Ops
<1> QED BY <1>5, <1>6, <1>7, Edited

\* A place that holds a jump is an op.
LEMMA PlaceIsJump ==
  ASSUME NEW g, IsBuffer(g), NEW S, S \subseteq Nat, NEW L, L \in [S -> Nat], NEW G, NEW p,
         PlaceHolds(g, S, p), NEW n, Fit(n), 0 <= n, HasJump(g, p, Op.jump_past_alt, n),
         p + 3 + n \in S, L[p + 3 + n] = 0
  PROVE  /\ OpOK(g, S, L, G, p)
         /\ \A y \in Nat : y <= p \/ p + 3 + n <= y => Stays(g, p, y)
<1>1. /\ p \in S /\ p \in Nat /\ p + 3 \in S /\ p + 1 \notin S /\ p + 2 \notin S
      /\ n \in Nat /\ L[p] \in Nat
  BY DEF PlaceHolds, Fit
<1>2. g[p] = Op.jump_past_alt /\ JumpArgs(g, p) /\ Target(g, p) = p + 3 + n BY <1>1, JumpReads
<1>3. g[p] \in GotoOps BY <1>2 DEF GotoOps
<1>4. /\ Size(g, p) = 3 /\ Args(g, p, G)
      /\ \A t, d : Leads(g, p, t, d) <=> d = 0 /\ t = p + 3 + n
      /\ \A r : ~Refers(g, p, r)
  BY <1>2, <1>3, GotoOp
<1>5. \A i \in S : i <= p \/ p + 3 <= i
  <2> SUFFICES ASSUME NEW i \in S PROVE i <= p \/ p + 3 <= i OBVIOUS
  <2>1. i \in Nat /\ i # p + 1 /\ i # p + 2 BY <1>1
  <2> QED BY <2>1, <1>1
<1>6. \A t, d : Leads(g, p, t, d) => t \in S /\ L[t] <= L[p] + d
  <2> SUFFICES ASSUME NEW t, NEW d, Leads(g, p, t, d) PROVE t \in S /\ L[t] <= L[p] + d
    OBVIOUS
  <2>1. d = 0 /\ t = p + 3 + n BY <1>4
  <2> QED BY <2>1, <1>1
<1>7. OpOK(g, S, L, G, p) BY <1>1, <1>4, <1>5, <1>6 DEF OpOK
<1>8. ASSUME NEW y \in Nat, y <= p \/ p + 3 + n <= y PROVE Stays(g, p, y)
  <2>1. IF p < y THEN p + 3 + n <= y ELSE y <= p + 3 + n BY <1>1, <1>8
  <2> QED BY <1>4, <2>1 DEF Stays
<1> QED BY <1>7, <1>8
-----------------------------------------------------------------------------
\* A failure point before the alternative that has ended, the jump of the one
\* before it to here, and room for its own.
Alternates(f, h, c, g, x, e) ==
    /\ Moved(f, h, x, 3) /\ HasJump(h, x, Op.on_failure_jump, Len(f) + 4 - x)
    /\ IF e = 0 THEN c = h
       ELSE /\ IsBuffer(c) /\ Len(c) = Len(h)
            /\ \A i \in 1..Len(h) : i < e \/ e + 2 < i => c[i] = h[i]
            /\ HasJump(c, e, Op.jump_past_alt, Len(f) + 1 - e)
    /\ Moved(c, g, Len(c) + 1, 3) /\ g[Len(c) + 1] = 0

LEMMA AlternateBytes ==
  ASSUME NEW f, NEW h, NEW c, NEW g, IsBuffer(f), NEW x \in Nat, 1 <= x, x <= Len(f) + 1,
         NEW e, e = 0 \/ (e \in Nat /\ 1 <= e /\ e + 3 <= x), Alternates(f, h, c, g, x, e)
  PROVE  /\ IsBuffer(g) /\ Len(g) = Len(f) + 6 /\ g[Len(f) + 4] = 0
         /\ \A i \in 1..(x - 1) : e = 0 \/ i < e \/ e + 2 < i => g[i] = f[i]
         /\ \A i \in x..Len(f) : g[i + 3] = f[i]
         /\ HasJump(g, x, Op.on_failure_jump, Len(f) + 4 - x)
         /\ e # 0 => HasJump(g, e, Op.jump_past_alt, Len(f) + 1 - e)
<1>1. Len(f) \in Nat BY BufferLen
<1>2. /\ IsBuffer(h) /\ Len(h) = Len(f) + 3
      /\ \A i \in 1..(x - 1) : h[i] = f[i]
      /\ \A i \in x..Len(f) : h[i + 3] = f[i]
      /\ HasJump(h, x, Op.on_failure_jump, Len(f) + 4 - x)
  BY DEF Alternates, Moved
<1>3. IsBuffer(c) /\ Len(c) = Len(h) BY <1>2 DEF Alternates
<1>4. \A i \in 1..Len(h) : e = 0 \/ i < e \/ e + 2 < i => c[i] = h[i] BY DEF Alternates
<1>5. Moved(c, g, Len(c) + 1, 3) /\ g[Len(c) + 1] = 0 BY DEF Alternates
<1>6. IsBuffer(g) /\ Len(g) = Len(c) + 3 /\ \A i \in 1..Len(c) : g[i] = c[i]
  <2>1. Len(c) + 1 - 1 = Len(c) BY <1>1, <1>2, <1>3
  <2> QED BY <2>1, <1>5 DEF Moved
<1>7. \A i \in 1..Len(h) : e = 0 \/ i < e \/ e + 2 < i => g[i] = h[i] BY <1>3, <1>4, <1>6
<1>8. Len(g) = Len(f) + 6 /\ Len(c) + 1 = Len(f) + 4 BY <1>1, <1>2, <1>3, <1>6
<1>9. ASSUME NEW i \in 1..(x - 1), e = 0 \/ i < e \/ e + 2 < i PROVE g[i] = f[i]
  <2>1. i \in 1..Len(h) BY <1>1, <1>2
  <2> QED BY <2>1, <1>2, <1>7, <1>9
<1>10. ASSUME NEW i \in x..Len(f) PROVE g[i + 3] = f[i]
  <2>1. i + 3 \in 1..Len(h) /\ (e = 0 \/ e + 2 < i + 3) BY <1>1, <1>2
  <2> QED BY <2>1, <1>2, <1>7
<1>11. HasJump(g, x, Op.on_failure_jump, Len(f) + 4 - x)
  <2>1. x \in 1..Len(h) /\ x + 1 \in 1..Len(h) /\ x + 2 \in 1..Len(h) BY <1>1, <1>2
  <2>2. e = 0 \/ (e + 2 < x /\ e + 2 < x + 1 /\ e + 2 < x + 2) OBVIOUS
  <2>3. g[x] = h[x] /\ g[x + 1] = h[x + 1] /\ g[x + 2] = h[x + 2] BY <2>1, <2>2, <1>7
  <2>4. x + 2 <= Len(g) BY <1>1, <1>8
  <2> QED BY <2>3, <2>4, <1>2 DEF HasJump
<1>12. ASSUME e # 0 PROVE HasJump(g, e, Op.jump_past_alt, Len(f) + 1 - e)
  <2>1. HasJump(c, e, Op.jump_past_alt, Len(f) + 1 - e) BY <1>12 DEF Alternates
  <2>2. e \in Nat /\ 1 <= e /\ e + 3 <= x BY <1>12
  <2>3. e \in 1..Len(c) /\ e + 1 \in 1..Len(c) /\ e + 2 \in 1..Len(c)
    BY <2>2, <1>1, <1>2, <1>3
  <2>4. g[e] = c[e] /\ g[e + 1] = c[e + 1] /\ g[e + 2] = c[e + 2] BY <2>3, <1>6
  <2>5. e + 2 <= Len(g) BY <2>2, <1>1, <1>8
  <2> QED BY <2>1, <2>4, <2>5 DEF HasJump
<1> QED BY <1>5, <1>6, <1>8, <1>9, <1>10, <1>11, <1>12

LEMMA AlternativeCode ==
  ASSUME NEW f, NEW S, NEW L, NEW P, NEW B, NEW G, NEW x, Opens(f, S, L, P, B, G, x),
         NEW e, e = 0 \/ (e \in P /\ \A y \in B : y <= e),
         NEW h, NEW c, NEW g, Alternates(f, h, c, g, x, e), Short(g)
  PROVE  \E S2, L2 : Code(g, S2, L2, (P \ {e}) \cup {Len(f) + 4}, B \cup {Len(g) + 1}, G)
<1>1. /\ IsBuffer(f) /\ Len(f) \in Nat /\ x \in Nat /\ 1 <= x /\ x <= Len(f) + 1
      /\ S \subseteq Int
  BY OpensAt
<1>2. /\ Code(f, S, L, P, B, G) /\ Barrier(f, S, L, P, x) /\ \A p \in P : p + 3 <= x
      /\ \A y \in B : y <= x /\ Barrier(f, S, L, P, y)
      /\ S \subseteq 1..(Len(f) + 1) /\ G \in Nat
      /\ \A p \in P : PlaceHolds(f, S, p)
  BY DEF Opens, Code
<1>3. \A p \in P : /\ p \in S /\ p + 3 \in S /\ p + 1 \notin S /\ p + 2 \notin S
                   /\ p \in Nat /\ 1 <= p /\ p + 3 <= x /\ f[p] \in {0, Op.jump_past_alt}
  <2> SUFFICES ASSUME NEW p \in P
               PROVE  /\ p \in S /\ p + 3 \in S /\ p + 1 \notin S /\ p + 2 \notin S
                      /\ p \in Nat /\ 1 <= p /\ p + 3 <= x
                      /\ f[p] \in {0, Op.jump_past_alt}
    OBVIOUS
  <2>1. PlaceHolds(f, S, p) /\ p + 3 <= x BY <1>2
  <2>2. p \in S /\ p + 3 \in S /\ p + 1 \notin S /\ p + 2 \notin S
        /\ f[p] \in {0, Op.jump_past_alt}
    BY <2>1 DEF PlaceHolds
  <2>3. p \in 1..(Len(f) + 1) BY <2>2, <1>2
  <2> QED BY <2>1, <2>2, <2>3, <1>1
<1>30. \A y \in B : y \in Nat
  <2> SUFFICES ASSUME NEW y \in B PROVE y \in Nat OBVIOUS
  <2>1. y \in S BY <1>2 DEF Barrier
  <2> QED BY <2>1, <1>1, <1>2
<1> DEFINE N == Len(f) + 1
           n == Len(f) + 4 - x
           New == {x, N + 6}
           P2 == (P \ {e}) \cup {Len(f) + 4}
           B2 == B \cup {Len(g) + 1}
<1>4. e = 0 \/ (e \in Nat /\ 1 <= e /\ e + 3 <= x) BY <1>3
<1>5. /\ IsBuffer(g) /\ Len(g) = Len(f) + 6 /\ g[Len(f) + 4] = 0
      /\ \A i \in 1..(x - 1) : e = 0 \/ i < e \/ e + 2 < i => g[i] = f[i]
      /\ \A i \in x..Len(f) : g[i + 3] = f[i]
      /\ HasJump(g, x, Op.on_failure_jump, Len(f) + 4 - x)
      /\ e # 0 => HasJump(g, e, Op.jump_past_alt, Len(f) + 1 - e)
  BY <1>1, <1>4, AlternateBytes
<1>6. Carries(f, P, x, 3, g)
  <2>1. ASSUME NEW i \in 1..(x - 1), \A p \in P : i < p \/ p + 2 < i PROVE g[i] = f[i]
    BY <2>1, <1>5
  <2>2. \A i \in 1..(x - 1) : (\A p \in P : i < p \/ p + 2 < i) => g[i] = f[i] BY <2>1
  <2>3. IsBuffer(g) /\ Len(f) + 3 <= Len(g) BY <1>1, <1>5
  <2>4. \A i \in x..Len(f) : g[i + 3] = f[i] BY <1>5
  <2> QED BY <2>2, <2>3, <2>4 DEF Carries
<1>7. Len(g) + 1 = N + 6 /\ N + 3 = Len(f) + 4 /\ Len(f) + 1 + 3 = N + 3 BY <1>1, <1>5
<1>8. /\ New \subseteq 1..(Len(g) + 1) /\ x \in New
      /\ \A i \in New : (x <= i /\ i < x + 3) \/ Len(f) + 1 + 3 < i
  BY <1>1, <1>7
<1>9. PICK S2, L2 : Raised(f, S, L, P, x, 3, 0, g, S2, L2, New)
  <2>1. 3 \in Nat /\ 0 \in Nat /\ 3 # 0 OBVIOUS
  <2> HIDE DEF New, N, n
  <2> QED BY <2>1, <1>2, <1>6, <1>8, Assembled
<1>10. /\ Rebuilt(f, S, L, P, x, 3, 0, g, S2, L2, New) /\ S2 \subseteq 1..(Len(g) + 1)
       /\ x \in S2 /\ L2[x] = 0 /\ x + 3 \in S2 /\ L2[x + 3] = 0
       /\ N + 3 \in S2 /\ L2[N + 3] = 0 /\ N + 6 \in S2 /\ L2[N + 6] = 0
       /\ L2 \in [S2 -> Nat]
  BY <1>9 DEF Raised, Rebuilt
<1>11. Splice(f, S, L, P, x, 3, 0, g, S2, L2, New) BY <1>1, <1>10 DEF Splice
<1>12. Fit(n) /\ x + 3 + n = N + 6 BY <1>1, <1>5 DEF Fit, Short
<1>13. NewOp(g, S2, L2, G, x, x)
  <2>1. Free(f, x, 3, New, x, 3) BY <1>1 DEF Free
  <2>2. Reached(S2, L2, x, x + 3 + n, 0) /\ Reached(S2, L2, x, x + 3, 0 + 1)
    BY <1>1, <1>12, <1>10 DEF Reached
  <2>3. HasJump(g, x, Op.on_failure_jump, n) BY <1>5
  <2> HIDE DEF n, New
  <2> QED BY <2>1, <2>2, <2>3, <1>1, <1>12, <1>11, <1>10, NewFailureJump
<1>14. ASSUME NEW p \in P, p # e PROVE PlaceHolds(g, S2, p)
  <2>1. /\ p \in S /\ p + 3 \in S /\ p + 1 \notin S /\ p + 2 \notin S
        /\ p \in Nat /\ 1 <= p /\ p + 3 <= x /\ f[p] \in {0, Op.jump_past_alt}
    BY <1>3
  <2>2. p \in 1..(x - 1) BY <2>1, <1>1
  <2>3. e = 0 \/ p < e \/ e + 2 < p
    <3> SUFFICES ASSUME e \in P PROVE p < e \/ e + 2 < p OBVIOUS
    <3>1. e \in Nat /\ e + 1 \notin S /\ e + 2 \notin S BY <1>3
    <3>2. p # e + 1 /\ p # e + 2 BY <3>1, <2>1
    <3> QED BY <3>1, <3>2, <2>1, <1>14
  <2>4. g[p] = f[p] BY <2>2, <2>3, <1>5
  <2>5. g[p] \in {0, Op.jump_past_alt} /\ x <= Len(f) + 1 BY <2>4, <2>1, <1>1
  <2>6. 3 \in Nat OBVIOUS
  <2> HIDE DEF N, New
  <2> QED BY <2>1, <2>5, <2>6, <1>1, <1>2, <1>10, PlaceKept
<1>15. PlaceHolds(g, S2, N + 3)
  <2>1. \A i \in S2 : i # N + 4 /\ i # N + 5
    <3> SUFFICES ASSUME NEW i \in S2 PROVE i # N + 4 /\ i # N + 5 OBVIOUS
    <3>1. i \in Nat /\ (i < x \/ i <= N + 3 \/ i = x \/ i = N + 6)
      BY <1>7, <1>10 DEF Rebuilt
    <3> QED BY <3>1, <1>1
  <2>2. (N + 3) + 3 = N + 6 /\ (N + 3) + 1 = N + 4 /\ (N + 3) + 2 = N + 5 BY <1>1
  <2>3. g[N + 3] = 0 BY <1>5, <1>7
  <2> HIDE DEF N
  <2> QED BY <2>1, <2>2, <2>3, <1>10 DEF PlaceHolds
<1>16. \A p \in P2 : PlaceHolds(g, S2, p) BY <1>7, <1>14, <1>15
<1>17. \A y \in B2 : (y <= x /\ Barrier(f, S, L, P, y)) \/ y = Len(g) + 1 BY <1>2
<1>18. ASSUME e # 0
       PROVE  OpOK(g, S2, L2, G, e) /\ \A y \in B2 : y <= x => Stays(g, e, y)
  <2>1. e \in P /\ e \in Nat /\ e + 3 <= x /\ (\A y \in B : y <= e) BY <1>18, <1>3
  <2>2. HasJump(g, e, Op.jump_past_alt, Len(f) + 1 - e) BY <1>5, <1>18, Zenon
  <2>3. PlaceHolds(g, S2, e)
    <3>1. g[e] \in {0, Op.jump_past_alt} BY <2>2 DEF HasJump
    <3>2. 3 \in Nat /\ x <= Len(f) + 1 BY <1>1
    <3> HIDE DEF N, New
    <3> QED BY <3>1, <3>2, <2>1, <1>1, <1>2, <1>10, PlaceKept
  <2>4. PICK j : j = Len(f) + 1 - e OBVIOUS
  <2>5. Fit(j) /\ 0 <= j /\ e + 3 + j = N + 3 BY <2>1, <2>4, <1>1, <1>5 DEF Fit, Short
  <2>6. HasJump(g, e, Op.jump_past_alt, j) BY <2>2, <2>4
  <2>7. e + 3 + j \in S2 /\ L2[e + 3 + j] = 0 /\ S2 \subseteq Nat
    BY <2>5, <1>10 DEF Rebuilt
  <2>8. OpOK(g, S2, L2, G, e) /\ \A y \in Nat : y <= e \/ e + 3 + j <= y => Stays(g, e, y)
    BY <2>3, <2>5, <2>6, <2>7, <1>5, <1>10, PlaceIsJump
  <2>9. ASSUME NEW y \in B2, y <= x PROVE Stays(g, e, y)
    <3>1. CASE y \in B
      <4>1. y \in Nat BY <3>1, <1>30
      <4> QED BY <4>1, <3>1, <2>1, <2>8
    <3>2. CASE y = Len(g) + 1 BY <3>2, <2>9, <1>1, <1>7
    <3> QED BY <3>1, <3>2
  <2> QED BY <2>8, <2>9
<1>19. ASSUME NEW q \in New \cup {Len(f) + 1 + 3} \cup P, q \in Ops(g, S2, P2)
       PROVE  OpOK(g, S2, L2, G, q) /\ \A y \in B2 : y <= x => Stays(g, q, y)
  <2>1. q # N + 6 /\ q # N + 3 /\ (q \in P => q = e) BY <1>19, <1>7 DEF Ops
  <2>2. CASE q = x
    <3>1. \A y \in B2 : y \in Int BY <1>1, <1>7, <1>30
    <3> QED BY <3>1, <2>2, <1>13 DEF NewOp
  <2>3. CASE q = e /\ e # 0 BY <2>3, <1>18
  <2>4. q = x \/ (q = e /\ e # 0)
    <3>1. 0 \notin P BY <1>3
    <3> QED BY <3>1, <2>1, <1>7
  <2> QED BY <2>2, <2>3, <2>4
<1>20. \A q \in New \cup {Len(f) + 1 + 3} \cup P : q \in Ops(g, S2, P2) =>
          OpOK(g, S2, L2, G, q) /\ \A y \in B2 : y <= x => Stays(g, q, y)
  BY <1>19
<1>21. Code(g, S2, L2, P2, B2, G)
  <2>1. Len(g) + 1 \in S2 /\ L2[Len(g) + 1] = 0 BY <1>7, <1>10
  <2>2. 3 \in Nat /\ 0 \in Nat /\ G <= G BY <1>2
  <2> HIDE DEF N, n, New, P2, B2
  <2>3. Completed(f, S, L, P, x, 3, g, S2, L2, New, P2, B2, G)
    BY <2>1, <1>10, <1>16, <1>17, <1>20 DEF Completed
  <2> QED BY <2>2, <2>3, <1>2, <1>10, Built
<1> QED BY <1>21

-----------------------------------------------------------------------------
(***************************************************************************)
(* What is compiled is code, at every step of regex_compile.               *)
(***************************************************************************)

\* The places for the jumps of the alternatives before those that are being
\* compiled, and the addresses where code may yet be inserted.
Places(s) == ({s.stack[k].fixup : k \in 1..Len(s.stack)} \cup {s.fixup}) \ {0}
StackPlaces(s) == {s.stack[k].fixup : k \in 1..Len(s.stack)} \ {0}
StackBarriers(s) ==
    {s.stack[k].begalt : k \in 1..Len(s.stack)} \cup {s.stack[k].laststart : k \in 1..Len(s.stack)}
Barriers(s) == StackBarriers(s) \cup {s.begalt} \cup ({s.laststart} \ {0})

CodeOf(s, B) == \E S, L : Code(s.buf, S, L, Places(s), B, s.regnum)
Coded(s) == CodeOf(s, Barriers(s))

\* Every address that is remembered of the open groups is in front of the
\* code that is inside all of them.
Ordered(s) ==
    /\ Len(s.buf) \in Nat /\ Here(s) \in Nat /\ s.begalt \in Nat /\ s.laststart \in Nat
    /\ 4 <= Here(s) \/ (StackBarriers(s) = {} /\ Places(s) \subseteq {s.fixup})
    /\ 1 <= Here(s) /\ Here(s) <= s.begalt /\ s.begalt <= Len(s.buf) + 1
    /\ s.fixup # 0 => s.fixup \in Nat /\ Here(s) <= s.fixup /\ s.begalt = s.fixup + 3
    /\ s.laststart # 0 => s.begalt <= s.laststart /\ s.laststart <= Len(s.buf) + 1
    /\ \A y \in StackBarriers(s) : y \in Nat /\ 1 <= y /\ y + 3 <= Here(s)
    /\ \A p \in Places(s) : p \in Nat /\ 1 <= p /\ (p = s.fixup \/ p + 3 <= Here(s))

LEMMA GroupsBefore ==
  ASSUME NEW s, Placed(s), NEW k \in 1..Len(s.stack)
  PROVE  LET g == s.stack[k]
         IN  /\ g.begalt \in Nat /\ 1 <= g.begalt /\ g.begalt + 3 <= Here(s)
             /\ g.laststart \in Nat /\ 1 <= g.laststart /\ g.laststart + 3 <= Here(s)
             /\ g.fixup # 0 => g.fixup \in Nat /\ 1 <= g.fixup /\ g.fixup + 3 <= Here(s)
<1> DEFINE g == s.stack[k]  first == Inside(s.stack, k - 1)
<1>0. /\ s.stack \in Seq(Group) /\ Len(s.stack) \in Nat
      /\ Here(s) \in Nat /\ 1 <= Here(s)
  BY InsideIsAddress DEF Placed, Shape, Here
<1>1. g.laststart + 3 <= Here(s) /\ g \in Group BY InsideAll
<1>2. k - 1 \in 0..Len(s.stack) BY <1>0
<1>3. first \in Nat /\ 1 <= first BY <1>2, <1>0, InsideIsAddress
<1>4. AlternativesAt(s.buf, first, g) /\ GroupAt(s.buf, g) BY DEF Placed, GroupsHold
<1> HIDE DEF g, first
<1>5. g.begalt \in Nat /\ g.laststart \in Nat /\ g.fixup \in Nat BY <1>1 DEF Group
<1>6. /\ first <= g.begalt /\ g.begalt <= g.laststart
      /\ g.fixup # 0 => first <= g.fixup /\ g.begalt = g.fixup + 3
  BY <1>4 DEF AlternativesAt, GroupAt
<1>7. /\ g.begalt \in Nat /\ 1 <= g.begalt /\ g.begalt + 3 <= Here(s)
      /\ g.laststart \in Nat /\ 1 <= g.laststart /\ g.laststart + 3 <= Here(s)
      /\ g.fixup # 0 => g.fixup \in Nat /\ 1 <= g.fixup /\ g.fixup + 3 <= Here(s)
  <2>1. PICK here : here = Here(s) OBVIOUS
  <2>2. PICK ba : ba = g.begalt OBVIOUS
  <2>3. PICK la : la = g.laststart OBVIOUS
  <2>4. PICK fx : fx = g.fixup OBVIOUS
  <2>5. here \in Nat /\ ba \in Nat /\ la \in Nat /\ fx \in Nat
    BY <2>1, <2>2, <2>3, <2>4, <1>0, <1>5
  <2>a. la + 3 <= here BY <2>1, <2>3, <1>1
  <2>c. first <= ba /\ ba <= la BY <2>2, <2>3, <1>6
  <2>d. fx # 0 => first <= fx /\ ba = fx + 3 BY <2>2, <2>4, <1>6
  <2>6. la + 3 <= here /\ first <= ba /\ ba <= la /\ (fx # 0 => first <= fx /\ ba = fx + 3)
    BY <2>a, <2>c, <2>d
  <2>7. /\ 1 <= ba /\ ba + 3 <= here /\ 1 <= la
        /\ fx # 0 => 1 <= fx /\ fx + 3 <= here
    BY <2>5, <2>6, <1>3
  <2>8. ba \in Nat /\ 1 <= ba /\ ba + 3 <= here /\ la \in Nat /\ 1 <= la /\ la + 3 <= here
    BY <2>5, <2>6, <2>7
  <2> QED BY <2>1, <2>2, <2>3, <2>4, <2>5, <2>7, <2>8
<1> QED BY <1>7 DEF g

LEMMA PlacedIsOrdered ==
  ASSUME NEW s, Placed(s)
  PROVE  Ordered(s)
<1>1. /\ Len(s.buf) \in Nat /\ s.begalt \in Nat /\ s.laststart \in Nat /\ s.fixup \in Nat
      /\ s.stack \in Seq(Group) /\ Len(s.stack) \in Nat
  BY BufferLen DEF Placed, Shape
<1>2. Here(s) \in Nat /\ 1 <= Here(s) BY <1>1, InsideIsAddress DEF Here
<1>3. /\ Here(s) <= s.begalt /\ s.begalt <= Len(s.buf) + 1
      /\ s.fixup # 0 => Here(s) <= s.fixup /\ s.begalt = s.fixup + 3
  BY DEF Placed, LevelHolds, AlternativesAt, b
<1>4. s.laststart # 0 => s.begalt <= s.laststart /\ s.laststart <= Len(s.buf) + 1
  BY <1>1 DEF Placed, LastHolds, b
<1>6. \A y \in StackBarriers(s) : y \in Nat /\ 1 <= y /\ y + 3 <= Here(s)
  BY GroupsBefore DEF StackBarriers
<1>7. \A p \in Places(s) : p \in Nat /\ 1 <= p /\ (p = s.fixup \/ p + 3 <= Here(s))
  <2> SUFFICES ASSUME NEW p \in Places(s)
               PROVE  p \in Nat /\ 1 <= p /\ (p = s.fixup \/ p + 3 <= Here(s))
    OBVIOUS
  <2>1. CASE p = s.fixup BY <2>1, <1>1 DEF Places
  <2>2. CASE p # s.fixup
    <3>1. PICK k \in 1..Len(s.stack) : p = s.stack[k].fixup /\ p # 0 BY <2>2 DEF Places
    <3> QED BY <3>1, GroupsBefore
  <2> QED BY <2>1, <2>2
<1>8. 4 <= Here(s) \/ (StackBarriers(s) = {} /\ Places(s) \subseteq {s.fixup})
  <2>1. CASE 4 <= Here(s) BY <2>1
  <2>2. CASE ~(4 <= Here(s))
    <3>1. 1..Len(s.stack) = {} BY <2>2, <1>2, GroupsBefore
    <3> QED BY <3>1 DEF StackBarriers, Places
  <2> QED BY <2>1, <2>2
<1> QED BY <1>1, <1>2, <1>3, <1>4, <1>6, <1>7, <1>8 DEF Ordered

\* The same level of the same groups.
SameLevel(s, t) == t.stack = s.stack /\ t.begalt = s.begalt /\ t.fixup = s.fixup

LEMMA SameLevelSame ==
  ASSUME NEW s, NEW t, SameLevel(s, t)
  PROVE  Places(t) = Places(s) /\ StackBarriers(t) = StackBarriers(s) /\ Here(t) = Here(s)
BY DEF SameLevel, Places, StackBarriers, Here

LEMMA CodedAs ==
  ASSUME NEW s, NEW t, SameLevel(s, t), NEW B,
         \E S, L : Code(t.buf, S, L, Places(s), B, t.regnum),
         StackBarriers(s) \cup {s.begalt} \subseteq B, t.laststart # 0 => t.laststart \in B
  PROVE  Coded(t)
<1>1. PICK S, L : Code(t.buf, S, L, Places(s), B, t.regnum) OBVIOUS
<1>2. Barriers(t) \subseteq B BY SameLevelSame DEF Barriers, SameLevel
<1>3. Code(t.buf, S, L, Places(t), Barriers(t), t.regnum) BY <1>1, <1>2, SameLevelSame, CodeFor
<1> QED BY <1>3 DEF Coded, CodeOf

LEMMA CodedHere ==
  ASSUME NEW s, NEW t, SameLevel(s, t), Coded(s), t.buf = s.buf, t.regnum = s.regnum,
         t.laststart \in {0, s.laststart, b(s)}
  PROVE  Coded(t)
<1>1. PICK S, L : Code(s.buf, S, L, Places(s), Barriers(s), s.regnum) BY DEF Coded, CodeOf
<1>2. Barrier(s.buf, S, L, Places(s), b(s)) BY <1>1, EndIsBarrier DEF b
<1>3. Code(s.buf, S, L, Places(s), Barriers(s) \cup {b(s)}, s.regnum) BY <1>1, <1>2 DEF Code
<1>4. \E S2, L2 : Code(t.buf, S2, L2, Places(s), Barriers(s) \cup {b(s)}, t.regnum) BY <1>3
<1>5. /\ StackBarriers(s) \cup {s.begalt} \subseteq Barriers(s) \cup {b(s)}
      /\ t.laststart # 0 => t.laststart \in Barriers(s) \cup {b(s)}
  BY DEF Barriers
<1> QED BY <1>4, <1>5, CodedAs

LEMMA SameArgs ==
  ASSUME NEW f, NEW g, IsBuffer(f), IsBuffer(g), NEW q \in Nat, 1 <= q, NEW k \in Nat,
         NEW G \in Nat, Args(f, q, G),
         q + Size(f, q) <= Len(f) + 1, q + k + Size(f, q) <= Len(g) + 1,
         \A i \in q..(q + Size(f, q) - 1) : g[i + k] = f[i]
  PROVE  /\ Size(g, q + k) = Size(f, q) /\ Args(g, q + k, G) /\ g[q + k] = f[q]
<1>1. /\ Size(g, q + k) = Size(f, q) /\ Args(g, q + k, G) /\ g[q + k] = f[q]
      /\ \A t \in Int :
            /\ \A d \in {-1, 0, 1} : Leads(g, q + k, t + k, d) => Leads(f, q, t, d)
            /\ Refers(g, q + k, t + k) => Refers(f, q, t)
  <2>1. G <= G OBVIOUS
  <2> QED BY <2>1, SameOp
<1> QED BY <1>1

LEMMA OpMoved ==
  ASSUME NEW bytes, IsBuffer(bytes), NEW g, IsBuffer(g), NEW k \in Nat, NEW G \in Nat,
         Args(bytes, 1, G), Size(bytes, 1) = Len(bytes), Len(g) = k + Len(bytes),
         \A i \in 1..Len(bytes) : g[k + i] = bytes[i]
  PROVE  Size(g, k + 1) = Len(bytes) /\ Args(g, k + 1, G) /\ g[k + 1] = bytes[1]
<1>1. PICK q \in Nat : q = 1 OBVIOUS
<1>2. Args(bytes, q, G) /\ Size(bytes, q) = Len(bytes) /\ Len(bytes) \in Nat
  BY <1>1, BufferLen
<1>3. q + Size(bytes, q) <= Len(bytes) + 1 /\ q + k + Size(bytes, q) <= Len(g) + 1
  BY <1>1, <1>2
<1>4. \A i \in q..(q + Size(bytes, q) - 1) : g[i + k] = bytes[i]
  <2>1. q + Size(bytes, q) - 1 = Len(bytes) BY <1>1, <1>2
  <2>2. \A i \in 1..Len(bytes) : i + k = k + i BY <1>2
  <2> QED BY <2>1, <2>2, <1>1
<1>5. 1 <= q BY <1>1
<1>6. Size(g, q + k) = Size(bytes, q) /\ Args(g, q + k, G) /\ g[q + k] = bytes[q]
  BY <1>2, <1>3, <1>4, <1>5, SameArgs
<1>7. q + k = k + 1 BY <1>1
<1> QED BY <1>1, <1>2, <1>6, <1>7

\* An op that goes on behind itself is written behind the code.
LEMMA OpPushed ==
  ASSUME NEW f, NEW P, NEW B, NEW G, \E S, L : Code(f, S, L, P, B, G),
         NEW bytes, IsBuffer(bytes), bytes[1] \in StraightOps,
         NEW G2 \in Nat, G <= G2, Args(bytes, 1, G2), Size(bytes, 1) = Len(bytes)
  PROVE  \E S, L : Code(f \o bytes, S, L, P, B \cup {Len(f) + 1, Len(f \o bytes) + 1}, G2)
<1>1. PICK S, L : Code(f, S, L, P, B, G) OBVIOUS
<1> DEFINE g == f \o bytes  n == Len(bytes)  k == Len(f)
<1>2. IsBuffer(f) /\ k \in Nat /\ n \in Nat BY <1>1, BufferLen DEF Code
<1>3. /\ IsBuffer(g) /\ Len(g) = k + n /\ Agree(f, g, k)
      /\ \A i \in 1..n : g[k + i] = bytes[i]
  BY <1>2, BufferCat
<1>4. Size(bytes, 1) \in Nat /\ 1 <= Size(bytes, 1) BY SizeOf
<1>5. 1 <= n BY <1>4
<1> HIDE DEF g, n, k
<1>6. Size(bytes, 1) = n BY DEF n
<1>7. /\ Size(g, k + 1) = n /\ Args(g, k + 1, G2) /\ g[k + 1] = bytes[1]
  <2>1. Len(g) = k + Len(bytes) /\ \A i \in 1..Len(bytes) : g[k + i] = bytes[i]
    BY <1>3 DEF n
  <2> QED BY <2>1, <1>2, <1>3, OpMoved DEF n
<1>9. \E S2, L2 : Code(g, S2, L2, P, B \cup {Len(f) + 1, Len(g) + 1}, G2)
  <2>1. /\ Len(g) = Len(f) + n /\ Agree(f, g, Len(f)) BY <1>3 DEF k
  <2>2. g[Len(f) + 1] \in StraightOps /\ Args(g, Len(f) + 1, G2) /\ Size(g, Len(f) + 1) = n
    BY <1>7 DEF k
  <2> QED BY <2>1, <2>2, <1>1, <1>2, <1>3, <1>5, PushStraight
<1> QED BY <1>9 DEF g

\* The bytes of an op that goes on behind itself.
Straight(bytes, G) ==
    /\ IsBuffer(bytes) /\ bytes[1] \in StraightOps
    /\ Args(bytes, 1, G) /\ Size(bytes, 1) = Len(bytes)

LEMMA PlainBytes ==
  ASSUME NEW v \in PlainOps, NEW G
  PROVE  Straight(<<v>>, G)
<1>1. IsBuffer(<<v>>) /\ Len(<<v>>) = 1 /\ <<v>>[1] = v BY BufferOf1
<1> QED BY <1>1 DEF Straight, StraightOps, Args, Size

LEMMA ReferenceBytes ==
  ASSUME NEW G, NEW r \in 1..G
  PROVE  Straight(<<Op.duplicate, r>>, G)
<1> DEFINE f == <<Op.duplicate, r>>
<1>1. IsBuffer(f) /\ Len(f) = 2 /\ f[1] = Op.duplicate /\ f[2] = r BY BufferOf2
<1> HIDE DEF f
<1>2. Op.duplicate \notin PlainOps /\ Op.duplicate \notin CountedOps BY OpCodes, OpKinds
<1>3. f[1 + 1] = r BY <1>1
<1>4. Args(f, 1, G) BY <1>1, <1>3 DEF Args
<1>5. Size(f, 1) = 2 BY <1>1, <1>2 DEF Size
<1>6. f[1] \in StraightOps BY <1>1 DEF StraightOps
<1>7. Straight(f, G) BY <1>1, <1>4, <1>5, <1>6 DEF Straight
<1> QED BY <1>7 DEF f

LEMMA GroupBytes ==
  ASSUME NEW G \in Nat, NEW v \in GroupOps, NEW r \in 1..G, NEW n \in Nat, r + n <= G
  PROVE  Straight(<<v, r, n>>, G)
<1> DEFINE f == <<v, r, n>>
<1>1. IsBuffer(f) /\ Len(f) = 3 /\ f[1] = v /\ f[2] = r /\ f[3] = n BY BufferOf3
<1> HIDE DEF f
<1>2. /\ v \notin PlainOps /\ v \notin CountedOps /\ v # Op.duplicate
      /\ v \notin CountingOps \cup {Op.set_number_at}
  BY OpCodes, OpKinds
<1>3. f[1 + 1] = r /\ f[1 + 2] = n BY <1>1
<1>4. Args(f, 1, G) BY <1>1, <1>3 DEF Args
<1>5. Size(f, 1) = 3 BY <1>1, <1>2 DEF Size
<1>6. f[1] \in StraightOps BY <1>1 DEF StraightOps
<1>7. Straight(f, G) BY <1>1, <1>4, <1>5, <1>6 DEF Straight
<1> QED BY <1>7 DEF f

LEMMA PushedCoded ==
  ASSUME NEW s, NEW t, SameLevel(s, t), Coded(s), s.regnum <= t.regnum, t.regnum \in Nat,
         NEW bytes, Straight(bytes, t.regnum), t.buf = s.buf \o bytes,
         t.laststart \in {s.laststart, b(s), b(t)}
  PROVE  Coded(t)
<1> DEFINE P == Places(s)  B == Barriers(s)  B2 == B \cup {b(s), b(t)}
<1>1. \E S, L : Code(s.buf, S, L, P, B, s.regnum) BY DEF Coded, CodeOf
<1>2. B2 = B \cup {Len(s.buf) + 1, Len(s.buf \o bytes) + 1} BY DEF b
<1> HIDE DEF P, B, B2
<1>3. \E S, L : Code(s.buf \o bytes, S, L, P, B2, t.regnum)
  BY <1>1, <1>2, OpPushed DEF Straight
<1>4. \E S, L : Code(t.buf, S, L, P, B2, t.regnum) BY <1>3
<1>5. /\ StackBarriers(s) \cup {s.begalt} \subseteq B2
      /\ t.laststart # 0 => t.laststart \in B2
  BY DEF Barriers, B2, B
<1> QED BY <1>4, <1>5, CodedAs DEF P

\* The bytes of a character that joins an exactn, or starts one.
LEMMA JoinBytes ==
  ASSUME NEW f, IsBuffer(f), NEW place, NEW c
  PROVE  /\ IsBuffer(Join(f, place, c)) /\ Len(Join(f, place, c)) = Len(f) + 1
         /\ \A i \in 1..Len(f) :
               Join(f, place, c)[i] = IF i = place THEN f[place] + 1 ELSE f[i]
<1> DEFINE one == Write(f, place, f[place] + 1)
           new == Join(f, place, c)
<1>1. new = Append(one, Ord[c]) BY DEF Join, Write
<1>2. /\ IsBuffer(one) /\ Len(one) = Len(f)
      /\ \A i \in 1..Len(f) : one[i] = IF i = place THEN f[place] + 1 ELSE f[i]
  BY WriteKeeps
<1> HIDE DEF one, new
<1>3. /\ IsBuffer(Append(one, Ord[c])) /\ Len(Append(one, Ord[c])) = Len(one) + 1
      /\ Agree(one, Append(one, Ord[c]), Len(one))
  BY <1>2, BufferAppend
<1>4. /\ IsBuffer(new) /\ Len(new) = Len(f) + 1
      /\ \A i \in 1..Len(f) : new[i] = IF i = place THEN f[place] + 1 ELSE f[i]
  BY <1>1, <1>2, <1>3 DEF Agree
<1> QED BY <1>4 DEF new

LEMMA StartBytes ==
  ASSUME NEW f, IsBuffer(f), NEW c
  PROVE  LET g == Join(Started(f), Len(f) + 2, c)
         IN  /\ IsBuffer(g) /\ Len(g) = Len(f) + 3 /\ Agree(f, g, Len(f))
             /\ g[Len(f) + 1] = Op.exactn /\ g[Len(f) + 2] = 1
<1> DEFINE two == Started(f)  g == Join(two, Len(f) + 2, c)
<1>1. Len(f) \in Nat BY BufferLen
<1>2. /\ IsBuffer(two) /\ Len(two) = Len(f) + 2 /\ Agree(f, two, Len(f))
      /\ two[Len(f) + 1] = Op.exactn /\ two[Len(f) + 2] = 0
  <2>1. /\ IsBuffer(<<Op.exactn, 0>>) /\ Len(<<Op.exactn, 0>>) = 2
        /\ <<Op.exactn, 0>>[1] = Op.exactn /\ <<Op.exactn, 0>>[2] = 0
    BY BufferOf2
  <2>2. two = f \o <<Op.exactn, 0>> BY DEF Started
  <2> QED BY <2>1, <2>2, <1>1, BufferCat
<1> HIDE DEF two
<1>3. /\ IsBuffer(g) /\ Len(g) = Len(two) + 1
      /\ \A i \in 1..Len(two) : g[i] = IF i = Len(f) + 2 THEN two[Len(f) + 2] + 1 ELSE two[i]
  BY <1>2, JoinBytes
<1> HIDE DEF g
<1>4. Agree(f, g, Len(f))
  <2> SUFFICES ASSUME NEW i \in 1..Len(f) PROVE g[i] = f[i] BY DEF Agree
  <2>1. i \in 1..Len(two) /\ i # Len(f) + 2 BY <1>1, <1>2
  <2>2. two[i] = f[i] BY <1>2 DEF Agree
  <2> QED BY <2>1, <2>2, <1>3
<1>5. Len(f) + 1 \in 1..Len(two) /\ Len(f) + 2 \in 1..Len(two) /\ Len(f) + 1 # Len(f) + 2
  BY <1>1, <1>2
<1>6. g[Len(f) + 1] = two[Len(f) + 1] /\ g[Len(f) + 2] = two[Len(f) + 2] + 1 BY <1>3, <1>5
<1>7. Len(g) = Len(f) + 3 BY <1>1, <1>2, <1>3
<1>8. /\ IsBuffer(g) /\ Len(g) = Len(f) + 3 /\ Agree(f, g, Len(f))
      /\ g[Len(f) + 1] = Op.exactn /\ g[Len(f) + 2] = 1
  BY <1>2, <1>3, <1>4, <1>6, <1>7
<1> QED BY <1>8 DEF g, two

\* An exactn with n characters behind the code.
LEMMA ExactnCode ==
  ASSUME NEW f, NEW P, NEW B, NEW G, \E S, L : Code(f, S, L, P, B, G),
         NEW g, IsBuffer(g), NEW n \in Nat, Len(g) = Len(f) + 2 + n, Agree(f, g, Len(f)),
         g[Len(f) + 1] = Op.exactn, g[Len(f) + 2] = n
  PROVE  \E S, L : Code(g, S, L, P, B \cup {Len(f) + 1, Len(g) + 1}, G)
<1>1. PICK S, L : Code(f, S, L, P, B, G) OBVIOUS
<1>2. Len(f) \in Nat /\ G \in Nat BY <1>1, BufferLen DEF Code
<1>3. PICK q \in Nat : q = Len(f) + 1 BY <1>2
<1>4. q + 1 = Len(f) + 2 BY <1>2, <1>3
<1>5. Op.exactn \notin PlainOps /\ Op.exactn \in CountedOps
  BY OpCodes, OpKinds DEF CountedOps
<1>6. g[q] = Op.exactn /\ g[q + 1] = n BY <1>3, <1>4
<1>7. Size(g, q) = 2 + n /\ Args(g, q, G) /\ g[q] \in StraightOps
  BY <1>5, <1>6 DEF Size, Args, StraightOps
<1>8. PICK k \in Nat : k = 2 + n OBVIOUS
<1>9. 1 <= k /\ Len(g) = Len(f) + k /\ G <= G BY <1>2, <1>8
<1>10. /\ g[Len(f) + 1] \in StraightOps /\ Args(g, Len(f) + 1, G) /\ Size(g, Len(f) + 1) = k
  BY <1>3, <1>7, <1>8
<1> QED BY <1>1, <1>2, <1>8, <1>9, <1>10, PushStraight

\* An exactn that ends the code takes one more character.
Joined(f, g, x, n) ==
    /\ x \in Nat /\ 1 <= x /\ n \in Nat /\ Len(f) = x + 1 + n /\ f[x] = Op.exactn
    /\ IsBuffer(g) /\ Len(g) = Len(f) + 1
    /\ \A i \in 1..Len(f) : g[i] = IF i = x + 1 THEN n + 1 ELSE f[i]

LEMMA JoinedCode ==
  ASSUME NEW f, NEW S, NEW L, NEW P, NEW B, NEW G, Code(f, S, L, P, B, G),
         NEW g, NEW x \in B, NEW n, Joined(f, g, x, n), \A p \in P : p + 3 <= x,
         NEW B2, \A y \in B2 : y \in B /\ y <= x
  PROVE  \E S2, L2 : Code(g, S2, L2, P, B2 \cup {Len(g) + 1}, G)
<1>1. IsBuffer(f) /\ Len(f) \in Nat /\ Barrier(f, S, L, P, x) BY BufferLen DEF Code
<1>0. /\ x \in Nat /\ 1 <= x /\ n \in Nat /\ Len(f) = x + 1 + n /\ f[x] = Op.exactn
      /\ IsBuffer(g) /\ Len(g) = Len(f) + 1
      /\ \A i \in 1..Len(f) : g[i] = IF i = x + 1 THEN n + 1 ELSE f[i]
  BY DEF Joined
<1>2. PICK h : h = SubSeq(f, 1, x - 1) OBVIOUS
<1>3. IsBuffer(h) /\ Len(h) = x - 1 /\ Agree(h, f, x - 1)
  <2>1. PICK k \in Nat : k = x - 1 BY <1>0
  <2>2. PICK one \in Nat : one = 1 OBVIOUS
  <2>3. 1 <= one /\ one <= k + 1 /\ k <= Len(f) BY <1>0, <1>1, <2>1, <2>2
  <2>4. /\ IsBuffer(SubSeq(f, one, k)) /\ Len(SubSeq(f, one, k)) = k + 1 - one
        /\ \A i \in 1..(k + 1 - one) : SubSeq(f, one, k)[i] = f[one + i - 1]
    BY <2>3, <1>1, BufferPart
  <2>5. k + 1 - one = k /\ \A i \in 1..k : one + i - 1 = i BY <2>1, <2>2
  <2>6. h = SubSeq(f, one, k) BY <1>2, <2>1, <2>2
  <2>7. IsBuffer(h) /\ Len(h) = k /\ \A i \in 1..k : h[i] = f[i] BY <2>4, <2>5, <2>6
  <2> QED BY <2>1, <2>7 DEF Agree
<1>4. \E S2, L2 : Code(h, S2, L2, P, B2, G) BY <1>1, <1>3, Truncated
<1>5. /\ Len(h) + 1 = x /\ Len(h) + 2 = x + 1 /\ Len(g) = Len(h) + 2 + (n + 1)
      /\ x \in 1..Len(f) /\ x + 1 \in 1..Len(f) /\ x # x + 1
  BY <1>0, <1>1, <1>3
<1>6. g[Len(h) + 1] = Op.exactn /\ g[Len(h) + 2] = n + 1 BY <1>0, <1>5
<1>7. Agree(h, g, Len(h))
  <2> SUFFICES ASSUME NEW i \in 1..(x - 1) PROVE g[i] = h[i] BY <1>3 DEF Agree
  <2>1. i \in 1..Len(f) /\ i # x + 1 BY <1>0, <1>1
  <2> QED BY <1>0, <2>1, <1>3 DEF Agree
<1>8. PICK n2 \in Nat : n2 = n + 1 BY <1>0
<1>9. Len(g) = Len(h) + 2 + n2 /\ g[Len(h) + 2] = n2 BY <1>5, <1>6, <1>8
<1>10. \E S2, L2 : Code(g, S2, L2, P, B2 \cup {Len(h) + 1, Len(g) + 1}, G)
  BY <1>0, <1>4, <1>6, <1>7, <1>9, ExactnCode
<1>11. PICK S2, L2 : Code(g, S2, L2, P, B2 \cup {Len(h) + 1, Len(g) + 1}, G) BY <1>10
<1>12. B2 \cup {Len(g) + 1} \subseteq B2 \cup {Len(h) + 1, Len(g) + 1} OBVIOUS
<1> QED BY <1>11, <1>12, CodeFor

\* The addresses remembered of the groups and their alternatives are not
\* behind what is repeated, nor in a place for a jump.
LEMMA Remembered ==
  ASSUME NEW s, Ordered(s), NEW x \in Nat, s.begalt <= x
  PROVE  /\ \A p \in Places(s) : p + 3 <= x
         /\ \A y \in StackBarriers(s) \cup {s.begalt} : y <= x /\ y \in Barriers(s)
<1>1. s.begalt \in Nat /\ Here(s) \in Nat /\ Here(s) <= s.begalt BY DEF Ordered
<1>2. \A p \in Places(s) : p + 3 <= x
  <2> SUFFICES ASSUME NEW p \in Places(s) PROVE p + 3 <= x OBVIOUS
  <2>1. /\ p \in Nat /\ 1 <= p /\ (p = s.fixup \/ p + 3 <= Here(s))
        /\ s.fixup # 0 => s.begalt = s.fixup + 3
    BY DEF Ordered
  <2> QED BY <1>1, <2>1
<1>3. \A y \in StackBarriers(s) : y <= x
  <2> SUFFICES ASSUME NEW y \in StackBarriers(s) PROVE y <= x OBVIOUS
  <2>1. y \in Nat /\ y + 3 <= Here(s) BY DEF Ordered
  <2> QED BY <2>1, <1>1
<1> QED BY <1>2, <1>3 DEF Barriers

LEMMA JoinCoded ==
  ASSUME NEW s, NEW t, NEW c, Placed(s), Coded(s), s.state = "loop", SameLevel(s, t),
         s.pending # 0, s.pending + s.buf[s.pending] + 1 = b(s), s.buf[s.pending] # 255,
         t.laststart = s.laststart, t.regnum = s.regnum,
         t.buf = Join(s.buf, s.pending, c)
  PROVE  Coded(t)
<1>1. /\ IsBuffer(s.buf) /\ Len(s.buf) \in Nat /\ s.pending \in Nat /\ s.laststart \in Nat
      /\ s.buf[s.pending - 1] = Op.exactn /\ s.buf[s.pending] \in 1..255
      /\ s.begalt < s.pending /\ s.laststart = s.pending - 1
  BY BufferLen DEF Placed, Shape, CountHolds, Aims, AtEnd
<1>2. PICK f, x, n, q : f = s.buf /\ x = s.laststart /\ n = s.buf[s.pending] /\ q = s.pending
  OBVIOUS
<1>3. /\ s.begalt \in Nat /\ 1 <= s.begalt /\ Ordered(s)
  BY FirstAddress, PlacedIsOrdered
<1>4. /\ x \in Nat /\ n \in 1..255 /\ q \in Nat /\ x = q - 1 /\ q + n + 1 = Len(f) + 1
      /\ s.begalt < q /\ Len(f) \in Nat
  BY <1>1, <1>2 DEF b
<1>5. /\ 1 <= x /\ Len(f) = x + 1 + n /\ q = x + 1 /\ n \in Nat /\ s.begalt <= x /\ x # 0
  BY <1>3, <1>4
<1>6. f[x] = Op.exactn BY <1>1, <1>2
<1>7. /\ \A p \in Places(s) : p + 3 <= x
      /\ \A y \in StackBarriers(s) \cup {s.begalt} : y <= x /\ y \in Barriers(s)
  BY <1>3, <1>4, <1>5, Remembered
<1>8. PICK g : g = t.buf OBVIOUS
<1>9. /\ IsBuffer(g) /\ Len(g) = Len(f) + 1
      /\ \A i \in 1..Len(f) : g[i] = IF i = x + 1 THEN n + 1 ELSE f[i]
  <2>1. /\ IsBuffer(Join(f, q, c)) /\ Len(Join(f, q, c)) = Len(f) + 1
        /\ \A i \in 1..Len(f) : Join(f, q, c)[i] = IF i = q THEN f[q] + 1 ELSE f[i]
    BY <1>1, <1>2, JoinBytes
  <2>2. g = Join(f, q, c) /\ f[q] = n BY <1>2, <1>8
  <2> QED BY <2>1, <2>2, <1>5
<1>10. PICK S, L : Code(f, S, L, Places(s), Barriers(s), s.regnum) BY <1>2 DEF Coded, CodeOf
<1>11. x \in Barriers(s) BY <1>2, <1>5 DEF Barriers
<1> DEFINE B0 == {y \in Barriers(s) : y <= x}  B2 == B0 \cup {Len(g) + 1}
<1>15. \A y \in B0 : y \in Barriers(s) /\ y <= x OBVIOUS
<1>13. StackBarriers(s) \cup {s.begalt} \subseteq B2 /\ t.laststart \in B2
  <2>1. x <= x /\ t.laststart = x BY <1>2, <1>4
  <2> QED BY <2>1, <1>7, <1>11
<1> HIDE DEF B0
<1>12. \E S2, L2 : Code(g, S2, L2, Places(s), B2, s.regnum)
  <2>1. Joined(f, g, x, n) BY <1>4, <1>5, <1>6, <1>9 DEF Joined
  <2> QED BY <2>1, <1>7, <1>10, <1>11, <1>15, JoinedCode
<1>14. \E S2, L2 : Code(t.buf, S2, L2, Places(s), B2, t.regnum) BY <1>8, <1>12
<1> HIDE DEF B2
<1> QED BY <1>13, <1>14, CodedAs

\* An exactn of one character is written behind the code.
LEMMA StartCoded ==
  ASSUME NEW s, NEW t, NEW c, Coded(s), SameLevel(s, t), IsBuffer(s.buf),
         t.laststart = b(s), t.regnum = s.regnum, t.buf = Join(Started(s.buf), b(s) + 1, c)
  PROVE  Coded(t)
<1> DEFINE f == s.buf  g == t.buf  P == Places(s)  B == Barriers(s)
           B2 == B \cup {Len(f) + 1, Len(g) + 1}
<1>1. Len(f) \in Nat /\ b(s) + 1 = Len(f) + 2 BY BufferLen DEF b
<1>2. g = Join(Started(f), Len(f) + 2, c) BY <1>1
<1>3. \E S, L : Code(f, S, L, P, B, s.regnum) BY DEF Coded, CodeOf
<1> HIDE DEF f, g, P, B
<1>4. /\ IsBuffer(g) /\ Len(g) = Len(f) + 3 /\ Agree(f, g, Len(f))
      /\ g[Len(f) + 1] = Op.exactn /\ g[Len(f) + 2] = 1
  BY <1>2, StartBytes DEF f
<1>5. PICK n \in Nat : n = 1 OBVIOUS
<1>6. Len(g) = Len(f) + 2 + n /\ g[Len(f) + 2] = n BY <1>1, <1>4, <1>5
<1>7. \E S, L : Code(g, S, L, P, B2, s.regnum) BY <1>3, <1>4, <1>6, ExactnCode
<1>8. StackBarriers(s) \cup {s.begalt} \subseteq B2 /\ t.laststart \in B2
  BY DEF B, Barriers, b, f
<1>9. \E S, L : Code(t.buf, S, L, Places(s), B2, t.regnum) BY <1>7 DEF g, P
<1> HIDE DEF B2
<1> QED BY <1>8, <1>9, CodedAs

LEMMA NormalCharCoded ==
  ASSUME NEW s, NEW c, Placed(s), s.state = "loop", Coded(s)
  PROVE  Coded(NormalChar(s, c))
<1> DEFINE t == NormalChar(s, c)
           fresh == \/ s.pending = 0
                    \/ s.pending + s.buf[s.pending] + 1 # b(s)
                    \/ s.buf[s.pending] = 255
                    \/ At(s.p) \in {"*", "^", "+", "?", "{"}
<1>1. DOMAIN s = CompFields /\ IsBuffer(s.buf) BY DEF Placed, Shape
<1>2. CASE fresh
  <2> DEFINE u == [Push(s, <<Op.exactn, 0>>) EXCEPT !.laststart = b(s), !.pending = b(s) + 1]
             new == Join(u.buf, u.pending, c)
  <2>1. t = [u EXCEPT !.buf = new] BY <1>2 DEF NormalChar
  <2>2. /\ DOMAIN u = CompFields /\ u.buf = Started(s.buf)
        /\ u.stack = s.stack /\ u.begalt = s.begalt /\ u.fixup = s.fixup
        /\ u.regnum = s.regnum /\ u.state = s.state
        /\ u.laststart = b(s) /\ u.pending = b(s) + 1
    BY <1>1 DEF Push, CompFields, Started
  <2> HIDE DEF u, t
  <2>3. new = Join(Started(s.buf), b(s) + 1, c) BY <2>2
  <2> HIDE DEF new
  <2>4. /\ SameLevel(s, t) /\ t.laststart = b(s) /\ t.regnum = s.regnum
        /\ t.buf = Join(Started(s.buf), b(s) + 1, c)
    BY <2>1, <2>2, <2>3 DEF CompFields, SameLevel
  <2>5. Coded(t) BY <2>4, <1>1, StartCoded
  <2> QED BY <2>5 DEF t
<1>3. CASE ~fresh
  <2> DEFINE new == Join(s.buf, s.pending, c)
  <2>1. t = [s EXCEPT !.buf = new] BY <1>3 DEF NormalChar
  <2>2. new = Join(s.buf, s.pending, c) OBVIOUS
  <2> HIDE DEF t, new
  <2>3. /\ SameLevel(s, t) /\ t.laststart = s.laststart /\ t.regnum = s.regnum
        /\ t.buf = Join(s.buf, s.pending, c)
    BY <2>1, <2>2, <1>1 DEF CompFields, SameLevel
  <2>4. /\ s.pending # 0 /\ s.pending + s.buf[s.pending] + 1 = b(s)
        /\ s.buf[s.pending] # 255
    BY <1>3
  <2>5. Coded(t) BY <2>3, <2>4, JoinCoded
  <2> QED BY <2>5 DEF t
<1> QED BY <1>2, <1>3

\* The code at every step, and the code that regex_compile ends with.
Final(s) == \E S, L : Code(s.buf, S, L, {}, {}, s.regnum)
CodeHolds(s) ==
    /\ s.state # "done" => Coded(s)
    /\ s.state = "done" /\ s.ret = "REG_NOERROR" => Final(s)

LEMMA AheadCoded ==
  ASSUME NEW s, NEW i, Placed(s), Coded(s)
  PROVE  Coded(Ahead(s, i))
<1> DEFINE t == Ahead(s, i)
<1>1. /\ t.buf = s.buf /\ t.stack = s.stack /\ t.begalt = s.begalt /\ t.fixup = s.fixup
      /\ t.laststart = s.laststart /\ t.regnum = s.regnum
  BY AheadPlaced
<1> HIDE DEF t
<1>2. Coded(t) BY <1>1, CodedHere DEF SameLevel
<1> QED BY <1>2 DEF t

LEMMA FetchedCoded == ASSUME Placed(comp), Coded(comp) PROVE Coded(Fetched)
<1>1. Fetched = Ahead(comp, comp.p + 1) BY DEF Fetched, Ahead
<1> QED BY <1>1, AheadCoded

LEMMA OpCoded ==
  ASSUME NEW s, NEW bytes, Placed(s), Coded(s), Straight(bytes, s.regnum)
  PROVE  Coded([Push(s, bytes) EXCEPT !.laststart = b(s)]) /\ Coded(Push(s, bytes))
<1> DEFINE t == [Push(s, bytes) EXCEPT !.laststart = b(s)]  u == Push(s, bytes)
<1>1. DOMAIN s = CompFields /\ s.regnum \in Nat /\ s.regnum <= s.regnum BY DEF Placed, Shape
<1>2. /\ t.buf = s.buf \o bytes /\ t.stack = s.stack /\ t.begalt = s.begalt
      /\ t.fixup = s.fixup /\ t.regnum = s.regnum /\ t.laststart = b(s)
  BY <1>1 DEF Push, CompFields
<1>3. /\ u.buf = s.buf \o bytes /\ u.stack = s.stack /\ u.begalt = s.begalt
      /\ u.fixup = s.fixup /\ u.regnum = s.regnum /\ u.laststart = s.laststart
  BY <1>1 DEF Push, CompFields
<1> HIDE DEF t, u
<1>4. Coded(t) BY <1>1, <1>2, PushedCoded DEF SameLevel
<1>5. Coded(u) BY <1>1, <1>3, PushedCoded DEF SameLevel
<1> QED BY <1>4, <1>5 DEF t, u

LEMMA ReturnCode ==
  ASSUME NEW s, NEW code, Placed(s), code # "REG_NOERROR"
  PROVE  CodeHolds(Return(s, code))
<1>1. DOMAIN s = CompFields BY DEF Placed, Shape
<1>2. Return(s, code).state = "done" /\ Return(s, code).ret = code
  BY <1>1 DEF Return, CompFields
<1> QED BY <1>2 DEF CodeHolds

LEMMA CodedSays ==
  ASSUME NEW s, s.state # "done", Coded(s)
  PROVE  CodeHolds(s)
BY DEF CodeHolds

LEMMA LiteralCode == Sound(comp) /\ CodeHolds(comp) /\ Literal => CodeHolds(comp')
<1> SUFFICES ASSUME Sound(comp), CodeHolds(comp), Literal PROVE CodeHolds(comp') OBVIOUS
<1>1. Placed(comp) /\ comp.state = "loop" /\ Coded(comp)
  BY DEF Sound, Literal, Fetch, CodeHolds
<1>2. Placed(Fetched) /\ Fetched.state = "loop" /\ Coded(Fetched)
  BY <1>1, FetchedPlaced, FetchedCoded
<1>3. \E c : comp' = NormalChar(Fetched, c) BY DEF Literal
<1> QED BY <1>2, <1>3, NormalCharCoded, NormalCharSound, CodedSays

LEMMA AnchorCode == Sound(comp) /\ CodeHolds(comp) /\ Anchor => CodeHolds(comp')
<1> SUFFICES ASSUME Sound(comp), CodeHolds(comp), Anchor PROVE CodeHolds(comp') OBVIOUS
<1>1. Placed(comp) /\ comp.state = "loop" /\ Coded(comp)
  BY DEF Sound, Anchor, Fetch, CodeHolds
<1>2. Placed(Fetched) /\ Fetched.state = "loop" /\ Coded(Fetched)
  BY <1>1, FetchedPlaced, FetchedCoded
<1>3. PICK v \in PlainOps : comp' = Push(Fetched, <<v>>) BY DEF Anchor, PlainOps
<1>4. Straight(<<v>>, Fetched.regnum) BY PlainBytes
<1>5. IsBuffer(<<v>>) /\ Len(<<v>>) # 0 BY BufferOf1
<1>6. Coded(comp') /\ comp'.state = "loop" BY <1>2, <1>3, <1>4, <1>5, OpCoded, OpSound
<1> QED BY <1>6, CodedSays

LEMMA AnyCharCode == Sound(comp) /\ CodeHolds(comp) /\ AnyChar => CodeHolds(comp')
<1> SUFFICES ASSUME Sound(comp), CodeHolds(comp), AnyChar PROVE CodeHolds(comp') OBVIOUS
<1>1. Placed(comp) /\ comp.state = "loop" /\ Coded(comp)
  BY DEF Sound, AnyChar, Fetch, CodeHolds
<1>2. /\ Placed(Fetched) /\ Fetched.state = "loop" /\ Coded(Fetched)
      /\ b(Fetched) = b(comp)
  BY <1>1, FetchedPlaced, FetchedCoded
<1>3. PICK v \in PlainOps : comp' = [Push(Fetched, <<v>>) EXCEPT !.laststart = b(Fetched)]
  BY <1>2 DEF AnyChar, PlainOps
<1>4. Straight(<<v>>, Fetched.regnum) BY PlainBytes
<1>5. IsBuffer(<<v>>) /\ Len(<<v>>) # 0 BY BufferOf1
<1>6. Coded(comp') /\ comp'.state = "loop" BY <1>2, <1>3, <1>4, <1>5, OpCoded, OpSound
<1> QED BY <1>6, CodedSays

LEMMA OpenBracketCode == Sound(comp) /\ CodeHolds(comp) /\ OpenBracket => CodeHolds(comp')
<1> SUFFICES ASSUME Sound(comp), CodeHolds(comp), OpenBracket PROVE CodeHolds(comp') OBVIOUS
<1>1. Placed(comp) /\ comp.state = "loop" /\ Coded(comp) /\ DOMAIN comp = CompFields
  BY DEF Sound, OpenBracket, Fetch, CodeHolds, Placed, Shape
<1>2. CASE comp.p = Len(pattern)
  <2>1. comp' = Return(Fetched, "REG_EBRACK") BY <1>2 DEF OpenBracket
  <2> QED BY <1>1, <2>1, FetchedPlaced, ReturnCode
<1>3. CASE comp.p # Len(pattern)
  <2>1. PICK p1, bracket :
           comp' = [comp EXCEPT !.state = "bracket", !.p = p1, !.laststart = b(comp),
                                !.bracket = bracket]
    BY <1>3 DEF OpenBracket
  <2>2. /\ comp'.state = "bracket" /\ comp'.buf = comp.buf
        /\ comp'.stack = comp.stack /\ comp'.begalt = comp.begalt /\ comp'.fixup = comp.fixup
        /\ comp'.laststart = b(comp) /\ comp'.regnum = comp.regnum
    BY <1>1, <2>1 DEF CompFields
  <2>3. Coded(comp') BY <1>1, <2>2, CodedHere DEF SameLevel
  <2> QED BY <2>2, <2>3, CodedSays
<1> QED BY <1>2, <1>3

\* A bitmap says how long it is.
LEMMA BitmapBytes ==
  ASSUME NEW chars, chars \subseteq Range(ASCII), NEW v \in CountedOps, NEW G
  PROVE  Straight(<<v>> \o Bitmap(chars), G)
<1> DEFINE codes == {Ord[c] : c \in chars}
           size  == IF codes = {} THEN 0 ELSE Max(codes) \div 8 + 1
           bits  == [k \in 1..size |->
                       MapThenSumSet(LAMBDA c : 2 ^ (c % 8), {c \in codes : c \div 8 = k - 1})]
           f == <<v>> \o Bitmap(chars)
<1>1. codes \subseteq 0..126
  <2> SUFFICES ASSUME NEW c \in chars PROVE Ord[c] \in 0..126 OBVIOUS
  <2>1. Ord[c] \in 32..126 BY OrdIsCode
  <2> QED BY <2>1
<1>2. Bitmap(chars) = <<size>> \o bits BY DEF Bitmap
<1> HIDE DEF codes
<1>3. size \in Nat
  <2>1. CASE codes = {} BY <2>1
  <2>2. CASE codes # {}
    <3>1. Max(codes) \in 0..126 BY <1>1, <2>2, GreatestExists
    <3>2. Max(codes) \div 8 \in Nat BY <3>1
    <3> QED BY <2>2, <3>2
  <2> QED BY <2>1, <2>2
<1> HIDE DEF size
<1>4. DOMAIN bits = 1..size /\ bits = [i \in 1..size |-> bits[i]] OBVIOUS
<1> HIDE DEF bits
<1>5. \A i \in 1..size : bits[i] \in Range(bits) BY <1>4 DEF Range
<1>6. bits \in [1..size -> Range(bits)] BY <1>4, <1>5
<1>7. IsBuffer(bits) /\ Len(bits) = size BY <1>3, <1>6 DEF IsBuffer
<1>8. IsBuffer(<<size>>) /\ Len(<<size>>) = 1 /\ <<size>>[1] = size BY BufferOf1
<1>9. PICK map : map = <<size>> \o bits OBVIOUS
<1>10. /\ IsBuffer(map) /\ Len(map) = 1 + size /\ map[1] = size
  <2>1. /\ IsBuffer(map) /\ Len(map) = Len(<<size>>) + Len(bits)
        /\ Agree(<<size>>, map, Len(<<size>>))
    BY <1>7, <1>8, <1>9, BufferCat
  <2>2. 1 \in 1..Len(<<size>>) BY <1>8
  <2> QED BY <2>1, <2>2, <1>7, <1>8 DEF Agree
<1>11. f = <<v>> \o map BY <1>2, <1>9
<1>12. IsBuffer(<<v>>) /\ Len(<<v>>) = 1 /\ <<v>>[1] = v BY BufferOf1
<1> HIDE DEF f
<1>13. IsBuffer(f) /\ Len(f) = 2 + size /\ f[1] = v /\ f[2] = size
  <2>1. /\ IsBuffer(f) /\ Len(f) = Len(<<v>>) + Len(map)
        /\ Agree(<<v>>, f, Len(<<v>>))
        /\ \A i \in 1..Len(map) : f[Len(<<v>>) + i] = map[i]
    <3>1. PICK one : one = <<v>> OBVIOUS
    <3>2. /\ IsBuffer(f) /\ Len(f) = Len(one) + Len(map)
          /\ Agree(one, f, Len(one))
          /\ \A i \in 1..Len(map) : f[Len(one) + i] = map[i]
      <4>1. IsBuffer(one) /\ f = one \o map BY <3>1, <1>11, <1>12
      <4> QED BY <4>1, <1>10, BufferCat
    <3> QED BY <3>1, <3>2
  <2>2. 1 \in 1..Len(<<v>>) /\ 1 \in 1..Len(map) BY <1>3, <1>10, <1>12
  <2>3. f[1] = v BY <2>1, <2>2, <1>12 DEF Agree
  <2>4. f[Len(<<v>>) + 1] = map[1] BY <2>1, <2>2
  <2>5. Len(<<v>>) + 1 = 2 /\ Len(<<v>>) + Len(map) = 2 + size BY <1>3, <1>10, <1>12
  <2> QED BY <2>1, <2>3, <2>4, <2>5, <1>10
<1>14. v \notin PlainOps BY OpKinds
<1>15. f[1 + 1] = size BY <1>13
<1>16. Size(f, 1) = Len(f) /\ Args(f, 1, G) /\ f[1] \in StraightOps
  BY <1>3, <1>13, <1>14, <1>15 DEF Size, Args, StraightOps
<1>17. Straight(f, G) BY <1>13, <1>16 DEF Straight
<1> QED BY <1>17 DEF f

LEMMA ReadingCoded ==
  ASSUME NEW s, NEW t, Coded(s), t.state = "bracket",
         t.buf = s.buf, t.stack = s.stack, t.begalt = s.begalt, t.fixup = s.fixup,
         t.laststart = s.laststart, t.regnum = s.regnum
  PROVE  CodeHolds(t)
<1>1. Coded(t) BY CodedHere DEF SameLevel
<1> QED BY <1>1 DEF CodeHolds

LEMMA MoreCharsCode ==
  ASSUME NEW s, NEW i, NEW chars, Placed(s), Coded(s), s.state = "bracket", BracketHolds(s)
  PROVE  LET t == MoreChars(s, i, chars)
         IN  CodeHolds(t) /\ \A x : CodeHolds([t EXCEPT !.bracket.class = x])
<1> DEFINE t == MoreChars(s, i, chars)
           new == [s.bracket EXCEPT !.chars = @ \cup chars]
<1>1. DOMAIN s = CompFields BY DEF Placed, Shape
<1>4. t = [s EXCEPT !.p = i, !.bracket = new] BY DEF MoreChars
<1> HIDE DEF t, new
<1>5. /\ DOMAIN t = CompFields /\ t.state = "bracket" /\ t.buf = s.buf
      /\ t.stack = s.stack /\ t.begalt = s.begalt /\ t.fixup = s.fixup
      /\ t.laststart = s.laststart /\ t.regnum = s.regnum /\ t.bracket = new
  BY <1>1, <1>4 DEF CompFields
<1>6. CodeHolds(t) BY <1>5, ReadingCoded
<1>8. ASSUME NEW x PROVE CodeHolds([t EXCEPT !.bracket.class = x])
  <2> DEFINE u == [t EXCEPT !.bracket.class = x]
             newer == [new EXCEPT !.class = x]
  <2>2. u = [t EXCEPT !.bracket = newer] BY <1>5
  <2> HIDE DEF u, newer
  <2>3. /\ u.state = "bracket" /\ u.buf = s.buf
        /\ u.stack = s.stack /\ u.begalt = s.begalt /\ u.fixup = s.fixup
        /\ u.laststart = s.laststart /\ u.regnum = s.regnum
    BY <1>5, <2>2 DEF CompFields
  <2>4. CodeHolds(u) BY <2>3, ReadingCoded
  <2> QED BY <2>4 DEF u
<1> QED BY <1>6, <1>8 DEF t

LEMMA RangeCode ==
  ASSUME NEW s, Placed(s), Coded(s), s.state = "bracket", BracketHolds(s)
  PROVE  CodeHolds(CompileRange(s))
<1> DEFINE chars == CharsFrom(At(s.p - 2), At(s.p))
<1>2. \/ CompileRange(s) = Return(s, "REG_ERANGE")
      \/ CompileRange(s) = MoreChars(s, s.p + 1, chars)
  BY DEF CompileRange, MoreChars
<1> HIDE DEF chars
<1> QED BY <1>2, ReturnCode, MoreCharsCode

LEMMA BracketItemCode ==
  ASSUME Sound(comp), BracketHolds(comp), CodeHolds(comp), BracketItem
  PROVE  CodeHolds(comp')
<1> DEFINE c    == At(comp.p)
           next == At(comp.p + 1)
           s    == Fetched
           s2   == [s EXCEPT !.p = @ + 1]
           t    == comp'
           byte == IF comp.bracket.hat THEN Op.charset_not ELSE Op.charset
           code == <<byte>> \o Bitmap(comp.bracket.chars)
           end  == [Push(s, code) EXCEPT !.state = "loop", !.bracket = <<>>]
           class == [MoreChars(s, s.p, CharClass[c]) EXCEPT !.bracket.class = TRUE]
           char == [MoreChars(s, s.p, {c}) EXCEPT !.bracket.class = FALSE]
<1>1. comp.state = "bracket" /\ Coded(comp) BY DEF BracketItem, CodeHolds
<1>2. Placed(comp) /\ DOMAIN comp = CompFields BY DEF Sound, Placed, Shape
<1>4. /\ Placed(s) /\ DOMAIN s = CompFields /\ s.state = "bracket" /\ s.bracket = comp.bracket
      /\ Coded(s)
  <2>1. Placed(s) /\ DOMAIN s = CompFields /\ s.state = "bracket" BY <1>1, <1>2, FetchedPlaced
  <2>2. s.bracket = comp.bracket BY <1>2 DEF Fetched, CompFields
  <2>3. Coded(s) BY <1>1, <1>2, FetchedCoded
  <2> QED BY <2>1, <2>2, <2>3
<1>5. \/ t \in {Return(comp, "REG_EBRACK"), Return(s, "REG_ERANGE")}
      \/ t = end
      \/ t = class
      \/ t = CompileRange(s) \/ t = CompileRange(s2)
      \/ t = char
  <2>1. CASE c = "NUL"
    <3>1. t = Return(comp, "REG_EBRACK") BY <2>1 DEF BracketItem
    <3> QED BY <3>1
  <2>2. CASE c # "NUL" /\ c = "]" /\ comp.p # comp.bracket.p1
    <3>1. t = end BY <2>2 DEF BracketItem
    <3> QED BY <3>1
  <2>3. CASE c # "NUL" /\ ~(c = "]" /\ comp.p # comp.bracket.p1)
    <3>1. \/ t = Return(s, "REG_ERANGE")
          \/ t = [s EXCEPT !.bracket.chars = @ \cup CharClass[c], !.bracket.class = TRUE]
          \/ t = CompileRange(s) \/ t = CompileRange(s2)
          \/ t = [s EXCEPT !.bracket.chars = @ \cup {c}, !.bracket.class = FALSE]
      BY <2>3 DEF BracketItem
    <3>2. [s EXCEPT !.bracket.chars = @ \cup CharClass[c], !.bracket.class = TRUE] = class
      BY DEF MoreChars
    <3>3. [s EXCEPT !.bracket.chars = @ \cup {c}, !.bracket.class = FALSE] = char
      BY DEF MoreChars
    <3> HIDE DEF class, char, s2
    <3> QED BY <2>3, <3>1, <3>2, <3>3
  <2> QED BY <2>1, <2>2, <2>3
<1>6. BracketHolds(s) BY <1>1, <1>4 DEF BracketHolds
<1> HIDE DEF s
<1>7. ASSUME t \in {Return(comp, "REG_EBRACK"), Return(s, "REG_ERANGE")} PROVE CodeHolds(t)
  <2>1. CodeHolds(Return(comp, "REG_EBRACK")) BY <1>2, ReturnCode
  <2>2. CodeHolds(Return(s, "REG_ERANGE")) BY <1>4, ReturnCode
  <2> QED BY <1>7, <2>1, <2>2
<1>8. ASSUME t = end PROVE CodeHolds(t)
  <2>1. Straight(code, s.regnum)
    <3>1. comp.bracket.chars \subseteq Range(ASCII) BY <1>1 DEF BracketHolds
    <3>2. byte \in CountedOps BY DEF CountedOps
    <3> HIDE DEF byte
    <3> QED BY <3>1, <3>2, BitmapBytes
  <2> HIDE DEF code, t
  <2>2. /\ t.buf = s.buf \o code /\ t.stack = s.stack /\ t.begalt = s.begalt
        /\ t.fixup = s.fixup /\ t.regnum = s.regnum /\ t.laststart = s.laststart
        /\ t.state = "loop"
    BY <1>4, <1>8 DEF Push, CompFields
  <2>3. s.regnum \in Nat /\ s.regnum <= s.regnum BY <1>4 DEF Placed, Shape
  <2>4. Coded(t) BY <1>4, <2>1, <2>2, <2>3, PushedCoded DEF SameLevel
  <2> QED BY <2>2, <2>4, CodedSays
<1>9. CodeHolds(class) /\ CodeHolds(char) BY <1>4, <1>6, MoreCharsCode
<1>10. CodeHolds(CompileRange(s)) BY <1>4, <1>6, RangeCode
<1>11. CodeHolds(CompileRange(s2))
  <2>1. s2 = Ahead(s, s.p + 1) BY DEF Ahead
  <2>2. s2.bracket = s.bracket BY <1>4 DEF CompFields
  <2> HIDE DEF s2
  <2>3. Placed(s2) /\ s2.state = "bracket" /\ Coded(s2) BY <1>4, <2>1, AheadPlaced, AheadCoded
  <2>4. BracketHolds(s2) BY <1>4, <1>6, <2>2, <2>3 DEF BracketHolds
  <2> QED BY <2>3, <2>4, RangeCode
<1> HIDE DEF t, class, char
<1>13. CodeHolds(t) BY <1>5, <1>7, <1>8, <1>9, <1>10, <1>11
<1> QED BY <1>13 DEF t

\* The characters of a number stand for what it is made of.
LEMMA DigitValue ==
  ASSUME NEW c \in Digits \ {"0"}
  PROVE  Ord[c] - Ord["0"] \in Nat /\ 1 <= Ord[c] - Ord["0"]
<1>1. DOMAIN ASCII = 1..95 BY CharactersAreCounted
<1>2. c \in Range(ASCII) /\ Ord["0"] <= Ord[c] /\ c # "0" BY DEF Digits, CharsFrom
<1>3. "0" \in Range(ASCII)
  <2>1. ASCII[17] = "0" BY DEF ASCII
  <2> QED BY <2>1, <1>1 DEF Range
<1> DEFINE n(x) == CHOOSE i \in DOMAIN ASCII : ASCII[i] = x
<1>4. \A x \in Range(ASCII) : n(x) \in DOMAIN ASCII /\ ASCII[n(x)] = x /\ Ord[x] = 31 + n(x)
  <2> SUFFICES ASSUME NEW x \in Range(ASCII)
               PROVE  n(x) \in DOMAIN ASCII /\ ASCII[n(x)] = x /\ Ord[x] = 31 + n(x)
    OBVIOUS
  <2>1. \E i \in DOMAIN ASCII : ASCII[i] = x BY DEF Range
  <2>2. Ord[x] = 31 + n(x) BY DEF Ord
  <2> QED BY <2>1, <2>2
<1> HIDE DEF n
<1>5. n(c) # n("0") /\ n(c) \in 1..95 /\ n("0") \in 1..95 BY <1>1, <1>2, <1>3, <1>4
<1>6. Ord[c] = 31 + n(c) /\ Ord["0"] = 31 + n("0") BY <1>2, <1>3, <1>4
<1> QED BY <1>2, <1>5, <1>6

LEMMA BackslashCode == Sound(comp) /\ CodeHolds(comp) /\ Backslash => CodeHolds(comp')
<1> SUFFICES ASSUME Sound(comp), CodeHolds(comp), Backslash PROVE CodeHolds(comp') OBVIOUS
<1> DEFINE c   == At(comp.p + 1)
           s   == [comp EXCEPT !.p = @ + 2]
           reg == Ord[c] - Ord["0"]
           t   == comp'
           one == <<Escaped[c]>>
           two == <<Op.duplicate, reg>>
           own  == DOMAIN Escaped \ {"w", "W"}
           end  == Return(Fetched, "REG_EESCAPE")
           bad  == Return(s, "REG_ESUBREG")
           word == [Push(s, one) EXCEPT !.laststart = b(s)]
           op   == Push(s, one)
           old  == [Push(s, two) EXCEPT !.laststart = b(s)]
           char == NormalChar(s, c)
           ref  == IF reg > comp.regnum THEN bad
                   ELSE IF GroupInCompileStack(comp.stack, reg) THEN char ELSE old
<1>1. comp.state = "loop" /\ Placed(comp) /\ Coded(comp)
  BY DEF Backslash, Fetch, Sound, CodeHolds
<1>2. Placed(s) /\ s.state = "loop" /\ Coded(s) /\ s.regnum = comp.regnum
  <2>1. s = Ahead(comp, comp.p + 2) BY DEF Ahead
  <2> HIDE DEF s
  <2> QED BY <1>1, <2>1, AheadPlaced, AheadCoded
<1>3. t = CASE c = "NUL" -> end [] c \in {"w", "W"} -> word [] c \in own -> op
            [] c \in Digits \ {"0"} -> ref [] OTHER -> char
  BY Zenon DEF Backslash
<1>4. \/ t = end \/ t = bad \/ t = char
      \/ c \in DOMAIN Escaped /\ (t = word \/ t = op)
      \/ c \in Digits \ {"0"} /\ ~(reg > comp.regnum) /\ t = old
  <2>0. (c \in {"w", "W"} => c \in DOMAIN Escaped) /\ (c \in own => c \in DOMAIN Escaped)
    BY DEF Escaped
  <2>1. ref = bad \/ ref = char \/ (~(reg > comp.regnum) /\ ref = old)
    <3> HIDE DEF bad, char, old, reg
    <3> QED OBVIOUS
  <2> HIDE DEF own, end, bad, word, op, old, char, c, t, ref, reg
  <2>2. \/ t = end
        \/ c \in {"w", "W"} /\ t = word
        \/ c \in own /\ t = op
        \/ c \in Digits \ {"0"} /\ t = ref
        \/ t = char
    BY <1>3
  <2> QED BY <2>0, <2>1, <2>2
<1> HIDE DEF s
<1>5. CodeHolds(end) BY <1>1, FetchedPlaced, ReturnCode
<1>6. CodeHolds(bad) BY <1>2, ReturnCode
<1>7. CodeHolds(char)
  <2>1. Coded(char) /\ char.state = "loop" BY <1>2, NormalCharCoded, NormalCharSound
  <2> HIDE DEF char
  <2> QED BY <2>1, CodedSays
<1>8. c \in DOMAIN Escaped => CodeHolds(word) /\ CodeHolds(op)
  <2> SUFFICES ASSUME c \in DOMAIN Escaped PROVE CodeHolds(word) /\ CodeHolds(op) OBVIOUS
  <2>1. Escaped[c] \in PlainOps BY DEF Escaped, PlainOps
  <2>2. Straight(one, s.regnum) BY <2>1, PlainBytes
  <2>3. IsBuffer(one) /\ Len(one) # 0 BY BufferOf1
  <2> HIDE DEF one
  <2>4. Coded(word) /\ word.state = "loop" /\ Coded(op) /\ op.state = "loop"
    BY <1>2, <2>2, <2>3, OpCoded, OpSound
  <2> HIDE DEF word, op
  <2> QED BY <2>4, CodedSays
<1>9. c \in Digits \ {"0"} /\ ~(reg > comp.regnum) => CodeHolds(old)
  <2> SUFFICES ASSUME c \in Digits \ {"0"}, ~(reg > comp.regnum) PROVE CodeHolds(old) OBVIOUS
  <2>1. s.regnum \in Nat BY <1>2 DEF Placed, Shape
  <2>2. reg \in Nat /\ 1 <= reg BY DigitValue
  <2> HIDE DEF reg
  <2>3. reg \in 1..s.regnum BY <1>2, <2>1, <2>2
  <2>4. Straight(two, s.regnum) BY <2>3, ReferenceBytes
  <2>5. IsBuffer(two) /\ Len(two) # 0 BY BufferOf2
  <2> HIDE DEF two
  <2>6. Coded(old) /\ old.state = "loop" BY <1>2, <2>4, <2>5, OpCoded, OpSound
  <2> HIDE DEF old
  <2> QED BY <2>6, CodedSays
<1> HIDE DEF end, bad, word, op, old, char, t, reg
<1>10. CodeHolds(t) BY <1>4, <1>5, <1>6, <1>7, <1>8, <1>9
<1> QED BY <1>10 DEF t

-----------------------------------------------------------------------------
(***************************************************************************)
(* Repetitions, intervals and alternatives, which insert into the code.    *)
(***************************************************************************)

Cat(f, g) == f \o g

LEMMA CatThree ==
  ASSUME NEW T
  PROVE  \A f, g, h \in Seq(T) : Cat(f, g) \in Seq(T) /\ Cat(Cat(f, g), h) = Cat(f, Cat(g, h))
<1>1. \A f, g, h \in Seq(T) : (f \o g) \o h = f \o (g \o h) BY ConcatAssociative
<1>2. \A f, g \in Seq(T) : f \o g \in Seq(T) BY ConcatProperties
<1> QED BY <1>1, <1>2 DEF Cat

LEMMA CatAssociative ==
  ASSUME NEW f, NEW g, NEW h, NEW k, IsBuffer(f), IsBuffer(g), IsBuffer(h), IsBuffer(k)
  PROVE  Cat(Cat(Cat(f, g), h), k) = Cat(f, Cat(Cat(g, h), k))
<1> DEFINE T == Range(f) \cup Range(g) \cup Range(h) \cup Range(k)
<1>1. f \in Seq(T) /\ g \in Seq(T) /\ h \in Seq(T) /\ k \in Seq(T)
  BY Wider DEF IsBuffer
<1> HIDE DEF T
<1>2. Cat(Cat(f, g), h) = Cat(f, Cat(g, h)) /\ Cat(g, h) \in Seq(T) BY <1>1, CatThree
<1>3. Cat(Cat(f, Cat(g, h)), k) = Cat(f, Cat(Cat(g, h), k)) BY <1>1, <1>2, CatThree
<1> QED BY <1>2, <1>3

LEMMA OpensLast ==
  ASSUME NEW s, Placed(s), Coded(s), NEW x \in Nat, s.begalt <= x,
         x \in Barriers(s) \cup {b(s)}
  PROVE  \E S, L : Opens(s.buf, S, L, Places(s), StackBarriers(s) \cup {s.begalt, x}, s.regnum, x)
<1>1. Ordered(s) /\ s.begalt \in Nat BY PlacedIsOrdered, FirstAddress
<1>2. /\ \A p \in Places(s) : p + 3 <= x
      /\ \A y \in StackBarriers(s) \cup {s.begalt} : y <= x /\ y \in Barriers(s)
  BY <1>1, Remembered
<1>3. PICK S, L : Code(s.buf, S, L, Places(s), Barriers(s), s.regnum) BY DEF Coded, CodeOf
<1>4. Barrier(s.buf, S, L, Places(s), x)
  <2>1. CASE x = b(s) BY <2>1, <1>3, EndIsBarrier DEF b
  <2>2. CASE x # b(s) BY <2>2, <1>3 DEF Code
  <2> QED BY <2>1, <2>2
<1> DEFINE B2 == StackBarriers(s) \cup {s.begalt, x}
<1>5. \A y \in B2 : y <= x
  <2>1. x <= x OBVIOUS
  <2> QED BY <2>1, <1>2
<1>6. \A y \in B2 : Barrier(s.buf, S, L, Places(s), y) BY <1>2, <1>3, <1>4 DEF Code
<1> HIDE DEF B2
<1>7. Code(s.buf, S, L, Places(s), B2, s.regnum) BY <1>3, <1>6 DEF Code
<1>8. Opens(s.buf, S, L, Places(s), B2, s.regnum, x) BY <1>2, <1>4, <1>5, <1>7 DEF Opens
<1> QED BY <1>8 DEF B2

LEMMA RepeatedCoded ==
  ASSUME NEW s, NEW t, SameLevel(s, t), NEW x, NEW B,
         StackBarriers(s) \cup {s.begalt, x} \subseteq B, t.laststart = x,
         t.regnum = s.regnum, \E S, L : Code(t.buf, S, L, Places(s), B, s.regnum)
  PROVE  Coded(t)
<1>1. \E S, L : Code(t.buf, S, L, Places(s), B, t.regnum) OBVIOUS
<1> QED BY <1>1, CodedAs

\* The code of a repetition that is entered or skipped, of one that comes
\* back, and of one that is entered without a choice.
LEMMA LoopedCode ==
  ASSUME NEW f, NEW S, NEW L, NEW P, NEW B, NEW G, NEW x, Opens(f, S, L, P, B, G, x),
         NEW h, NEW both,
         (h = f /\ ~both) \/ h = f \o OpCode("maybe_pop_jump", x - 3 - (Len(f) + 1) - 3),
         NEW g, g = Looped(h, x, Len(h) + 1 + 3, x + 6, both), Short(g)
  PROVE  \E S2, L2 : Code(g, S2, L2, P, B \cup {Len(g) + 1}, G)
<1>1. /\ IsBuffer(f) /\ Len(f) \in Nat /\ x \in Nat /\ 1 <= x /\ x <= Len(f) + 1
  BY OpensAt
<1>2. CASE h = f /\ ~both
  <2>2. g = InsertJump(f, "on_failure_jump", x, Len(f) + 1 + 3) BY <1>2 DEF Looped
  <2> QED BY <2>2, OptionalCode
<1>3. CASE h = f \o OpCode("maybe_pop_jump", x - 3 - (Len(f) + 1) - 3)
  <2> DEFINE n == x - 3 - (Len(f) + 1) - 3  e == InsertJump(h, "on_failure_jump", x, Len(h) + 1 + 3)
             k == InsertJump(e, "dummy_failure_jump", x, x + 6)
  <2>1. h = f \o OpCode("maybe_pop_jump", n) BY <1>3
  <2>2. /\ Moved(f, h, Len(f) + 1, 3) /\ HasJump(h, Len(f) + 1, Op.maybe_pop_jump, n)
    <3> HIDE DEF n
    <3> QED BY <1>1, <2>1, PushedJump
  <2>3. IsBuffer(h) /\ Len(h) = Len(f) + 3 BY <2>2 DEF Moved
  <2>4. Moved(h, e, x, 3) /\ HasJump(e, x, Op.on_failure_jump, Len(h) + 1 + 3 - x - 3)
    <3>1. x <= Len(h) + 1 BY <1>1, <2>3
    <3>2. PICK to : to = Len(h) + 1 + 3 OBVIOUS
    <3>3. e = InsertJump(h, "on_failure_jump", x, to) /\ to - x - 3 = Len(h) + 1 + 3 - x - 3
      <4>1. e = InsertJump(h, "on_failure_jump", x, to) BY <3>2
      <4>2. PICK k1 : k1 = Len(h) OBVIOUS
      <4>3. k1 \in Nat BY <1>1, <2>3, <4>2
      <4>5. to = k1 + 1 + 3 BY <4>2, <3>2
      <4>6. to = k1 + 4 /\ to \in Nat BY <4>3, <4>5
      <4>7. x \in Nat BY <1>1
      <4> HIDE DEF e
      <4>4. to - x - 3 = k1 + 1 + 3 - x - 3 BY <4>3, <4>6, <4>7
      <4> QED BY <4>1, <4>2, <4>4
    <3> HIDE DEF e
    <3>4. Moved(h, e, x, 3) /\ HasJump(e, x, Op.on_failure_jump, to - x - 3)
      BY <1>1, <2>3, <3>1, <3>3, InsertJumpMoves
    <3> QED BY <3>3, <3>4
  <2>5. Len(h) + 1 + 3 - x - 3 = Len(f) + 7 - x - 3
    <3>1. PICK k1, k2 : k1 = Len(h) /\ k2 = Len(f) OBVIOUS
    <3>2. k1 = k2 + 3 /\ k2 \in Nat BY <1>1, <2>3, <3>1
    <3>3. k1 + 1 + 3 - x - 3 = k2 + 7 - x - 3 BY <1>1, <3>2
    <3> QED BY <3>1, <3>3
  <2>6. Loops(f, h, e, x)
    <3> HIDE DEF e
    <3>1. HasJump(e, x, Op.on_failure_jump, Len(f) + 7 - x - 3) BY <2>4, <2>5
    <3> QED BY <2>2, <2>4, <3>1 DEF Loops
  <2>7. CASE ~both
    <3>1. g = e BY <2>7 DEF Looped
    <3> HIDE DEF e
    <3>2. Loops(f, h, g, x) BY <2>6, <3>1
    <3> QED BY <3>2, LoopCode
  <2>8. CASE both
    <3>1. g = k BY <2>8 DEF Looped
    <3>2. IsBuffer(e) /\ x <= Len(e) + 1 /\ x + 6 - x - 3 = 3
      <4>1. IsBuffer(e) /\ Len(e) = Len(h) + 3 BY <2>4 DEF Moved
      <4> QED BY <4>1, <1>1, <2>3
    <3>3. PICK to : to = x + 6 OBVIOUS
    <3>4. k = InsertJump(e, "dummy_failure_jump", x, to) /\ to - x - 3 = 3 BY <1>1, <3>3
    <3> HIDE DEF k, e
    <3>5. Moved(e, k, x, 3) /\ HasJump(k, x, Op.dummy_failure_jump, to - x - 3)
      BY <1>1, <3>2, <3>4, InsertJumpMoves
    <3>6. Enters(e, g, x) BY <3>1, <3>4, <3>5 DEF Enters
    <3> QED BY <2>6, <3>6, OnceLoopCode
  <2> QED BY <2>7, <2>8
<1> QED BY <1>2, <1>3

LEMMA RepetitionCode ==
  Sound(comp) /\ CodeHolds(comp) /\ Repetition /\ Short(comp'.buf) => CodeHolds(comp')
<1> SUFFICES ASSUME Sound(comp), CodeHolds(comp), Repetition, Short(comp'.buf)
             PROVE  CodeHolds(comp')
  OBVIOUS
<1> DEFINE end   == Min({i \in comp.p..(Len(pattern) + 1) : At(i) \notin {"*", "+", "?"}})
           ops   == {pattern[i] : i \in comp.p..(end - 1)}
           start == comp.laststart
           s     == [comp EXCEPT !.p = end]
           code  == <<Op.maybe_pop_jump>> \o Bytes(start - 3 - b(s) - 3)
           back  == IF ops # {"?"} THEN Push(s, code) ELSE s
           loop  == [back EXCEPT !.buf = InsertJump(@, "on_failure_jump", start, b(back) + 3),
                                 !.pending = 0]
           both  == [loop EXCEPT !.buf = InsertJump(@, "dummy_failure_jump",
                                                        start, start + 6)]
           t == comp'
<1>1. comp' = IF start = 0 THEN s ELSE IF ops # {"+"} THEN loop ELSE both
  BY DEF Repetition
<1>2. comp.state = "loop" BY DEF Repetition, Fetch
<1>3. Placed(comp) /\ Coded(comp) BY <1>2 DEF Sound, CodeHolds
<1>4. /\ Placed(s) /\ DOMAIN s = CompFields /\ s.buf = comp.buf /\ s.stack = comp.stack
      /\ s.begalt = comp.begalt /\ s.fixup = comp.fixup /\ s.laststart = start
      /\ s.regnum = comp.regnum /\ s.state = "loop" /\ Coded(s)
  <2>1. s = Ahead(comp, end) BY DEF Ahead
  <2> HIDE DEF end, s
  <2> QED BY <2>1, <1>2, <1>3, AheadPlaced, AheadCoded
<1>5. CASE start = 0
  <2>1. t = s BY <1>1, <1>5
  <2> HIDE DEF s, t
  <2>2. CodeHolds(t) BY <1>4, <2>1, CodedSays
  <2> QED BY <2>2 DEF t
<1>6. CASE start # 0
  <2>1. /\ start \in Nat /\ s.begalt <= start /\ start \in Barriers(s)
    BY <1>4, <1>6 DEF Placed, Shape, LastHolds, Barriers
  <2>2. PICK again, plus : again = (ops # {"?"}) /\ plus = (ops = {"+"}) OBVIOUS
  <2>3. again \in BOOLEAN /\ plus \in BOOLEAN /\ (plus => again) BY <2>2
  <2>4. code = OpCode("maybe_pop_jump", start - 3 - b(s) - 3) BY DEF OpCode
  <2> HIDE DEF end, ops, s, code, start
  <2>5. back = IF again THEN Push(s, code) ELSE s BY <2>2
  <2>6. /\ DOMAIN back = CompFields /\ back.stack = s.stack /\ back.begalt = s.begalt
        /\ back.fixup = s.fixup /\ back.laststart = start /\ back.regnum = s.regnum
        /\ back.state = "loop"
        /\ back.buf = IF again THEN s.buf \o code ELSE s.buf
    <3>1. CASE again
      <4>1. back = Push(s, code) BY <2>5, <3>1
      <4> HIDE DEF back
      <4> QED BY <1>4, <3>1, <4>1 DEF Push, CompFields
    <3>2. CASE ~again
      <4>1. back = s BY <2>5, <3>2
      <4> HIDE DEF back
      <4> QED BY <1>4, <3>2, <4>1
    <3> QED BY <3>1, <3>2
  <2> HIDE DEF back
  <2>7. /\ DOMAIN loop = CompFields /\ loop.stack = s.stack /\ loop.begalt = s.begalt
        /\ loop.fixup = s.fixup /\ loop.laststart = start /\ loop.regnum = s.regnum
        /\ loop.state = "loop"
        /\ loop.buf = InsertJump(back.buf, "on_failure_jump", start, b(back) + 3)
    BY <2>6 DEF CompFields
  <2>8. /\ both.stack = s.stack /\ both.begalt = s.begalt
        /\ both.fixup = s.fixup /\ both.laststart = start /\ both.regnum = s.regnum
        /\ both.state = "loop"
        /\ both.buf = InsertJump(loop.buf, "dummy_failure_jump", start, start + 6)
    <3> HIDE DEF loop
    <3> QED BY <2>7 DEF CompFields
  <2>9. t = IF plus THEN both ELSE loop BY <1>1, <1>6, <2>2
  <2> HIDE DEF loop, both, t
  <2>10. PICK f, x, h, g : f = s.buf /\ x = start /\ h = back.buf /\ g = t.buf OBVIOUS
  <2>11. /\ SameLevel(s, t) /\ t.regnum = s.regnum /\ t.laststart = x /\ t.state = "loop"
    BY <2>7, <2>8, <2>9, <2>10 DEF SameLevel
  <2>12. (h = f /\ ~plus) \/ h = f \o OpCode("maybe_pop_jump", x - 3 - (Len(f) + 1) - 3)
    <3>1. CASE again BY <3>1, <2>4, <2>6, <2>10 DEF b
    <3>2. CASE ~again BY <3>2, <2>3, <2>6, <2>10
    <3> QED BY <3>1, <3>2
  <2>13. g = Looped(h, x, Len(h) + 1 + 3, x + 6, plus)
    <3>1. b(back) + 3 = Len(h) + 1 + 3 BY <2>10 DEF b
    <3>2. CASE plus
      <4>1. g = both.buf BY <2>9, <2>10, <3>2
      <4> QED BY <3>1, <3>2, <4>1, <2>7, <2>8, <2>10 DEF Looped
    <3>3. CASE ~plus
      <4>1. g = loop.buf BY <2>9, <2>10, <3>3
      <4> QED BY <3>1, <3>3, <4>1, <2>7, <2>10 DEF Looped
    <3> QED BY <3>2, <3>3, <2>3
  <2>14. Short(g) BY <2>10 DEF t
  <2> DEFINE B == StackBarriers(s) \cup {s.begalt, x}
  <2>15. PICK S, L : Opens(f, S, L, Places(s), B, s.regnum, x)
    BY <1>4, <2>1, <2>10, OpensLast
  <2> HIDE DEF B
  <2>16. \E S2, L2 : Code(g, S2, L2, Places(s), B \cup {Len(g) + 1}, s.regnum)
    BY <2>12, <2>13, <2>14, <2>15, LoopedCode
  <2>17. \E S2, L2 : Code(t.buf, S2, L2, Places(s), B \cup {Len(g) + 1}, s.regnum)
    BY <2>10, <2>16
  <2>18. StackBarriers(s) \cup {s.begalt, x} \subseteq B \cup {Len(g) + 1} BY DEF B
  <2>19. Coded(t) BY <2>11, <2>17, <2>18, RepeatedCoded
  <2>20. CodeHolds(t) BY <2>11, <2>19, CodedSays
  <2> QED BY <2>20 DEF t
<1> QED BY <1>5, <1>6

LEMMA IntervalCodes ==
  ASSUME NEW f, NEW S, NEW L, NEW P, NEW B, NEW G, NEW x, Opens(f, S, L, P, B, G, x),
         NEW low, NEW high, NEW g, g = IntervalCode(f, x, low, high), Short(g)
  PROVE  \E S2, L2 : Code(g, S2, L2, P, B \cup {Len(g) + 1}, G)
<1>1. /\ IsBuffer(f) /\ x \in Nat /\ 1 <= x /\ x <= Len(f) + 1 /\ Len(f) \in Nat
  BY OpensAt
<1> DEFINE many == high > 1
           to1 == Len(f) + 1 + 5 + (IF many THEN 5 ELSE 0)
           h == InsertOp2(f, x, "succeed_n", to1 - x - 3, low)
           e == InsertOp2(h, x, "set_number_at", 5, low)
           n == x + 5 - (Len(e) + 1) - 3
           c == e \o <<Op.jump_n>> \o Bytes(n) \o Bytes(high - 1)
           last == InsertOp2(c, x, "set_number_at", Len(c) + 1 - x, high - 1)
<1>2. g = IF high = 0 THEN InsertJump(f, "jump", x, Len(f) + 1 + 3)
          ELSE IF many THEN last ELSE e
  BY DEF IntervalCode, InsertJump2
<1>3. CASE high = 0
  <2>1. PICK to : to = Len(f) + 1 + 3 OBVIOUS
  <2>2. to = Len(f) + 4 /\ to \in Nat /\ Len(f) + 1 - x = to - x - 3
    BY <1>1, <2>1
  <2>3. g = InsertJump(f, "jump", x, to) BY <1>2, <1>3, <2>1
  <2>4. Moved(f, g, x, 3) /\ HasJump(g, x, Op.jump, to - x - 3)
    BY <1>1, <2>3, InsertJumpMoves
  <2>5. Skips(f, g, x) BY <2>2, <2>4 DEF Skips
  <2> QED BY <2>5, SkipCode
<1>4. CASE high # 0
  <2>1. PICK q : q = to1 - x - 3 OBVIOUS
  <2>2. /\ many => q = Len(f) + 8 - x
        /\ ~many => q = Len(f) + 3 - x
    <3> DEFINE k == Len(f)
    <3>1. k \in Nat /\ x \in Nat BY <1>1
    <3>2. q = (k + 1 + 5 + (IF many THEN 5 ELSE 0)) - x - 3 BY <2>1
    <3> HIDE DEF k, many
    <3>3. many => q = (k + 1 + 5 + 5) - x - 3 BY <3>2
    <3>4. ~many => q = (k + 1 + 5 + 0) - x - 3 BY <3>2
    <3>5. /\ many => q = k + 8 - x
          /\ ~many => q = k + 3 - x
      BY <3>1, <3>3, <3>4
    <3> QED BY <3>5 DEF k
  <2>3. h = InsertOp2(f, x, "succeed_n", q, low) BY <2>1
  <2> HIDE DEF h, to1
  <2>4. Moved(f, h, x, 5) /\ HasJump(h, x, Op.succeed_n, q)
    BY <1>1, <2>3, InsertOp2Moves
  <2>5. IsBuffer(h) /\ Len(h) = Len(f) + 5 BY <2>4 DEF Moved
  <2>6. Moved(h, e, x, 5) /\ HasJump(e, x, Op.set_number_at, 5)
    <3>1. x <= Len(h) + 1 BY <1>1, <2>5
    <3>2. PICK five : five = 5 OBVIOUS
    <3>3. e = InsertOp2(h, x, "set_number_at", five, low) BY <3>2
    <3> HIDE DEF e
    <3>4. Moved(h, e, x, 5) /\ HasJump(e, x, Op.set_number_at, five)
      BY <1>1, <2>5, <3>1, <3>3, InsertOp2Moves
    <3> QED BY <3>2, <3>4
  <2>7. IsBuffer(e) /\ Len(e) = Len(h) + 5 BY <2>6 DEF Moved
  <2> HIDE DEF e
  <2>8. CASE ~many
    <3>1. g = e BY <1>2, <1>4, <2>8
    <3>2. HasJump(h, x, Op.succeed_n, Len(f) + 3 - x) BY <2>2, <2>4, <2>8
    <3>3. Once(f, h, g, x) BY <2>4, <2>6, <3>1, <3>2 DEF Once
    <3> QED BY <3>3, OnceCode
  <2>9. CASE many
    <3>1. g = last BY <1>2, <1>4, <2>9
    <3>2. c = e \o OpCode2("jump_n", n, high - 1)
      <4>1. OpCode2("jump_n", n, high - 1) = <<Op.jump_n>> \o Bytes(n) \o Bytes(high - 1)
        BY DEF OpCode2, OpCode
      <4>2. IsBuffer(Bytes(n)) /\ IsBuffer(Bytes(high - 1)) /\ IsBuffer(<<Op.jump_n>>)
        BY BufferOf1, BufferOf2 DEF Bytes
      <4>3. c = e \o <<Op.jump_n>> \o Bytes(n) \o Bytes(high - 1) OBVIOUS
      <4> HIDE DEF n, c
      <4>4. PICK one, d, d2 : one = <<Op.jump_n>> /\ d = Bytes(n) /\ d2 = Bytes(high - 1)
        OBVIOUS
      <4>5. IsBuffer(one) /\ IsBuffer(d) /\ IsBuffer(d2) BY <4>2, <4>4
      <4>6. PICK y : y = OpCode2("jump_n", n, high - 1) OBVIOUS
      <4>7. c = e \o one \o d \o d2 BY <4>3, <4>4
      <4>8. y = one \o d \o d2 BY <4>1, <4>4, <4>6
      <4>9. IsBuffer(e) BY <2>7
      <4>10. Cat(Cat(Cat(e, one), d), d2) = Cat(e, Cat(Cat(one, d), d2))
        BY <4>5, <4>9, CatAssociative
      <4>11. c = e \o y BY <4>7, <4>8, <4>10 DEF Cat
      <4> QED BY <4>6, <4>11
    <3>3. n = x - Len(f) - 9
      <4> DEFINE k == Len(f)  l == Len(e)
      <4>1. k \in Nat /\ l = k + 10 BY <1>1, <2>5, <2>7
      <4>2. n = x + 5 - (l + 1) - 3 OBVIOUS
      <4> HIDE DEF k, l, n
      <4>3. n = x - k - 9 BY <4>1, <4>2, <1>1
      <4> QED BY <4>3 DEF k
    <3> HIDE DEF n
    <3>4. Moved(e, c, Len(e) + 1, 5) /\ HasJump(c, Len(e) + 1, Op.jump_n, n)
      <4> HIDE DEF c
      <4> QED BY <2>7, <3>2, PushedJump
    <3>5. IsBuffer(c) /\ Len(c) = Len(e) + 5 BY <3>4 DEF Moved
    <3> HIDE DEF c
    <3>6. Moved(c, g, x, 5) /\ HasJump(g, x, Op.set_number_at, Len(f) + 16 - x)
      <4>1. PICK to : to = Len(c) + 1 - x OBVIOUS
      <4>2. PICK k1 : k1 = Len(f) OBVIOUS
      <4>3. Len(c) = k1 + 15 /\ k1 \in Nat BY <1>1, <2>5, <2>7, <3>5, <4>2
      <4>4. to = k1 + 16 - x /\ x <= Len(c) + 1 BY <1>1, <4>1, <4>2, <4>3
      <4>5. g = InsertOp2(c, x, "set_number_at", to, high - 1) BY <3>1, <4>1
      <4>6. Moved(c, g, x, 5) /\ HasJump(g, x, Op.set_number_at, to)
        BY <1>1, <3>5, <4>4, <4>5, InsertOp2Moves
      <4> QED BY <4>2, <4>4, <4>6
    <3>7. HasJump(h, x, Op.succeed_n, Len(f) + 8 - x) BY <2>2, <2>4, <2>9
    <3>8. HasJump(c, Len(e) + 1, Op.jump_n, x - Len(f) - 9) BY <3>3, <3>4
    <3>9. Repeats(f, h, e, c, g, x) BY <2>4, <2>6, <3>4, <3>6, <3>7, <3>8 DEF Repeats
    <3> QED BY <3>9, AgainCode
  <2> QED BY <2>8, <2>9
<1> QED BY <1>3, <1>4

LEMMA IntervalCoded ==
  Sound(comp) /\ CodeHolds(comp) /\ Interval /\ Short(comp'.buf) => CodeHolds(comp')
<1> SUFFICES ASSUME Sound(comp), CodeHolds(comp), Interval, Short(comp'.buf)
             PROVE  CodeHolds(comp')
  OBVIOUS
<1> DEFINE bounds == Bounds(comp.p + 1)
           start  == IF comp.laststart = 0 THEN b(comp) ELSE comp.laststart
           t == comp'
<1>1. Placed(comp) /\ comp.state = "loop" /\ Coded(comp) /\ DOMAIN comp = CompFields
  BY DEF Sound, Interval, Fetch, CodeHolds, Placed, Shape
<1>2. CASE ~bounds.valid
  <2>1. t = NormalChar(Fetched, "{") BY <1>2 DEF Interval
  <2>2. Placed(Fetched) /\ Fetched.state = "loop" /\ Coded(Fetched)
    BY <1>1, FetchedPlaced, FetchedCoded
  <2> HIDE DEF t
  <2>3. Coded(t) /\ t.state = "loop" BY <2>1, <2>2, NormalCharCoded, NormalCharSound
  <2>4. CodeHolds(t) BY <2>3, CodedSays
  <2> QED BY <2>4 DEF t
<1>3. CASE bounds.valid
  <2>1. t = [comp EXCEPT !.p = bounds.p, !.laststart = start, !.pending = 0,
                         !.buf = IntervalCode(@, start, bounds.low, bounds.high)]
    BY <1>3 DEF Interval
  <2>2. /\ start \in Nat /\ comp.begalt <= start /\ start \in Barriers(comp) \cup {b(comp)}
    <3>1. comp.begalt <= b(comp) /\ b(comp) \in Nat BY <1>1, FirstAddress DEF b
    <3>2. /\ comp.laststart \in Nat
          /\ comp.laststart # 0 => comp.begalt <= comp.laststart
      BY <1>1 DEF Placed, Shape, LastHolds
    <3> QED BY <3>1, <3>2 DEF Barriers
  <2>3. PICK low, high : low = bounds.low /\ high = bounds.high OBVIOUS
  <2>4. t = [comp EXCEPT !.p = bounds.p, !.laststart = start, !.pending = 0,
                         !.buf = IntervalCode(@, start, low, high)]
    BY <2>1, <2>3
  <2> HIDE DEF bounds, start, t
  <2>5. /\ t.buf = IntervalCode(comp.buf, start, low, high) /\ t.stack = comp.stack
        /\ t.begalt = comp.begalt /\ t.fixup = comp.fixup /\ t.laststart = start
        /\ t.regnum = comp.regnum /\ t.state = "loop"
    BY <1>1, <2>4 DEF CompFields
  <2>6. PICK s : s = comp OBVIOUS
  <2>7. PICK f, x, g : f = s.buf /\ x = start /\ g = t.buf OBVIOUS
  <2>8. /\ Placed(s) /\ Coded(s) /\ x \in Nat /\ s.begalt <= x
        /\ x \in Barriers(s) \cup {b(s)}
    BY <1>1, <2>2, <2>6, <2>7
  <2>9. SameLevel(s, t) /\ t.regnum = s.regnum /\ t.laststart = x
    BY <2>5, <2>6, <2>7 DEF SameLevel
  <2>10. g = IntervalCode(f, x, low, high) BY <2>5, <2>6, <2>7
  <2>11. Short(g) BY <2>7 DEF t
  <2> DEFINE B == StackBarriers(s) \cup {s.begalt, x}
  <2>12. PICK S, L : Opens(f, S, L, Places(s), B, s.regnum, x) BY <2>7, <2>8, OpensLast
  <2> HIDE DEF B
  <2>13. \E S2, L2 : Code(g, S2, L2, Places(s), B \cup {Len(g) + 1}, s.regnum)
    BY <2>10, <2>11, <2>12, IntervalCodes
  <2>14. \E S2, L2 : Code(t.buf, S2, L2, Places(s), B \cup {Len(g) + 1}, s.regnum)
    BY <2>7, <2>13
  <2>15. StackBarriers(s) \cup {s.begalt, x} \subseteq B \cup {Len(g) + 1} BY DEF B
  <2>16. Coded(t) BY <2>9, <2>14, <2>15, RepeatedCoded
  <2>17. CodeHolds(t) BY <2>5, <2>16, CodedSays
  <2> QED BY <2>17 DEF t
<1> QED BY <1>2, <1>3

\* The places and the addresses remembered of the open groups alone.
LEMMA PlacesAre ==
  ASSUME NEW s, Placed(s)
  PROVE  /\ Places(s) = StackPlaces(s) \cup ({s.fixup} \ {0})
         /\ \A p \in StackPlaces(s) : p \in Nat /\ 1 <= p /\ p + 3 <= Here(s)
         /\ s.fixup # 0 => s.fixup \notin StackPlaces(s)
<1>1. Places(s) = StackPlaces(s) \cup ({s.fixup} \ {0}) BY DEF Places, StackPlaces
<1>2. \A p \in StackPlaces(s) : p \in Nat /\ 1 <= p /\ p + 3 <= Here(s)
  BY GroupsBefore DEF StackPlaces
<1>3. s.fixup # 0 => s.fixup \notin StackPlaces(s)
  <2> SUFFICES ASSUME s.fixup # 0, s.fixup \in StackPlaces(s) PROVE FALSE OBVIOUS
  <2>1. s.fixup \in Nat /\ s.fixup + 3 <= Here(s) BY <1>2
  <2>2. Here(s) <= s.fixup /\ Here(s) \in Nat BY PlacedIsOrdered DEF Ordered
  <2> QED BY <2>1, <2>2
<1> QED BY <1>1, <1>2, <1>3

LEMMA AlternativeCoded ==
  Sound(comp) /\ CodeHolds(comp) /\ Alternative /\ Short(comp'.buf) => CodeHolds(comp')
<1> SUFFICES ASSUME Sound(comp), CodeHolds(comp), Alternative, Short(comp'.buf)
             PROVE  CodeHolds(comp')
  OBVIOUS
<1> DEFINE f0  == Fetched
           far == b(comp) + 6
           s   == [f0 EXCEPT !.buf = InsertJump(@, "on_failure_jump", comp.begalt, far)]
           t   == IF s.fixup = 0 THEN s
                  ELSE [s EXCEPT !.buf = StoreJump(@, "jump_past_alt", s.fixup, b(s))]
           u   == Push(t, <<0, 0, 0>>)
           v   == comp'
<1>1. /\ Placed(f0) /\ DOMAIN f0 = CompFields /\ f0.buf = comp.buf /\ f0.stack = comp.stack
      /\ f0.begalt = comp.begalt /\ f0.fixup = comp.fixup /\ f0.regnum = comp.regnum
      /\ f0.state = "loop" /\ Coded(f0) /\ b(f0) = b(comp)
  BY FetchedPlaced, FetchedCoded DEF Sound, Alternative, Fetch, CodeHolds
<1>2. v = [u EXCEPT !.fixup = b(t), !.laststart = 0, !.begalt = b(u), !.pending = 0]
  BY DEF Alternative
<1>3. s = [f0 EXCEPT !.buf = InsertJump(@, "on_failure_jump", f0.begalt, far)] BY <1>1
<1> HIDE DEF f0, far, s, t, u, v
<1>4. PICK f, x, e : f = f0.buf /\ x = f0.begalt /\ e = f0.fixup OBVIOUS
<1>5. PICK h : h = InsertJump(f, "on_failure_jump", x, far) OBVIOUS
<1>6. PICK c : c = IF e = 0 THEN h ELSE StoreJump(h, "jump_past_alt", e, Len(h) + 1) OBVIOUS
<1>7. /\ x \in Nat /\ 1 <= x /\ x <= Len(f) + 1 /\ Len(f) \in Nat /\ IsBuffer(f)
      /\ far = Len(f) + 7 /\ e \in Nat
  BY <1>1, <1>4, FirstAddress DEF Placed, Shape, far, b
<1>8. Moved(f, h, x, 3) /\ HasJump(h, x, Op.on_failure_jump, Len(f) + 4 - x)
  <2>1. Moved(f, h, x, 3) /\ HasJump(h, x, Op.on_failure_jump, far - x - 3)
    BY <1>5, <1>7, InsertJumpMoves
  <2>2. PICK k : k = Len(f) OBVIOUS
  <2>3. far - x - 3 = k + 4 - x BY <1>7, <2>2
  <2> QED BY <2>1, <2>2, <2>3
<1>9. IsBuffer(h) /\ Len(h) = Len(f) + 3 BY <1>8 DEF Moved
<1>10. Ordered(f0) BY <1>1, PlacedIsOrdered
<1>11. e # 0 => 1 <= e /\ e + 3 = x /\ Here(f0) <= e /\ Here(f0) \in Nat
  BY <1>4, <1>7, <1>10 DEF Ordered
<1>12. e # 0 => /\ IsBuffer(c) /\ Len(c) = Len(h)
                /\ \A i \in 1..Len(h) : i < e \/ e + 2 < i => c[i] = h[i]
                /\ HasJump(c, e, Op.jump_past_alt, Len(f) + 1 - e)
  <2> SUFFICES ASSUME e # 0
               PROVE  /\ IsBuffer(c) /\ Len(c) = Len(h)
                      /\ \A i \in 1..Len(h) : i < e \/ e + 2 < i => c[i] = h[i]
                      /\ HasJump(c, e, Op.jump_past_alt, Len(f) + 1 - e)
    OBVIOUS
  <2>1. PICK to : to = Len(h) + 1 OBVIOUS
  <2>2. c = StoreJump(h, "jump_past_alt", e, to) BY <1>6, <2>1
  <2>3. e \in 1..Len(h) /\ 1 <= e /\ e + 2 <= Len(h) BY <1>7, <1>9, <1>11
  <2>4. /\ IsBuffer(c) /\ Len(c) = Len(h)
        /\ \A i \in 1..Len(h) : i < e \/ e + 2 < i => c[i] = h[i]
    BY <2>2, <2>3, <1>9, StoreKeeps
  <2>5. HasJump(c, e, Op.jump_past_alt, to - e - 3) BY <2>2, <2>3, <1>7, <1>9, StoreJumpHas
  <2>6. PICK k : k = Len(f) OBVIOUS
  <2>7. to - e - 3 = k + 1 - e BY <1>7, <1>9, <2>1, <2>6
  <2> QED BY <2>4, <2>5, <2>6, <2>7
<1>13. IsBuffer(c) /\ Len(c) = Len(f) + 3 BY <1>6, <1>9, <1>12
<1>14. PICK g : g = c \o <<0, 0, 0>> OBVIOUS
<1>15. Moved(c, g, Len(c) + 1, 3) /\ g[Len(c) + 1] = 0
  <2>1. PICK z : z = <<0, 0, 0>> OBVIOUS
  <2>2. IsBuffer(z) /\ Len(z) = 3 /\ z[1] = 0 BY <2>1, BufferOf3
  <2>3. /\ IsBuffer(c \o z) /\ Len(c \o z) = Len(c) + Len(z) /\ Agree(c, c \o z, Len(c))
        /\ \A i \in 1..Len(z) : (c \o z)[Len(c) + i] = z[i]
    <3>1. IsBuffer(c) /\ IsBuffer(z) BY <2>2, <1>13
    <3> QED BY <3>1, BufferCat
  <2>4. 1 \in 1..Len(z) /\ Len(c) + 1 - 1 = Len(c) BY <2>2, <1>7, <1>13
  <2>5. (Len(c) + 1)..Len(c) = {} BY <1>7, <1>13
  <2> QED BY <1>14, <2>1, <2>2, <2>3, <2>4, <2>5 DEF Moved, Agree
<1>16. /\ DOMAIN v = CompFields /\ v.buf = g /\ v.stack = f0.stack
       /\ v.regnum = f0.regnum /\ v.fixup = Len(f) + 4 /\ v.begalt = Len(g) + 1
       /\ v.laststart = 0 /\ v.state = "loop"
  <2>1. /\ DOMAIN s = CompFields /\ s.buf = h /\ s.stack = f0.stack
        /\ s.fixup = e /\ s.regnum = f0.regnum /\ s.state = "loop"
    BY <1>1, <1>3, <1>4, <1>5 DEF CompFields
  <2>2. /\ DOMAIN t = CompFields /\ t.buf = c /\ t.stack = f0.stack
        /\ t.regnum = f0.regnum /\ t.state = "loop"
    <3>1. CASE e = 0
      <4>1. t = s BY <2>1, <3>1 DEF t
      <4> QED BY <4>1, <2>1, <3>1, <1>6
    <3>2. CASE e # 0
      <4>1. t = [s EXCEPT !.buf = StoreJump(@, "jump_past_alt", s.fixup, b(s))]
        BY <2>1, <3>2 DEF t
      <4>2. /\ DOMAIN t = CompFields /\ t.stack = s.stack
            /\ t.regnum = s.regnum /\ t.state = s.state
            /\ t.buf = StoreJump(s.buf, "jump_past_alt", s.fixup, b(s))
        BY <4>1, <2>1 DEF CompFields
      <4>3. t.buf = StoreJump(h, "jump_past_alt", e, Len(h) + 1) BY <4>2, <2>1 DEF b
      <4> QED BY <4>2, <4>3, <2>1, <3>2, <1>6
    <3> QED BY <3>1, <3>2
  <2>3. /\ DOMAIN u = CompFields /\ u.buf = g /\ u.stack = f0.stack
        /\ u.regnum = f0.regnum /\ u.state = "loop"
    BY <2>2, <1>14 DEF u, Push, CompFields
  <2>4. b(t) = Len(f) + 4 /\ b(u) = Len(g) + 1
    BY <2>2, <2>3, <1>7, <1>13 DEF b
  <2> QED BY <1>2, <2>3, <2>4 DEF CompFields
<1>17. Alternates(f, h, c, g, x, e) BY <1>6, <1>8, <1>12, <1>15 DEF Alternates
<1>18. Short(g) BY <1>16 DEF v
<1> DEFINE P == Places(f0)  B == StackBarriers(f0)
<1>19. \E S, L : Opens(f, S, L, P, B \cup {f0.begalt, x}, f0.regnum, x)
  <2>1. f0.begalt <= x /\ x \in Barriers(f0) \cup {b(f0)} /\ x \in Nat
    BY <1>4, <1>7 DEF Barriers
  <2> QED BY <1>1, <1>4, <2>1, OpensLast
<1> HIDE DEF P, B
<1>20. PICK S, L : Opens(f, S, L, P, B, f0.regnum, x)
  <2>1. PICK S, L : Opens(f, S, L, P, B \cup {f0.begalt, x}, f0.regnum, x) BY <1>19
  <2>2. Code(f, S, L, P, B, f0.regnum)
    <3>1. B \subseteq B \cup {f0.begalt, x} OBVIOUS
    <3>2. Code(f, S, L, P, B \cup {f0.begalt, x}, f0.regnum) BY <2>1 DEF Opens
    <3> QED BY <3>1, <3>2, CodeFor
  <2>3. Opens(f, S, L, P, B, f0.regnum, x) BY <2>1, <2>2 DEF Opens
  <2> QED BY <2>3
<1>21. e = 0 \/ (e \in P /\ \A y \in B : y <= e)
  <2> SUFFICES ASSUME e # 0 PROVE e \in P /\ \A y \in B : y <= e OBVIOUS
  <2>1. e \in P BY <1>4 DEF P, Places
  <2>2. ASSUME NEW y \in B PROVE y <= e
    <3>1. y \in Nat /\ y + 3 <= Here(f0) BY <1>10 DEF Ordered, B
    <3> QED BY <3>1, <1>7, <1>11
  <2> QED BY <2>1, <2>2
<1>22. PICK P2 : P2 = (P \ {e}) \cup {Len(f) + 4} OBVIOUS
<1>23. PICK S2, L2 : Code(g, S2, L2, P2, B \cup {Len(g) + 1}, f0.regnum)
  <2>1. \E S2, L2 : Code(g, S2, L2, (P \ {e}) \cup {Len(f) + 4}, B \cup {Len(g) + 1}, f0.regnum)
    BY <1>17, <1>18, <1>20, <1>21, AlternativeCode
  <2> QED BY <1>22, <2>1
<1>24. Places(v) = P2
  <2>1. /\ P = StackPlaces(f0) \cup ({e} \ {0}) /\ 0 \notin StackPlaces(f0)
        /\ e # 0 => e \notin StackPlaces(f0)
    BY <1>1, <1>4, PlacesAre DEF P, StackPlaces
  <2>2. P \ {e} = StackPlaces(f0) BY <2>1
  <2>3. Len(f) + 4 # 0 BY <1>7
  <2>4. Places(v) = StackPlaces(f0) \cup {Len(f) + 4}
    BY <1>16, <2>3 DEF Places, StackPlaces
  <2> QED BY <1>22, <2>2, <2>4
<1>25. Barriers(v) \subseteq B \cup {Len(g) + 1}
  BY <1>16 DEF Barriers, StackBarriers, B
<1>26. Code(v.buf, S2, L2, Places(v), Barriers(v), v.regnum)
  BY <1>16, <1>23, <1>24, <1>25, CodeFor
<1>27. Coded(v) BY <1>26 DEF Coded, CodeOf
<1>28. CodeHolds(v) BY <1>16, <1>27, CodedSays
<1> QED BY <1>28 DEF v

\* The jump past the alternatives is written to the place left for it,
\* which may still be kept for another jump.
LEMMA PlaceFilled ==
  ASSUME NEW f, NEW S, NEW L, NEW P, NEW B, NEW G, Code(f, S, L, P, B, G), NEW e \in P,
         NEW g, IsBuffer(g), Len(g) = Len(f),
         \A i \in 1..Len(f) : i < e \/ e + 2 < i => g[i] = f[i],
         NEW n, Fit(n), 0 <= n, HasJump(g, e, Op.jump_past_alt, n),
         e + 3 + n \in S, L[e + 3 + n] = 0,
         NEW B2, \A y \in B2 : y \in B /\ (y <= e \/ e + 3 + n <= y)
  PROVE  Code(g, S, L, P, B, G) /\ Code(g, S, L, P \ {e}, B2, G)
<1>1. /\ IsBuffer(f) /\ Len(f) \in Nat /\ G \in Nat /\ S \subseteq 1..(Len(f) + 1)
      /\ L \in [S -> Nat] /\ \A p \in P : PlaceHolds(f, S, p)
  BY BufferLen DEF Code
<1>2. \A p \in P : /\ p \in S /\ p + 3 \in S /\ p + 1 \notin S /\ p + 2 \notin S
                   /\ f[p] \in {0, Op.jump_past_alt} /\ p \in 1..Len(f) /\ p + 2 <= Len(f)
  <2> SUFFICES ASSUME NEW p \in P
               PROVE  /\ p \in S /\ p + 3 \in S /\ p + 1 \notin S /\ p + 2 \notin S
                      /\ f[p] \in {0, Op.jump_past_alt} /\ p \in 1..Len(f)
                      /\ p + 2 <= Len(f)
    OBVIOUS
  <2>1. /\ p \in S /\ p + 3 \in S /\ p + 1 \notin S /\ p + 2 \notin S
        /\ f[p] \in {0, Op.jump_past_alt}
    BY <1>1 DEF PlaceHolds
  <2>2. p \in 1..(Len(f) + 1) /\ p + 3 \in 1..(Len(f) + 1) BY <2>1, <1>1
  <2>3. p \in 1..Len(f) /\ p + 2 <= Len(f) BY <2>2, <1>1
  <2> QED BY <2>1, <2>3
<1>3. g[e] = Op.jump_past_alt BY DEF HasJump
<1>4. ASSUME NEW p \in P PROVE PlaceHolds(g, S, p)
  <2>1. /\ p \in S /\ p + 3 \in S /\ p + 1 \notin S /\ p + 2 \notin S
        /\ f[p] \in {0, Op.jump_past_alt} /\ p \in 1..Len(f)
    BY <1>2
  <2>2. e \in Nat /\ p # e + 1 /\ p # e + 2 BY <2>1, <1>2
  <2>3. g[p] \in {0, Op.jump_past_alt}
    <3>1. CASE p = e BY <3>1, <1>3
    <3>2. CASE p # e
      <4>1. p < e \/ e + 2 < p BY <3>2, <2>1, <2>2
      <4> QED BY <4>1, <2>1
    <3> QED BY <3>1, <3>2
  <2> QED BY <2>1, <2>3 DEF PlaceHolds
<1>5. ASSUME NEW q \in Ops(f, S, P), NEW i \in q..(q + Size(f, q) - 1)
      PROVE  g[i] = f[i]
  <2>1. q \in S /\ q \notin P /\ q \in Nat /\ 1 <= q BY <1>1 DEF Ops
  <2>2. OpOK(f, S, L, G, q) BY DEF Code
  <2>3. /\ Args(f, q, G) /\ q + Size(f, q) \in S
        /\ \A j \in S : j <= q \/ q + Size(f, q) <= j
    BY <2>2 DEF OpOK
  <2>4. Size(f, q) \in Nat /\ 1 <= Size(f, q) BY <2>1, <2>3, SizeOf
  <2>5. PICK k \in Nat : k = Size(f, q) BY <2>4
  <2>6. 1 <= k /\ (\A j \in S : j <= q \/ q + k <= j) /\ i \in q..(q + k - 1) /\ q + k \in S
    BY <2>3, <2>4, <2>5
  <2>7. i < e \/ e + 2 < i BY <2>1, <2>6, PlacesApart
  <2>a. q + k \in 1..(Len(f) + 1) BY <2>6, <1>1
  <2>8. q + k <= Len(f) + 1 BY <2>a, <1>1
  <2>9. i \in 1..Len(f) BY <2>1, <2>6, <2>8, <1>1
  <2> QED BY <2>7, <2>9
<1>6. ASSUME NEW r \in S, r <= Len(f), f[r] \in CountingOps PROVE g[r] = f[r]
  <2>1. r \in 1..Len(f) BY <1>1, <1>6
  <2>2. r # e BY <1>2, <1>6, NoPlaceCounts
  <2>3. e \in Nat /\ r # e + 1 /\ r # e + 2 BY <1>2
  <2>4. r < e \/ e + 2 < r BY <2>1, <2>2, <2>3
  <2> QED BY <2>1, <2>4
<1>7. Edits(f, S, P, {}, g) BY <1>5, <1>6 DEF Edits
<1>8. Code(g, S, L, P, B, G)
  <2>1. \A q \in Ops(g, S, P) : q \in {} \cup P =>
            OpOK(g, S, L, G, q) /\ \A y \in B : Stays(g, q, y)
    BY DEF Ops
  <2>2. B \subseteq B OBVIOUS
  <2> QED BY <2>1, <2>2, <1>4, <1>7, Edited
<1>9. /\ OpOK(g, S, L, G, e)
      /\ \A y \in Nat : y <= e \/ e + 3 + n <= y => Stays(g, e, y)
  <2>1. S \subseteq Nat BY <1>1
  <2> QED BY <2>1, <1>1, <1>4, PlaceIsJump
<1>10. Code(g, S, L, P \ {e}, B2, G)
  <2>1. B2 \subseteq B OBVIOUS
  <2>2. ASSUME NEW y \in B2 PROVE y \in Nat
    <3>1. Barrier(f, S, L, P, y) BY DEF Code
    <3> QED BY <3>1, <1>1 DEF Barrier
  <2>3. \A y \in B2 : Stays(g, e, y) BY <1>9, <2>2
  <2>4. \A q \in Ops(g, S, P \ {e}) : q \in {} \cup P => q = e BY DEF Ops
  <2>5. \A q \in Ops(g, S, P \ {e}) : q \in {} \cup P =>
            OpOK(g, S, L, G, q) /\ \A y \in B2 : Stays(g, q, y)
    BY <2>3, <2>4, <1>9
  <2>6. \A p \in P \ {e} : PlaceHolds(g, S, p) BY <1>4
  <2> QED BY <2>1, <2>5, <2>6, <1>7, Edited
<1> QED BY <1>8, <1>10

\* A start_memory is told how many groups are inside its own.
LEMMA InnerWritten ==
  ASSUME NEW f, NEW S, NEW L, NEW P, NEW B, NEW G, Code(f, S, L, P, B, G), NEW x \in B,
         f[x] = Op.start_memory, x + 2 <= Len(f), NEW r, f[x + 1] = r,
         NEW n, n = G - r
  PROVE  r \in 1..G /\ n \in Nat /\ r + n <= G /\ Code(Write(f, x + 2, n), S, L, P, B, G)
<1> DEFINE g == Write(f, x + 2, n)
<1>1. /\ IsBuffer(f) /\ Len(f) \in Nat /\ G \in Nat /\ S \subseteq 1..(Len(f) + 1)
      /\ Barrier(f, S, L, P, x)
  BY BufferLen DEF Code
<1>2. x \in S /\ x \in Nat /\ 1 <= x /\ x # Len(f) + 1 BY <1>1 DEF Barrier
<1>3. x \notin P
  <2> SUFFICES ASSUME x \in P PROVE FALSE OBVIOUS
  <2>1. PlaceHolds(f, S, x) BY DEF Code
  <2>2. f[x] \in {0, Op.jump_past_alt} BY <2>1 DEF PlaceHolds
  <2> QED BY <2>2, OpCodes
<1>4. x \in Ops(f, S, P) BY <1>2, <1>3 DEF Ops
<1>5. OpOK(f, S, L, G, x) BY <1>4 DEF Code
<1>6. f[x] \in GroupOps /\ f[x] \in StraightOps BY DEF GroupOps, StraightOps
<1>7. Args(f, x, G) /\ x + Size(f, x) \in S /\ \A i \in S : i <= x \/ x + Size(f, x) <= i
  BY <1>5 DEF OpOK
<1>8. Size(f, x) = 3 /\ r \in 1..G BY <1>2, <1>6, <1>7, SizeOf
<1>9. n \in Nat /\ r + n <= G BY <1>1, <1>8
<1>10. /\ IsBuffer(g) /\ Len(g) = Len(f)
       /\ \A i \in 1..Len(f) : g[i] = IF i = x + 2 THEN n ELSE f[i]
  BY <1>1, WriteKeeps
<1> HIDE DEF g
<1>11. g[x] = f[x] /\ g[x + 1] = r /\ g[x + 2] = n
  <2>1. x \in 1..Len(f) /\ x + 1 \in 1..Len(f) /\ x + 2 \in 1..Len(f)
        /\ x # x + 2 /\ x + 1 # x + 2
    BY <1>1, <1>2
  <2> QED BY <2>1, <1>10
<1>12. Args(g, x, G) BY <1>6, <1>8, <1>9, <1>11 DEF Args
<1>13. Size(g, x) = 3 BY <1>2, <1>6, <1>11, <1>12, SizeOf
<1>14. /\ \A t, d : Leads(f, x, t, d) <=> d = 0 /\ t = x + 3
       /\ \A t, d : Leads(g, x, t, d) <=> d = 0 /\ t = x + 3
       /\ \A t : ~Refers(g, x, t)
  BY <1>6, <1>8, <1>11, <1>13, StraightOp
<1>15. OpOK(g, S, L, G, x)
  <2>1. ASSUME NEW t \in Int, NEW d \in {-1, 0, 1}, Leads(g, x, t, d)
        PROVE  t \in S /\ L[t] <= L[x] + d
    <3>1. Leads(f, x, t, d) BY <2>1, <1>14
    <3> QED BY <3>1, <1>5 DEF OpOK
  <2> QED BY <2>1, <1>7, <1>8, <1>12, <1>13, <1>14 DEF OpOK
<1>16. ASSUME NEW y \in B PROVE Stays(g, x, y)
  <2>1. Stays(f, x, y) BY <1>4 DEF Code, Barrier
  <2> QED BY <2>1, <1>14 DEF Stays
<1>17. f[x] \notin CountingOps BY OpCodes, OpKinds
<1>18. \A i \in 1..Len(f) : i < x \/ x + Size(f, x) <= i => g[i] = f[i]
  <2> SUFFICES ASSUME NEW i \in 1..Len(f), i < x \/ x + 3 <= i PROVE g[i] = f[i] BY <1>8
  <2>1. i # x + 2 BY <1>2
  <2> QED BY <2>1, <1>10
<1>19. Code(g, S, L, P, B, G)
  BY <1>4, <1>10, <1>15, <1>16, <1>17, <1>18, Patched
<1> QED BY <1>8, <1>9, <1>19 DEF g

LEMMA OpenGroupCode == Sound(comp) /\ CodeHolds(comp) /\ OpenGroup => CodeHolds(comp')
<1> SUFFICES ASSUME Sound(comp), CodeHolds(comp), OpenGroup PROVE CodeHolds(comp') OBVIOUS
<1> DEFINE s    == Fetched
           reg  == comp.regnum + 1
           code == <<Op.start_memory, reg, 0>>
           u    == Push(s, code)
           h    == [begalt |-> comp.begalt, fixup |-> comp.fixup,
                    laststart |-> b(comp), regnum |-> reg]
           t    == comp'
<1>1. /\ Placed(s) /\ DOMAIN s = CompFields /\ Coded(s) /\ s.state = "loop"
      /\ s.begalt = comp.begalt /\ s.fixup = comp.fixup /\ s.regnum = comp.regnum
      /\ b(s) = b(comp)
  BY FetchedPlaced, FetchedCoded DEF Sound, OpenGroup, Fetch, CodeHolds
<1>2. t = [u EXCEPT !.regnum = reg, !.stack = Append(@, h), !.fixup = 0, !.laststart = 0,
                    !.begalt = b(u), !.pending = 0]
  BY DEF OpenGroup
<1>3. h = [begalt |-> s.begalt, fixup |-> s.fixup, laststart |-> b(s), regnum |-> reg]
  BY <1>1
<1>4. reg = s.regnum + 1 BY <1>1
<1> HIDE DEF s, code, h, reg, t
<1>5. s.stack \in Seq(Group) /\ s.regnum \in Nat BY <1>1 DEF Placed, Shape
<1>6. reg \in Nat /\ s.regnum <= reg /\ reg \in 1..reg BY <1>4, <1>5
<1>7. Straight(code, reg)
  <2>1. Op.start_memory \in GroupOps BY DEF GroupOps
  <2>2. PICK v : v = Op.start_memory OBVIOUS
  <2>3. PICK z \in Nat : z = 0 OBVIOUS
  <2>4. reg + z <= reg BY <1>6, <2>3
  <2>5. Straight(<<v, reg, z>>, reg) BY <1>6, <2>1, <2>2, <2>4, GroupBytes
  <2> QED BY <2>2, <2>3, <2>5 DEF code
<1> DEFINE P == Places(s)  B == Barriers(s)
           B2 == B \cup {Len(s.buf) + 1, Len(s.buf \o code) + 1}
<1>8. \E S, L : Code(s.buf, S, L, P, B, s.regnum) BY <1>1 DEF Coded, CodeOf
<1> HIDE DEF P, B, B2
<1>9. PICK S, L : Code(s.buf \o code, S, L, P, B2, reg)
  BY <1>6, <1>7, <1>8, OpPushed DEF Straight, B2
<1>10. DOMAIN u = CompFields /\ u.buf = s.buf \o code /\ u.stack = s.stack /\ u.state = "loop"
  BY <1>1 DEF Push, CompFields
<1> HIDE DEF u
<1>11. /\ t.buf = s.buf \o code /\ t.stack = Append(s.stack, h) /\ t.regnum = reg
       /\ t.fixup = 0 /\ t.laststart = 0 /\ t.begalt = Len(s.buf \o code) + 1
       /\ t.state = "loop"
  BY <1>2, <1>10 DEF CompFields, b
<1> DEFINE n == Len(s.stack)  stk == Append(s.stack, h)
<1>12. n \in Nat /\ Len(stk) = n + 1 /\ stk[n + 1] = h /\ \A k \in 1..n : stk[k] = s.stack[k]
  <2>1. s.stack \in Seq(Group \cup {h}) /\ h \in Group \cup {h} BY <1>5
  <2> QED BY <2>1, AppendProperties
<1> HIDE DEF n, stk
<1>13. \A k \in 1..(n + 1) : k \in 1..n \/ k = n + 1 BY <1>12
<1>14. t.stack = stk /\ Len(t.stack) = n + 1 BY <1>11, <1>12 DEF stk
<1>15. Places(t) \subseteq P
  <2> SUFFICES ASSUME NEW p \in Places(t) PROVE p \in P OBVIOUS
  <2>1. PICK k \in 1..(n + 1) : p = stk[k].fixup /\ p # 0 BY <1>11, <1>14 DEF Places
  <2>2. CASE k \in 1..n BY <2>1, <2>2, <1>12 DEF P, Places, n
  <2>3. CASE k = n + 1 BY <2>1, <2>3, <1>12, <1>3 DEF P, Places
  <2> QED BY <2>1, <2>2, <2>3, <1>13
<1>16. P \subseteq Places(t)
  <2> SUFFICES ASSUME NEW p \in P PROVE p \in Places(t) OBVIOUS
  <2>1. p # 0 /\ (p = s.fixup \/ \E k \in 1..n : p = s.stack[k].fixup) BY DEF P, Places, n
  <2>2. \E k \in 1..(n + 1) : p = stk[k].fixup
    <3>1. CASE p = s.fixup
      <4>1. n + 1 \in 1..(n + 1) BY <1>12
      <4> QED BY <3>1, <4>1, <1>3, <1>12
    <3>2. CASE \E k \in 1..n : p = s.stack[k].fixup
      <4>1. PICK k \in 1..n : p = s.stack[k].fixup BY <3>2
      <4>2. k \in 1..(n + 1) BY <1>12
      <4> QED BY <4>1, <4>2, <1>12
    <3> QED BY <2>1, <3>1, <3>2
  <2> QED BY <2>1, <2>2, <1>14 DEF Places
<1>17. Barriers(t) \subseteq B2
  <2> SUFFICES ASSUME NEW y \in Barriers(t) PROVE y \in B2 OBVIOUS
  <2>1. \/ y = Len(s.buf \o code) + 1
        \/ \E k \in 1..(n + 1) : y = stk[k].begalt \/ y = stk[k].laststart
    BY <1>11, <1>14 DEF Barriers, StackBarriers
  <2>2. CASE \E k \in 1..(n + 1) : y = stk[k].begalt \/ y = stk[k].laststart
    <3>1. PICK k \in 1..(n + 1) : y = stk[k].begalt \/ y = stk[k].laststart BY <2>2
    <3>2. CASE k \in 1..n
      BY <3>1, <3>2, <1>12 DEF B2, B, Barriers, StackBarriers, n
    <3>3. CASE k = n + 1
      <4>1. y = s.begalt \/ y = Len(s.buf) + 1 BY <3>1, <3>3, <1>3, <1>12 DEF b
      <4> QED BY <4>1 DEF B2, B, Barriers
    <3> QED BY <3>2, <3>3, <1>13
  <2> QED BY <2>1, <2>2 DEF B2
<1>18. Places(t) = P BY <1>15, <1>16
<1>19. Code(t.buf, S, L, Places(t), Barriers(t), t.regnum)
  <2>1. Code(s.buf \o code, S, L, P, Barriers(t), reg) BY <1>9, <1>17, CodeFor
  <2> QED BY <2>1, <1>11, <1>18
<1>20. Coded(t) BY <1>19 DEF Coded, CodeOf
<1>21. CodeHolds(t) BY <1>11, <1>20, CodedSays
<1> QED BY <1>21 DEF t

\* The alternatives of a group end: the jump past them is written, and the
\* place for it need not be kept.
AlternativesEnd(s, t, P, B) ==
    /\ \E S, L : Code(t.buf, S, L, Places(s), Barriers(s), s.regnum)
    /\ \E S, L : Code(t.buf, S, L, P, B, s.regnum)

LEMMA EndAlternativesCoded ==
  ASSUME NEW s, Placed(s), Coded(s), Short(EndAlternatives(s).buf)
  PROVE  /\ Coded(EndAlternatives(s))
         /\ AlternativesEnd(s, EndAlternatives(s), StackPlaces(s), StackBarriers(s))
<1> DEFINE t == EndAlternatives(s)
           code == <<Op.push_dummy_failure>>
           u == Push(s, code)
           to == b(u) - 1
<1>1. DOMAIN s = CompFields /\ IsBuffer(s.buf) /\ s.fixup \in Nat /\ s.regnum \in Nat
  BY DEF Placed, Shape
<1>2. CASE s.fixup = 0
  <2>1. t = s BY <1>2 DEF EndAlternatives
  <2> HIDE DEF t
  <2>2. PICK S, L : Code(s.buf, S, L, Places(s), Barriers(s), s.regnum) BY DEF Coded, CodeOf
  <2>3. Places(s) = StackPlaces(s) BY <1>2, PlacesAre
  <2>4. StackBarriers(s) \subseteq Barriers(s) BY DEF Barriers
  <2>5. Code(s.buf, S, L, StackPlaces(s), StackBarriers(s), s.regnum)
    BY <2>2, <2>3, <2>4, CodeFor
  <2>6. Coded(t) /\ AlternativesEnd(s, t, StackPlaces(s), StackBarriers(s))
    BY <2>1, <2>2, <2>5 DEF AlternativesEnd
  <2> QED BY <2>6 DEF t
<1>3. CASE s.fixup # 0
  <2>1. t = [u EXCEPT !.buf = StoreJump(@, "jump_past_alt", u.fixup, to)]
    BY <1>3 DEF EndAlternatives
  <2>2. IsBuffer(code) /\ Len(code) = 1 BY BufferOf1
  <2>3. /\ DOMAIN u = CompFields /\ u.buf = s.buf \o code /\ u.stack = s.stack
        /\ u.begalt = s.begalt /\ u.fixup = s.fixup /\ u.regnum = s.regnum
        /\ u.laststart = s.laststart
    BY <1>1 DEF Push, CompFields
  <2>4. Straight(code, s.regnum)
    <3>1. PICK v \in PlainOps : v = Op.push_dummy_failure BY DEF PlainOps
    <3> QED BY <3>1, PlainBytes
  <2> HIDE DEF u, code, t
  <2>5. PICK f, h, e, k : f = s.buf /\ h = s.buf \o code /\ e = s.fixup /\ k = Len(s.buf) OBVIOUS
  <2>6. IsBuffer(h) /\ Len(h) = k + 1 /\ k \in Nat
    <3>1. IsBuffer(f) /\ h = f \o code /\ k = Len(f) /\ k \in Nat BY <1>1, <2>5, BufferLen
    <3>2. IsBuffer(f \o code) /\ Len(f \o code) = Len(f) + Len(code)
      BY <3>1, <2>2, BufferCat
    <3> QED BY <3>1, <3>2, <2>2
  <2>7. to = k + 1 BY <2>3, <2>5, <2>6 DEF b
  <2> HIDE DEF to
  <2>8. /\ t.buf = StoreJump(h, "jump_past_alt", e, to) /\ t.stack = s.stack
        /\ t.begalt = s.begalt /\ t.fixup = s.fixup /\ t.laststart = s.laststart
        /\ t.regnum = s.regnum
    BY <2>1, <2>3, <2>5 DEF CompFields
  <2> DEFINE P == Places(s)  B == Barriers(s)  B3 == B \cup {k + 1, Len(h) + 1}
  <2>9. \E S, L : Code(f, S, L, P, B, s.regnum) BY <2>5 DEF Coded, CodeOf
  <2> HIDE DEF P, B
  <2>10. PICK S, L : Code(h, S, L, P, B3, s.regnum)
    <3>1. s.regnum <= s.regnum BY <1>1
    <3>2. h = f \o code /\ k = Len(f) BY <2>5
    <3> QED BY <3>1, <3>2, <2>4, <2>9, <1>1, OpPushed DEF Straight
  <2>11. /\ e \in P /\ e \in Nat /\ 1 <= e /\ s.begalt = e + 3 /\ s.begalt <= k + 1
         /\ s.begalt \in Nat /\ Here(s) \in Nat /\ Here(s) <= e
    <3>1. Ordered(s) BY PlacedIsOrdered
    <3>2. e \in P BY <1>3, <2>5 DEF P, Places
    <3>3. /\ s.begalt \in Nat /\ Here(s) \in Nat /\ Here(s) <= e /\ s.begalt = e + 3
          /\ s.begalt <= k + 1 /\ e \in Nat /\ 1 <= Here(s)
      BY <3>1, <1>3, <2>5 DEF Ordered
    <3>4. 1 <= e BY <3>3
    <3> QED BY <3>2, <3>3, <3>4
  <2>12. PICK g : g = t.buf OBVIOUS
  <2>13. e \in 1..Len(h) /\ e + 2 <= Len(h) BY <2>6, <2>11
  <2>14. /\ IsBuffer(g) /\ Len(g) = Len(h)
         /\ \A i \in 1..Len(h) : i < e \/ e + 2 < i => g[i] = h[i]
         /\ HasJump(g, e, Op.jump_past_alt, to - e - 3)
    <3>1. g = StoreJump(h, "jump_past_alt", e, to) BY <2>8, <2>12
    <3> QED BY <3>1, <2>6, <2>11, <2>13, StoreKeeps, StoreJumpHas
  <2>15. PICK n : n = to - e - 3 OBVIOUS
  <2>16. Len(g) < 3584 BY <2>12 DEF Short, t
  <2>17. Fit(n) /\ 0 <= n /\ e + 3 + n = k + 1
    <3>1. Len(g) = k + 1 BY <2>6, <2>14
    <3> QED BY <3>1, <2>6, <2>7, <2>11, <2>15, <2>16 DEF Fit
  <2>18. k + 1 \in S /\ L[k + 1] = 0 BY <2>10 DEF Code, Barrier
  <2>19. \A y \in StackBarriers(s) : y \in B3 /\ (y <= e \/ e + 3 + n <= y)
    <3> SUFFICES ASSUME NEW y \in StackBarriers(s) PROVE y \in B3 /\ y <= e OBVIOUS
    <3>1. y \in Nat /\ y + 3 <= Here(s) BY PlacedIsOrdered DEF Ordered
    <3>2. y <= e BY <3>1, <2>11
    <3> QED BY <3>2 DEF B, Barriers
  <2>20. HasJump(g, e, Op.jump_past_alt, n) BY <2>14, <2>15
  <2>21. e + 3 + n \in S /\ L[e + 3 + n] = 0 BY <2>17, <2>18
  <2> HIDE DEF B3
  <2>22. Code(g, S, L, P, B3, s.regnum) /\ Code(g, S, L, P \ {e}, StackBarriers(s), s.regnum)
    BY <2>10, <2>11, <2>14, <2>17, <2>19, <2>20, <2>21, PlaceFilled
  <2>23. P \ {e} = StackPlaces(s)
    <3>1. /\ P = StackPlaces(s) \cup ({e} \ {0}) /\ e \notin StackPlaces(s)
      BY <1>3, <2>5, PlacesAre DEF P
    <3> QED BY <3>1
  <2>24. Code(g, S, L, P, B, s.regnum)
    <3>1. B \subseteq B3 BY DEF B3
    <3> QED BY <3>1, <2>22, CodeFor
  <2>25. AlternativesEnd(s, t, StackPlaces(s), StackBarriers(s))
    BY <2>12, <2>22, <2>23, <2>24 DEF AlternativesEnd, P, B
  <2>26. Coded(t)
    <3>1. SameLevel(s, t) BY <2>8 DEF SameLevel
    <3>2. \E S1, L1 : Code(t.buf, S1, L1, Places(s), B, t.regnum)
      BY <2>8, <2>12, <2>24 DEF P
    <3>3. /\ StackBarriers(s) \cup {s.begalt} \subseteq B
          /\ t.laststart # 0 => t.laststart \in B
      BY <2>8 DEF B, Barriers
    <3> QED BY <3>1, <3>2, <3>3, CodedAs
  <2> QED BY <2>25, <2>26 DEF t
<1> QED BY <1>2, <1>3

LEMMA CloseGroupCode ==
  Sound(comp) /\ CodeHolds(comp) /\ CloseGroup /\ Short(comp'.buf) => CodeHolds(comp')
<1> SUFFICES ASSUME Sound(comp), CodeHolds(comp), CloseGroup, Short(comp'.buf)
             PROVE  CodeHolds(comp')
  OBVIOUS
<1> DEFINE f0    == Fetched
           s     == EndAlternatives(f0)
           top   == CompileStackTop(s)
           inner == s.regnum - top.regnum
           t     == comp'
<1>1. Placed(f0) /\ f0.state = "loop" /\ Coded(f0)
  BY FetchedPlaced, FetchedCoded DEF CloseGroup, Fetch, Sound, CodeHolds
<1>2. /\ Placed(s) /\ DOMAIN s = CompFields /\ s.state = "loop" /\ s.stack = f0.stack
      /\ s.begalt = f0.begalt /\ s.fixup = f0.fixup /\ s.regnum = f0.regnum
  BY <1>1, EndAlternativesPlaced
<1>3. IsBuffer(s.buf) /\ Len(s.buf) \in Nat /\ s.regnum \in Nat
  BY <1>2, BufferLen DEF Placed, Shape
<1>4. CASE s.stack = <<>>
  <2>1. t = NormalChar(s, ")") BY <1>4 DEF CloseGroup
  <2>2. Len(s.buf) <= Len(t.buf)
    <3> DEFINE u == [Push(s, <<Op.exactn, 0>>) EXCEPT !.laststart = b(s),
                                                      !.pending = b(s) + 1]
               new == Join(u.buf, u.pending, ")")
               one == Join(s.buf, s.pending, ")")
    <3>1. t = [u EXCEPT !.buf = new] \/ t = [s EXCEPT !.buf = one]
      BY <2>1 DEF NormalChar
    <3>2. /\ DOMAIN u = CompFields /\ u.buf = Started(s.buf)
      BY <1>2 DEF Push, CompFields, Started
    <3> HIDE DEF u, t, s
    <3>3. t.buf = new \/ t.buf = one BY <3>1, <3>2, <1>2 DEF CompFields
    <3>4. Len(one) = Len(s.buf) + 1 BY <1>3, JoinBytes
    <3>5. Len(new) = Len(s.buf) + 3
      <4>1. IsBuffer(u.buf) /\ Len(u.buf) = Len(s.buf) + 2
        <5>1. IsBuffer(<<Op.exactn, 0>>) /\ Len(<<Op.exactn, 0>>) = 2 BY BufferOf2
        <5>2. PICK two : two = <<Op.exactn, 0>> OBVIOUS
        <5>3. u.buf = s.buf \o two BY <3>2, <5>2 DEF Started
        <5>4. IsBuffer(s.buf \o two) /\ Len(s.buf \o two) = Len(s.buf) + Len(two)
          BY <5>1, <5>2, <1>3, BufferCat
        <5> QED BY <5>1, <5>2, <5>3, <5>4
      <4>2. Len(new) = Len(u.buf) + 1 BY <4>1, JoinBytes
      <4> QED BY <4>1, <4>2, <1>3
    <3> HIDE DEF new, one
    <3> QED BY <3>3, <3>4, <3>5, <1>3
  <2>3. Short(s.buf)
    <3>1. PICK k : k = Len(t.buf) OBVIOUS
    <3>2. PICK j : j = Len(s.buf) OBVIOUS
    <3>3. j \in Nat /\ j <= k /\ k < 3584 BY <1>3, <2>2, <3>1, <3>2 DEF Short
    <3>4. k \in Int
      <4>1. Placed(t) BY <1>2, <2>1, NormalCharSound DEF Sound
      <4> HIDE DEF t
      <4>2. Len(t.buf) \in Nat BY <4>1, BufferLen DEF Placed, Shape
      <4> QED BY <3>1, <4>2
    <3>5. j < 3584 BY <3>3, <3>4
    <3> QED BY <3>2, <3>5 DEF Short
  <2>4. Coded(s) BY <1>1, <2>3, EndAlternativesCoded
  <2> HIDE DEF s, t
  <2>5. Coded(t) /\ t.state = "loop" BY <1>2, <2>1, <2>4, NormalCharCoded, NormalCharSound
  <2>6. CodeHolds(t) BY <2>5, CodedSays
  <2> QED BY <2>6 DEF t
<1>5. CASE s.stack # <<>>
  <2> DEFINE code == <<Op.stop_memory, top.regnum, inner>>
             place == top.laststart + 2
             one == Write(s.buf, place, inner)
             new == one \o code
  <2>1. t = [s EXCEPT !.stack = Front(@), !.begalt = top.begalt, !.fixup = top.fixup,
                      !.laststart = top.laststart, !.pending = 0, !.buf = new]
    BY <1>5 DEF CloseGroup, Write
  <2>2. top = Last(s.stack) BY DEF CompileStackTop
  <2>a. AlternativesEnd(f0, s, StackPlaces(f0), StackBarriers(f0)) \/ ~Short(s.buf)
    BY <1>1, EndAlternativesCoded
  <2> HIDE DEF f0, s, t, top, inner
  <2>3. PICK n : n = Len(s.stack) OBVIOUS
  <2>4. n \in Nat /\ n # 0 /\ n \in 1..n /\ s.stack \in Seq(Group) /\ top = s.stack[n]
    <3>1. s.stack \in Seq(Group) /\ n \in Nat BY <1>2, <2>3 DEF Placed, Shape
    <3>2. n # 0 BY <1>5, <2>3, <3>1
    <3> QED BY <3>1, <3>2, <2>2, <2>3 DEF Last
  <2>5. GroupAt(s.buf, top) /\ top \in Group
    <3>1. top \in Group BY <2>3, <2>4
    <3>2. GroupAt(s.buf, top) BY <1>2, <2>3, <2>4 DEF Placed, GroupsHold
    <3> QED BY <3>1, <3>2
  <2>6. /\ top.laststart \in Nat /\ top.laststart + 2 <= Len(s.buf)
        /\ s.buf[top.laststart] = Op.start_memory /\ s.buf[top.laststart + 1] = top.regnum
    BY <2>5 DEF GroupAt, Group
  <2>7. /\ t.buf = new /\ t.stack = Front(s.stack) /\ t.begalt = top.begalt
        /\ t.fixup = top.fixup /\ t.laststart = top.laststart /\ t.regnum = s.regnum
        /\ t.state = "loop"
    BY <1>2, <2>1 DEF CompFields
  <2>8. IsBuffer(code) /\ Len(code) = 3 BY BufferOf3
  <2> HIDE DEF code
  <2>9. IsBuffer(one) /\ Len(one) = Len(s.buf) BY <1>3, WriteKeeps
  <2> HIDE DEF one
  <2>10. Len(new) = Len(s.buf) + 3
    <3>1. Len(one \o code) = Len(one) + Len(code) BY <2>8, <2>9, BufferCat
    <3> QED BY <3>1, <2>8, <2>9
  <2>11. Short(s.buf)
    <3>1. Len(new) < 3584 BY <2>7 DEF Short, t
    <3> HIDE DEF new
    <3> QED BY <3>1, <2>10, <1>3 DEF Short
  <2> HIDE DEF new
  <2> DEFINE P == StackPlaces(s)  B == StackBarriers(s)
             B2 == B \cup {Len(s.buf) + 1, Len(new) + 1}
  <2>12. P = StackPlaces(f0) /\ B = StackBarriers(f0) BY <1>2 DEF StackPlaces, StackBarriers
  <2>13. PICK S, L : Code(s.buf, S, L, P, B, s.regnum)
    BY <2>a, <2>11, <2>12, <1>2 DEF AlternativesEnd
  <2>14. top.laststart \in B BY <2>3, <2>4 DEF StackBarriers
  <2> HIDE DEF P, B
  <2>15. /\ top.regnum \in 1..s.regnum /\ inner \in Nat /\ top.regnum + inner <= s.regnum
         /\ Code(one, S, L, P, B, s.regnum)
    <3>1. PICK f, x, G, r, i : /\ f = s.buf /\ x = top.laststart /\ G = s.regnum
                               /\ r = top.regnum /\ i = inner
      OBVIOUS
    <3>2. /\ Code(f, S, L, P, B, G) /\ x \in B /\ f[x] = Op.start_memory /\ x + 2 <= Len(f)
          /\ f[x + 1] = r /\ i = G - r
      BY <2>6, <2>13, <2>14, <3>1 DEF inner
    <3>3. r \in 1..G /\ i \in Nat /\ r + i <= G /\ Code(Write(f, x + 2, i), S, L, P, B, G)
      BY <3>2, InnerWritten
    <3> QED BY <3>1, <3>3 DEF one
  <2>16. Straight(code, s.regnum)
    <3>1. PICK v \in GroupOps : v = Op.stop_memory BY DEF GroupOps
    <3>2. Straight(<<v, top.regnum, inner>>, s.regnum) BY <2>15, <1>3, GroupBytes
    <3> QED BY <3>1, <3>2 DEF code
  <2>17. PICK S2, L2 : Code(new, S2, L2, P, B2, s.regnum)
    <3>1. s.regnum <= s.regnum BY <1>3
    <3>2. \E S1, L1 : Code(one, S1, L1, P, B, s.regnum) BY <2>15
    <3>3. \E S2, L2 : Code(one \o code, S2, L2, P,
                           B \cup {Len(one) + 1, Len(one \o code) + 1}, s.regnum)
      BY <3>1, <3>2, <2>16, <1>3, OpPushed DEF Straight
    <3> QED BY <3>3, <2>9 DEF new
  <2>18. Len(t.stack) = n - 1 /\ \A k \in 1..(n - 1) : t.stack[k] = s.stack[k] /\ k \in 1..n
    <3>1. t.stack = SubSeq(s.stack, 1, n - 1) BY <2>3, <2>7 DEF Front
    <3>2. /\ Len(SubSeq(s.stack, 1, n - 1)) = n - 1
          /\ \A i \in 1..(n - 1) : SubSeq(s.stack, 1, n - 1)[i] = s.stack[i]
      BY <2>3, <2>4
    <3>3. \A k \in 1..(n - 1) : k \in 1..n BY <2>4
    <3> QED BY <3>1, <3>2, <3>3
  <2>19. Places(t) = P
    <3>1. ASSUME NEW p \in Places(t) PROVE p \in P
      <4>1. p # 0 /\ (p = s.stack[n].fixup \/ \E k \in 1..(n - 1) : p = t.stack[k].fixup)
        BY <2>4, <2>7, <2>18 DEF Places
      <4>2. \E k \in 1..n : p = s.stack[k].fixup BY <4>1, <2>4, <2>18
      <4> QED BY <4>1, <4>2, <2>3 DEF P, StackPlaces
    <3>2. ASSUME NEW p \in P PROVE p \in Places(t)
      <4>1. PICK k \in 1..n : p = s.stack[k].fixup /\ p # 0 BY <2>3 DEF P, StackPlaces
      <4>2. k = n \/ k \in 1..(n - 1) BY <2>4
      <4>3. CASE k = n BY <4>1, <4>3, <2>4, <2>7 DEF Places
      <4>4. CASE k \in 1..(n - 1) BY <4>1, <4>4, <2>18 DEF Places
      <4> QED BY <4>2, <4>3, <4>4
    <3> QED BY <3>1, <3>2
  <2>20. Barriers(t) \subseteq B2
    <3> SUFFICES ASSUME NEW y \in Barriers(t) PROVE y \in B OBVIOUS
    <3>1. \/ y = top.begalt \/ y = top.laststart
          \/ \E k \in 1..(n - 1) : y = t.stack[k].begalt \/ y = t.stack[k].laststart
      BY <2>7, <2>18 DEF Barriers, StackBarriers
    <3>2. \E k \in 1..n : y = s.stack[k].begalt \/ y = s.stack[k].laststart
      BY <3>1, <2>4, <2>18
    <3> QED BY <3>2, <2>3 DEF B, StackBarriers
  <2> HIDE DEF B2
  <2>21. Code(t.buf, S2, L2, Places(t), Barriers(t), t.regnum)
    <3>1. Code(new, S2, L2, P, Barriers(t), s.regnum) BY <2>17, <2>20, CodeFor
    <3> QED BY <3>1, <2>7, <2>19
  <2>22. Coded(t) BY <2>21 DEF Coded, CodeOf
  <2>23. CodeHolds(t) BY <2>7, <2>22, CodedSays
  <2> QED BY <2>23 DEF t
<1> QED BY <1>4, <1>5

\* What regex_compile ends with is code, and has no place without a jump.
LEMMA FinishCode ==
  Sound(comp) /\ CodeHolds(comp) /\ Finish /\ Short(comp'.buf) => CodeHolds(comp')
<1> SUFFICES ASSUME Sound(comp), CodeHolds(comp), Finish, Short(comp'.buf)
             PROVE  CodeHolds(comp')
  OBVIOUS
<1> DEFINE s == IF comp.fixup = 0 THEN comp
                ELSE [comp EXCEPT !.buf = StoreJump(@, "jump_past_alt", comp.fixup, b(comp))]
           t == comp'
<1>1. Placed(comp) /\ comp.state = "loop" /\ Coded(comp) /\ DOMAIN comp = CompFields
  BY DEF Sound, Finish, CodeHolds, Placed, Shape
<1>2. t = Return(s, IF comp.stack = <<>> THEN "REG_NOERROR" ELSE "REG_EPAREN")
  BY DEF Finish
<1>3. PICK f, e, k : f = comp.buf /\ e = comp.fixup /\ k = Len(comp.buf) OBVIOUS
<1>4. IsBuffer(f) /\ k = Len(f) /\ k \in Nat /\ e \in Nat
  BY <1>1, <1>3, BufferLen DEF Placed, Shape
<1>5. PICK g : g = IF e = 0 THEN f ELSE StoreJump(f, "jump_past_alt", e, k + 1) OBVIOUS
<1>6. DOMAIN s = CompFields /\ s.buf = g /\ s.regnum = comp.regnum
  <2>1. CASE e = 0 BY <2>1, <1>1, <1>3, <1>5
  <2>2. CASE e # 0
    <3>1. s = [comp EXCEPT !.buf = StoreJump(f, "jump_past_alt", e, k + 1)]
      BY <2>2, <1>3 DEF b
    <3> HIDE DEF s
    <3> QED BY <2>2, <3>1, <1>1, <1>5 DEF CompFields
  <2> QED BY <2>1, <2>2
<1> HIDE DEF s
<1>7. /\ t.state = "done" /\ t.buf = g /\ t.regnum = comp.regnum
      /\ t.ret = "REG_NOERROR" => comp.stack = <<>>
  <2>1. PICK ret : /\ ret = IF comp.stack = <<>> THEN "REG_NOERROR" ELSE "REG_EPAREN"
                   /\ t = Return(s, ret)
    BY <1>2
  <2>2. ret = "REG_NOERROR" => comp.stack = <<>> BY <2>1
  <2>3. t.state = "done" /\ t.buf = s.buf /\ t.regnum = s.regnum /\ t.ret = ret
    BY <2>1, <1>6 DEF Return, CompFields
  <2> QED BY <2>2, <2>3, <1>6
<1> HIDE DEF t
<1>8. ASSUME comp.stack = <<>> PROVE Final(t)
  <2>1. Places(comp) = {e} \ {0}
    <3>1. Len(comp.stack) = 0 BY <1>8
    <3>2. StackPlaces(comp) = {} BY <3>1 DEF StackPlaces
    <3> QED BY <3>2, <1>1, <1>3, PlacesAre
  <2>2. PICK S, L : Code(f, S, L, {e} \ {0}, Barriers(comp), comp.regnum)
    BY <2>1, <1>1, <1>3 DEF Coded, CodeOf
  <2>3. CASE e = 0
    <3>1. g = f /\ {e} \ {0} = {} BY <2>3, <1>5
    <3>2. {} \subseteq Barriers(comp) OBVIOUS
    <3>3. Code(f, S, L, {}, {}, comp.regnum) BY <2>2, <3>1, <3>2, CodeFor
    <3> QED BY <3>1, <3>3, <1>7 DEF Final
  <2>4. CASE e # 0
    <3>1. {e} \ {0} = {e} /\ e \in {e} BY <2>4
    <3>2. /\ e \in Nat /\ 1 <= e /\ e + 3 <= k + 1
      <4>1. Ordered(comp) BY <1>1, PlacedIsOrdered
      <4>2. /\ Here(comp) <= e /\ comp.begalt = e + 3 /\ comp.begalt <= k + 1
            /\ Here(comp) \in Nat /\ 1 <= Here(comp)
        BY <4>1, <2>4, <1>3 DEF Ordered
      <4> QED BY <4>2, <1>4
    <3>3. PICK to : to = k + 1 OBVIOUS
    <3>4. e \in 1..Len(f) /\ e + 2 <= Len(f) BY <3>2, <1>4
    <3>5. /\ IsBuffer(g) /\ Len(g) = Len(f)
          /\ \A i \in 1..Len(f) : i < e \/ e + 2 < i => g[i] = f[i]
          /\ HasJump(g, e, Op.jump_past_alt, to - e - 3)
      <4>1. g = StoreJump(f, "jump_past_alt", e, to) BY <2>4, <3>3, <1>5
      <4> QED BY <4>1, <3>2, <3>4, <1>4, StoreKeeps, StoreJumpHas
    <3>6. PICK n : n = to - e - 3 OBVIOUS
    <3>7. Fit(n) /\ 0 <= n /\ e + 3 + n = k + 1
      <4>1. Len(g) < 3584 BY <1>7 DEF Short, t
      <4> QED BY <4>1, <3>2, <3>3, <3>5, <3>6, <1>4 DEF Fit
    <3>8. e + 3 + n \in S /\ L[e + 3 + n] = 0 BY <2>2, <3>7, <1>4 DEF Code
    <3>9. HasJump(g, e, Op.jump_past_alt, n) BY <3>5, <3>6
    <3>10. Code(f, S, L, {e}, Barriers(comp), comp.regnum) BY <2>2, <3>1
    <3>11. \A y \in {} : y \in Barriers(comp) /\ (y <= e \/ e + 3 + n <= y) OBVIOUS
    <3>12. Code(g, S, L, {e} \ {e}, {}, comp.regnum)
      BY <3>1, <3>5, <3>7, <3>8, <3>9, <3>10, <3>11, PlaceFilled
    <3>13. {e} \ {e} = {} OBVIOUS
    <3> QED BY <3>12, <3>13, <1>7 DEF Final
  <2> QED BY <2>3, <2>4
<1>9. CodeHolds(t) BY <1>7, <1>8 DEF CodeHolds
<1> QED BY <1>9 DEF t

-----------------------------------------------------------------------------
LEMMA CompileStepCode ==
  CompilerHolds /\ CodeHolds(comp) /\ CompileStep /\ Short(comp'.buf) => CodeHolds(comp')
<1> SUFFICES ASSUME CompilerHolds, CodeHolds(comp), CompileStep, Short(comp'.buf)
             PROVE  CodeHolds(comp')
  OBVIOUS
<1>1. Sound(comp) /\ BracketHolds(comp) BY DEF CompilerHolds
<1> QED
  BY <1>1, LiteralCode, AnchorCode, AnyCharCode, RepetitionCode, OpenBracketCode,
     BracketItemCode, OpenGroupCode, CloseGroupCode, AlternativeCoded, IntervalCoded,
     BackslashCode, FinishCode
  DEF CompileStep

\* No code is code, with nothing but its end.
LEMMA EmptyCode ==
  ASSUME NEW G \in Nat, NEW B, B \subseteq {1}
  PROVE  Code(<<>>, {1}, [q \in {1} |-> 0], {}, B, G)
<1> DEFINE L == [q \in {1} |-> 0]
<1>1. IsBuffer(<<>>) /\ Len(<<>>) = 0 BY DEF IsBuffer
<1>2. Ops(<<>>, {1}, {}) = {} BY <1>1 DEF Ops
<1>3. L \in [{1} -> Nat] /\ L[1] = 0 OBVIOUS
<1> HIDE DEF L
<1>4. \A y \in B : Barrier(<<>>, {1}, L, {}, y) BY <1>2, <1>3 DEF Barrier
<1>5. Code(<<>>, {1}, L, {}, B, G) BY <1>1, <1>2, <1>3, <1>4 DEF Code
<1> QED BY <1>5 DEF L

LEMMA InitCode == CodeHolds(CompileInit)
<1> DEFINE s == CompileInit
<1>1. /\ s.state = "loop" /\ s.buf = <<>> /\ s.stack = <<>>
      /\ s.begalt = 1 /\ s.fixup = 0 /\ s.laststart = 0 /\ s.regnum = 0
  BY DEF CompileInit
<1> HIDE DEF s
<1>2. Len(s.stack) = 0 BY <1>1
<1>3. Places(s) = {} BY <1>1, <1>2 DEF Places
<1>4. Barriers(s) \subseteq {1} BY <1>1, <1>2 DEF Barriers, StackBarriers
<1>5. Coded(s) BY <1>1, <1>3, <1>4, EmptyCode DEF Coded, CodeOf
<1> QED BY <1>1, <1>5 DEF CodeHolds, s

\* The compiled code is so short that the high byte of a displacement in it
\* is less than any op code of a jump: 3584 bytes.
ShortCode == Short(comp.buf)

LEMMA CompilerCodeInit == ObjectsInit => CodeHolds(comp)
BY InitCode DEF ObjectsInit, Constructed

LEMMA CompilerCodeNext ==
  CompilerHolds /\ CodeHolds(comp) /\ ShortCode' /\ [ObjectsNext]_regexpVars => CodeHolds(comp)'
<1> SUFFICES ASSUME CompilerHolds, CodeHolds(comp), ShortCode', [ObjectsNext]_regexpVars
             PROVE  CodeHolds(comp')
  BY DEF CodeHolds, Coded, Final
<1>1. CASE Compile BY <1>1, CompileStepCode DEF Compile, ShortCode
<1>2. ASSUME NEW pat \in Seq(Symbols), Construct(pat) PROVE CodeHolds(comp')
  BY <1>2, InitCode DEF Construct
<1>3. CASE UNCHANGED <<pattern, comp>> BY <1>3
<1>4. \/ Compile \/ UNCHANGED <<pattern, comp>>
      \/ \E pat \in Seq(Symbols) : Construct(pat)
  BY DEF ObjectsNext, RegexpStep, Run, Match, regexpVars
<1> QED BY <1>1, <1>2, <1>3, <1>4

-----------------------------------------------------------------------------
(***************************************************************************)
(* The matcher: what its operators do to the locals.                       *)
(***************************************************************************)

MatchFields == {"state", "buf", "p", "d", "pos", "stack", "avail", "size", "low", "high",
                "start", "end", "old_start", "old_end", "null", "active", "matched", "ever",
                "best", "ret"}

\* The locals, for a pattern of G groups.
RunShape(s, G) ==
    /\ DOMAIN s = MatchFields /\ IsBuffer(s.stack) /\ DOMAIN s.start = 1..G
    /\ s.best # <<>> => DOMAIN s.best.start = 1..G

\* The code, the failure stack and what is kept for the end are the same.
SameRun(s, t) ==
    /\ DOMAIN t = MatchFields /\ t.buf = s.buf /\ t.stack = s.stack /\ t.best = s.best
    /\ DOMAIN t.start = DOMAIN s.start

LEMMA SameShape ==
  ASSUME NEW s, NEW t, NEW G, RunShape(s, G), SameRun(s, t)
  PROVE  RunShape(t, G)
BY DEF RunShape, SameRun

LEMMA MatchInitIs ==
  ASSUME NEW f, NEW G, NEW pos
  PROVE  LET s == MatchInit(f, G, pos)
         IN  RunShape(s, G) /\ s.state = "match" /\ s.buf = f /\ s.p = 1 /\ s.stack = <<>>
<1> DEFINE s == MatchInit(f, G, pos)
<1>1. /\ DOMAIN s = MatchFields /\ s.state = "match" /\ s.buf = f /\ s.p = 1 /\ s.stack = <<>>
      /\ s.best = <<>> /\ s.start = [r \in 1..G |-> REG_UNSET_VALUE]
  BY DEF MatchInit, MatchFields
<1> HIDE DEF s
<1>2. IsBuffer(<<>>) BY DEF IsBuffer
<1>3. RunShape(s, G) BY <1>1, <1>2 DEF RunShape
<1>4. RunShape(s, G) /\ s.state = "match" /\ s.buf = f /\ s.p = 1 /\ s.stack = <<>>
  BY <1>1, <1>3
<1> QED BY <1>4 DEF s

LEMMA FailIs ==
  ASSUME NEW s, DOMAIN s = MatchFields
  PROVE  SameRun(s, Fail(s)) /\ Fail(s).state = "fail"
BY DEF Fail, SameRun, MatchFields

LEMMA SkipIs ==
  ASSUME NEW s, DOMAIN s = MatchFields, NEW n
  PROVE  SameRun(s, Skip(s, n)) /\ Skip(s, n).state = s.state /\ Skip(s, n).p = s.p + n
BY DEF Skip, SameRun, MatchFields

LEMMA JumpIs ==
  ASSUME NEW s, DOMAIN s = MatchFields
  PROVE  SameRun(s, Jump(s)) /\ Jump(s).state = s.state /\ Jump(s).p = Target(s.buf, s.p)
BY DEF Jump, SameRun, MatchFields, Target

LEMMA ConsumeIs ==
  ASSUME NEW s, DOMAIN s = MatchFields, NEW n
  PROVE  /\ SameRun(s, Consume(s, n)) /\ Consume(s, n).state = s.state
         /\ Consume(s, n).p = s.p
BY DEF Consume, SameRun, MatchFields

LEMMA AcceptIs ==
  ASSUME NEW s, DOMAIN s = MatchFields
  PROVE  SameRun(s, Accept(s)) /\ Accept(s).state = "done"
BY DEF Accept, SameRun, MatchFields

LEMMA RestoreIs ==
  ASSUME NEW s, NEW G, RunShape(s, G), s.best # <<>>
  PROVE  SameRun(s, RestoreBestRegs(s))
<1>1. DOMAIN s = MatchFields /\ DOMAIN s.start = DOMAIN s.best.start BY DEF RunShape
<1> QED BY <1>1 DEF RestoreBestRegs, SameRun, MatchFields

\* A failure point on the stack, or none when it overflows.
Point(s, place, string) ==
    [p |-> place, d |-> string, low |-> s.low, high |-> s.high,
     regs |-> [r \in s.low..s.high |-> Register(s, r)]]

LEMMA PushIs ==
  ASSUME NEW s, DOMAIN s = MatchFields, NEW place, NEW string
  PROVE  LET t == PushFailurePoint(s, place, string)
         IN  /\ DOMAIN t = MatchFields /\ t.buf = s.buf /\ t.best = s.best
             /\ t.start = s.start /\ t.p = s.p
             /\ \/ t.state = "done" /\ t.stack = s.stack
                \/ t.state = s.state /\ t.stack = Append(s.stack, Point(s, place, string))
<1> DEFINE t == PushFailurePoint(s, place, string)
<1>1. CASE GrownSize(s) = 0
  <2>1. t = [s EXCEPT !.state = "done", !.ret = "error"] BY <1>1 DEF PushFailurePoint
  <2> HIDE DEF t
  <2>2. /\ DOMAIN t = MatchFields /\ t.buf = s.buf /\ t.best = s.best
        /\ t.start = s.start /\ t.p = s.p /\ t.state = "done" /\ t.stack = s.stack
    BY <2>1 DEF MatchFields
  <2> QED BY <2>2 DEF t
<1>2. CASE GrownSize(s) # 0
  <2>1. PICK n, a : n = GrownSize(s) /\ a = ItemsPushed(s) OBVIOUS
  <2>2. t = [s EXCEPT !.size = n, !.avail = @ + a,
                      !.stack = Append(@, Point(s, place, string))]
    BY <1>2, <2>1 DEF PushFailurePoint, Point
  <2> HIDE DEF t
  <2>3. /\ DOMAIN t = MatchFields /\ t.buf = s.buf /\ t.best = s.best
        /\ t.start = s.start /\ t.p = s.p /\ t.state = s.state
        /\ t.stack = Append(s.stack, Point(s, place, string))
    BY <2>2 DEF MatchFields
  <2> QED BY <2>3 DEF t
<1> QED BY <1>1, <1>2

LEMMA DiscardIs ==
  ASSUME NEW s, DOMAIN s = MatchFields
  PROVE  LET t == Discard(s)
         IN  /\ DOMAIN t = MatchFields /\ t.buf = s.buf /\ t.best = s.best
             /\ t.start = s.start /\ t.p = s.p /\ t.state = s.state
             /\ t.stack = Front(s.stack)
<1>1. PICK a : a = ItemsPushed(Last(s.stack)) OBVIOUS
<1> DEFINE t == Discard(s)
<1>2. t = [s EXCEPT !.stack = Front(@), !.avail = @ - a] BY <1>1 DEF Discard
<1> HIDE DEF t
<1>3. /\ DOMAIN t = MatchFields /\ t.buf = s.buf /\ t.best = s.best
      /\ t.start = s.start /\ t.p = s.p /\ t.state = s.state
      /\ t.stack = Front(s.stack)
  BY <1>2 DEF MatchFields
<1> QED BY <1>3 DEF t

LEMMA PopIs ==
  ASSUME DOMAIN m = MatchFields
  PROVE  LET t == PopFailurePoint(m)
         IN  /\ DOMAIN t = MatchFields /\ t.buf = m.buf /\ t.best = m.best
             /\ DOMAIN t.start = DOMAIN m.start /\ t.p = Last(m.stack).p
             /\ t.state = m.state /\ t.stack = Front(m.stack)
<1> DEFINE s == Discard(m)  f == Last(m.stack)
           t == PopFailurePoint(m)
           Saved(r, k, default) == IF r \in DOMAIN f.regs THEN f.regs[r][k] ELSE default
<1>1. /\ DOMAIN s = MatchFields /\ s.buf = m.buf /\ s.best = m.best
      /\ s.start = m.start /\ s.state = m.state /\ s.stack = Front(m.stack)
  BY DiscardIs
<1>2. PICK st : st = [r \in Groups |-> Saved(r, 1, s.start[r])] OBVIOUS
<1>3. DOMAIN st = Groups BY <1>2
<1>a. \E e, n, a, mt, ev, d :
        t = [s EXCEPT !.p = f.p, !.d = d, !.low = f.low, !.high = f.high, !.start = st,
                      !.end = e, !.null = n, !.active = a, !.matched = mt, !.ever = ev]
  BY <1>2 DEF PopFailurePoint
<1> HIDE DEF s, t
<1>b. PICK e, n, a, mt, ev, d :
        t = [s EXCEPT !.p = f.p, !.d = d, !.low = f.low, !.high = f.high, !.start = st,
                      !.end = e, !.null = n, !.active = a, !.matched = mt, !.ever = ev]
  BY <1>a
<1> HIDE DEF f
<1>4. /\ DOMAIN t = MatchFields /\ t.buf = s.buf /\ t.best = s.best
      /\ DOMAIN t.start = Groups /\ t.p = f.p /\ t.state = s.state /\ t.stack = s.stack
  BY <1>1, <1>3, <1>b DEF MatchFields
<1>5. /\ DOMAIN t = MatchFields /\ t.buf = m.buf /\ t.best = m.best
      /\ DOMAIN t.start = DOMAIN m.start /\ t.p = f.p
      /\ t.state = m.state /\ t.stack = Front(m.stack)
  BY <1>1, <1>4 DEF Groups
<1> QED BY <1>5 DEF t, f

-----------------------------------------------------------------------------
\* The places on the failure stack are ops, with enough points below them.
StackHolds(s, S, L) ==
    \A i \in 1..Len(s.stack) :
        s.stack[i].p = NullPointer \/ (s.stack[i].p \in S /\ L[s.stack[i].p] <= i - 1)

\* What is run next is the op after k more no_ops.
Stands(s, S, L, k) ==
    /\ s.p \in Int /\ s.p + k \in S /\ L[s.p + k] <= Len(s.stack)
    /\ \A i \in s.p..(s.p + k - 1) : Is(s.buf, i, "no_op")

RunsOn(s, S, L, G) ==
    /\ Code(s.buf, S, L, {}, {}, G) /\ RunShape(s, G) /\ StackHolds(s, S, L)
    /\ s.state = "match" => \E k \in 0..2 : Stands(s, S, L, k)

LEMMA FrontIs ==
  ASSUME NEW f, IsBuffer(f), f # <<>>
  PROVE  /\ IsBuffer(Front(f)) /\ Len(Front(f)) = Len(f) - 1 /\ Len(f) \in Nat /\ 1 <= Len(f)
         /\ \A i \in 1..(Len(f) - 1) : Front(f)[i] = f[i]
         /\ Last(f) = f[Len(f)]
<1>1. PICK k : k = Len(f) OBVIOUS
<1>2. k \in Nat /\ f \in Seq(Range(f)) BY <1>1, BufferLen DEF IsBuffer
<1>3. k # 0 BY <1>1, <1>2, EmptySeq
<1>4. k - 1 \in Nat /\ 1 <= (k - 1) + 1 /\ k - 1 <= Len(f) BY <1>1, <1>2, <1>3
<1>5. Front(f) = SubSeq(f, 1, k - 1) BY <1>1 DEF Front
<1>6. /\ IsBuffer(SubSeq(f, 1, k - 1)) /\ Len(SubSeq(f, 1, k - 1)) = (k - 1) + 1 - 1
      /\ \A i \in 1..((k - 1) + 1 - 1) : SubSeq(f, 1, k - 1)[i] = f[1 + i - 1]
  <2>1. PICK j, o : j = k - 1 /\ o = 1 OBVIOUS
  <2>2. j \in Nat /\ o \in Nat /\ 1 <= o /\ o <= j + 1 /\ j <= Len(f) BY <1>4, <2>1
  <2>3. /\ IsBuffer(SubSeq(f, o, j)) /\ Len(SubSeq(f, o, j)) = j + 1 - o
        /\ \A i \in 1..(j + 1 - o) : SubSeq(f, o, j)[i] = f[o + i - 1]
    BY <2>2, BufferPart
  <2> QED BY <2>1, <2>3
<1>7. (k - 1) + 1 - 1 = k - 1 BY <1>2
<1>8. \A i \in 1..(k - 1) : Front(f)[i] = f[i]
  <2> SUFFICES ASSUME NEW i \in 1..(k - 1) PROVE Front(f)[i] = f[i] OBVIOUS
  <2>1. 1 + i - 1 = i OBVIOUS
  <2> QED BY <1>5, <1>6, <1>7, <2>1
<1>9. Len(Front(f)) = k - 1 /\ IsBuffer(Front(f)) BY <1>5, <1>6, <1>7
<1> QED BY <1>1, <1>2, <1>3, <1>8, <1>9 DEF Last

\* The stack after a step: as it was, without its last point, or with
\* another one.
Stacked(s, t, S, L) ==
    \/ t.stack = s.stack
    \/ s.stack # <<>> /\ t.stack = Front(s.stack)
    \/ \E x : /\ t.stack = Append(s.stack, x)
              /\ x.p = NullPointer \/ (x.p \in S /\ L[x.p] <= Len(s.stack))

LEMMA StackKept ==
  ASSUME NEW s, NEW t, NEW S, NEW L, IsBuffer(s.stack), StackHolds(s, S, L),
         Stacked(s, t, S, L)
  PROVE  IsBuffer(t.stack) /\ StackHolds(t, S, L)
<1>1. Len(s.stack) \in Nat BY BufferLen
<1>2. CASE t.stack = s.stack BY <1>2 DEF StackHolds
<1>3. CASE s.stack # <<>> /\ t.stack = Front(s.stack)
  <2>1. PICK f : f = s.stack OBVIOUS
  <2>2. PICK n : n = Len(f) OBVIOUS
  <2>3. /\ IsBuffer(Front(f)) /\ Len(Front(f)) = n - 1 /\ n \in Nat /\ 1 <= n
        /\ \A i \in 1..(n - 1) : Front(f)[i] = f[i]
    BY <2>1, <2>2, <1>3, FrontIs
  <2>4. ASSUME NEW i \in 1..(n - 1)
        PROVE  f[i].p = NullPointer \/ (f[i].p \in S /\ L[f[i].p] <= i - 1)
    <3>1. i \in 1..n BY <2>3
    <3> QED BY <3>1, <2>1, <2>2 DEF StackHolds
  <2> QED BY <1>3, <2>1, <2>3, <2>4 DEF StackHolds
<1>4. CASE \E x : /\ t.stack = Append(s.stack, x)
                  /\ x.p = NullPointer \/ (x.p \in S /\ L[x.p] <= Len(s.stack))
  <2>1. PICK f, n : f = s.stack /\ n = Len(s.stack) OBVIOUS
  <2>2. PICK x : /\ t.stack = Append(f, x)
                 /\ x.p = NullPointer \/ (x.p \in S /\ L[x.p] <= n)
    BY <1>4, <2>1
  <2>3. PICK g : g = Append(f, x) OBVIOUS
  <2>4. IsBuffer(g) /\ Len(g) = n + 1 /\ (\A i \in 1..n : g[i] = f[i]) /\ g[n + 1] = x
    BY <2>1, <2>3, BufferAppend DEF Agree
  <2>5. ASSUME NEW i \in 1..(n + 1)
        PROVE  g[i].p = NullPointer \/ (g[i].p \in S /\ L[g[i].p] <= i - 1)
    <3>0. n \in Nat BY <2>1, <1>1
    <3>1. CASE i = n + 1
      <4>1. i - 1 = n BY <3>0, <3>1
      <4> QED BY <3>1, <4>1, <2>2, <2>4
    <3>2. CASE i # n + 1
      <4>1. i \in 1..n BY <3>0, <3>2
      <4> QED BY <4>1, <2>1, <2>4 DEF StackHolds
    <3> QED BY <3>1, <3>2
  <2> QED BY <2>2, <2>3, <2>4, <2>5 DEF StackHolds
<1> QED BY <1>2, <1>3, <1>4 DEF Stacked

LEMMA NextRuns ==
  ASSUME NEW s, NEW t, NEW S, NEW L, NEW G, RunsOn(s, S, L, G), Code(t.buf, S, L, {}, {}, G),
         DOMAIN t = MatchFields, t.best = s.best, DOMAIN t.start = DOMAIN s.start,
         Stacked(s, t, S, L), t.state = "match" => \E k \in 0..2 : Stands(t, S, L, k)
  PROVE  RunsOn(t, S, L, G)
<1>1. IsBuffer(t.stack) /\ StackHolds(t, S, L) BY StackKept DEF RunsOn, RunShape
<1>2. RunShape(t, G) BY <1>1 DEF RunsOn, RunShape
<1> QED BY <1>1, <1>2 DEF RunsOn

\* At an op.
LEMMA StandsAt ==
  ASSUME NEW s, NEW S, NEW L, S \subseteq Nat, s.p \in S, L[s.p] <= Len(s.stack)
  PROVE  \E k \in 0..2 : Stands(s, S, L, k)
<1>0. PICK q : q = s.p OBVIOUS
<1>1. q \in Int /\ q + 0 = q /\ q + 0 - 1 < q
  <2>1. q \in Nat BY <1>0
  <2> QED BY <2>1
<1>2. \A i \in q..(q + 0 - 1) : Is(s.buf, i, "no_op") BY <1>1
<1>3. Stands(s, S, L, 0) BY <1>0, <1>1, <1>2 DEF Stands
<1> QED BY <1>3

LEMMA AddressesOf ==
  ASSUME NEW f, NEW S, NEW L, NEW P, NEW B, NEW G, Code(f, S, L, P, B, G)
  PROVE  S \subseteq Nat /\ IsBuffer(f) /\ Len(f) \in Nat /\ L \in [S -> Nat]
         /\ S \subseteq 1..(Len(f) + 1) /\ G \in Nat
BY BufferLen DEF Code

\* Nothing is written or pushed.
LEMMA MovesOn ==
  ASSUME NEW s, NEW t, NEW S, NEW L, NEW G, RunsOn(s, S, L, G), SameRun(s, t),
         t.state = "match" => t.p \in S /\ L[t.p] <= Len(s.stack)
  PROVE  RunsOn(t, S, L, G)
<1>1. Stacked(s, t, S, L) BY DEF Stacked, SameRun
<1>2. Code(t.buf, S, L, {}, {}, G) BY DEF RunsOn, SameRun
<1>3. t.state = "match" => \E k \in 0..2 : Stands(t, S, L, k)
  BY <1>2, AddressesOf, StandsAt DEF SameRun
<1> QED BY <1>1, <1>2, <1>3, NextRuns DEF SameRun

\* The op that is run: it is one of the code, and its kind says where it
\* may go on.
At1(s, S, L, G, q, f) ==
    /\ f = s.buf /\ q = s.p /\ q \in Nat /\ 1 <= q /\ q <= Len(f) /\ q \in Ops(f, S, {})
    /\ q \in S /\ L[q] \in Nat /\ L[q] <= Len(s.stack) /\ OpOK(f, S, L, G, q)

LEMMA RunsOp ==
  ASSUME NEW S, NEW L, NEW G, RunsOn(m, S, L, G), NEW op, Executes(op),
         Op[op] # Garbage, Op[op] # Op.no_op
  PROVE  At1(m, S, L, G, m.p, m.buf) /\ m.buf[m.p] = Op[op]
<1>1. PICK f, q : f = m.buf /\ q = m.p OBVIOUS
<1>2. m.state = "match" /\ q \in DOMAIN f /\ f[q] = Op[op]
  BY <1>1 DEF Executes, Is, Byte
<1>3. Code(f, S, L, {}, {}, G) BY <1>1 DEF RunsOn
<1>4. S \subseteq Nat /\ IsBuffer(f) /\ Len(f) \in Nat /\ L \in [S -> Nat]
      /\ S \subseteq 1..(Len(f) + 1)
  BY <1>3, AddressesOf
<1>5. PICK k \in 0..2 : Stands(m, S, L, k) BY <1>2 DEF RunsOn
<1>6. k = 0
  <2>1. q \in Int /\ \A i \in q..(q + k - 1) : Is(f, i, "no_op") BY <1>1, <1>5 DEF Stands
  <2>2. k # 0 => q \in q..(q + k - 1) BY <2>1
  <2> QED BY <2>1, <2>2, <1>2 DEF Is, Byte
<1>7. q \in Int /\ q + 0 = q /\ q \in S /\ L[q] <= Len(m.stack)
  <2>1. q \in Int /\ q + 0 \in S /\ L[q + 0] <= Len(m.stack) BY <1>1, <1>5, <1>6 DEF Stands
  <2>2. q + 0 = q BY <2>1
  <2> QED BY <2>1, <2>2
<1>8. q \in 1..Len(f) BY <1>2, <1>4, BufferLen
<1>9. q \in Ops(f, S, {}) BY <1>4, <1>7, <1>8 DEF Ops
<1>10. OpOK(f, S, L, G, q) BY <1>3, <1>9 DEF Code
<1>11. L[q] \in Nat BY <1>4, <1>7
<1> QED BY <1>1, <1>2, <1>4, <1>7, <1>8, <1>9, <1>10, <1>11 DEF At1

-----------------------------------------------------------------------------
(***************************************************************************)
(* The matcher: where each op goes on.                                     *)
(***************************************************************************)

LEMMA SizeIs ==
  ASSUME NEW f, NEW q
  PROVE  /\ f[q] \in PlainOps => Size(f, q) = 1
         /\ f[q] \in CountedOps => Size(f, q) = 2 + f[q + 1]
         /\ f[q] = Op.duplicate => Size(f, q) = 2
         /\ f[q] \in GroupOps => Size(f, q) = 3
<1> DEFINE o == f[q]
<1>1. /\ o \in CountedOps => o \notin PlainOps
      /\ o = Op.duplicate => o \notin PlainOps /\ o \notin CountedOps
      /\ o \in GroupOps => /\ o \notin PlainOps /\ o \notin CountedOps /\ o # Op.duplicate
                           /\ o \notin CountingOps \cup {Op.set_number_at}
  <2> HIDE DEF o
  <2> QED BY OpCodes, OpKinds
<1> QED BY <1>1, Zenon DEF Size

LEMMA StraightCodes == \A o \in StraightOps : o # Garbage /\ o # Op.no_op
BY OpCodes, OpKinds DEF StraightOps, Garbage

LEMMA LeadsOn ==
  ASSUME NEW s, NEW S, NEW L, NEW G, NEW q, NEW f, At1(s, S, L, G, q, f), NEW d \in {-1, 0, 1},
         NEW t \in Int, Leads(f, q, t, d)
  PROVE  t \in S /\ L[t] <= L[q] + d
BY DEF At1, OpOK

\* An op that matches, or does not, and goes on behind itself.
LEMMA StraightRuns ==
  ASSUME NEW S, NEW L, NEW G, RunsOn(m, S, L, G), NEW op, Executes(op), Op[op] \in StraightOps,
         NEW t, SameRun(m, t), t.state = "match" => t.p = m.p + Size(m.buf, m.p)
  PROVE  RunsOn(t, S, L, G)
<1>1. PICK f, q : f = m.buf /\ q = m.p OBVIOUS
<1>2. Op[op] # Garbage /\ Op[op] # Op.no_op BY StraightCodes
<1>3. At1(m, S, L, G, q, f) /\ f[q] = Op[op] BY <1>1, <1>2, RunsOp
<1>4. PICK n : n = Size(f, q) OBVIOUS
<1>5. q \in Nat /\ n \in Nat
  <2>1. q \in Nat /\ Args(f, q, G) BY <1>3 DEF At1, OpOK
  <2> QED BY <2>1, <1>4, SizeOf
<1>6. Leads(f, q, q + n, 0) BY <1>3, <1>4, StraightOp
<1>7. q + n \in S /\ L[q + n] <= L[q] + 0
  <2>1. q + n \in Int BY <1>5
  <2>2. \A d \in {-1, 0, 1} : Leads(f, q, q + n, d) => q + n \in S /\ L[q + n] <= L[q] + d
    BY <2>1, <1>3, LeadsOn
  <2> QED BY <2>2, <1>6
<1>8. L[q + n] <= Len(m.stack)
  <2>1. PICK x, y, z : x = L[q + n] /\ y = L[q] /\ z = Len(m.stack) OBVIOUS
  <2>2. Code(f, S, L, {}, {}, G) /\ IsBuffer(m.stack) BY <1>1 DEF RunsOn, RunShape
  <2>3. x \in Nat /\ y \in Nat /\ z \in Nat
    <3>1. L \in [S -> Nat] BY <2>2, AddressesOf
    <3> QED BY <3>1, <2>1, <2>2, <1>3, <1>7, BufferLen DEF At1
  <2>4. x <= y + 0 /\ y <= z BY <2>1, <1>3, <1>7 DEF At1
  <2> QED BY <2>1, <2>3, <2>4
<1>9. t.state = "match" => t.p = q + n BY <1>1, <1>4
<1> QED BY <1>7, <1>8, <1>9, MovesOn

LEMMA OpClasses ==
  /\ \A op \in {"anychar", "wordchar", "notwordchar", "begline", "endline", "begbuf", "endbuf",
                "wordbound", "notwordbound", "wordbeg", "wordend"} : Op[op] \in PlainOps
  /\ \A op \in {"charset", "charset_not", "exactn"} : Op[op] \in CountedOps
  /\ \A op \in {"start_memory", "stop_memory"} : Op[op] \in GroupOps
BY DEF PlainOps, CountedOps, GroupOps

LEMMA ExactNRuns ==
  ASSUME NEW S, NEW L, NEW G, RunsOn(m, S, L, G), ExactN
  PROVE  RunsOn(m', S, L, G)
<1>1. DOMAIN m = MatchFields BY DEF RunsOn, RunShape
<1>2. PICK n : n = m.buf[m.p + 1] OBVIOUS
<1>3. Executes("exactn") /\ (m' = Skip(Consume(m, n), n + 2) \/ m' = Fail(m))
  BY <1>2 DEF ExactN
<1>4. Op["exactn"] \in CountedOps BY OpClasses
<1>5. m.buf[m.p] = Op["exactn"] BY <1>3, NoGarbageOp DEF Executes, Is, Byte
<1>6. Size(m.buf, m.p) = 2 + n BY <1>2, <1>4, <1>5, SizeIs
<1>7. SameRun(m, m') /\ (m'.state = "match" => m'.p = m.p + (n + 2))
  <2>1. PICK s : s = Consume(m, n) OBVIOUS
  <2>2. SameRun(m, s) /\ s.p = m.p /\ DOMAIN s = MatchFields
    BY <1>1, <2>1, ConsumeIs DEF SameRun
  <2>3. CASE m' = Skip(Consume(m, n), n + 2)
    <3>1. SameRun(s, m') /\ m'.p = s.p + (n + 2) BY <2>1, <2>2, <2>3, SkipIs
    <3> QED BY <2>2, <3>1 DEF SameRun
  <2>4. CASE m' = Fail(m) BY <2>4, <1>1, FailIs
  <2> QED BY <1>3, <2>3, <2>4
<1>8. n + 2 = 2 + n
  <2>1. Args(m.buf, m.p, G) /\ m.p \in Nat
    <3>1. Op["exactn"] # Garbage /\ Op["exactn"] # Op.no_op
      BY <1>4, StraightCodes DEF StraightOps
    <3> QED BY <1>3, <3>1, RunsOp DEF At1, OpOK
  <2>2. n \in Nat BY <2>1, <1>2, <1>4, <1>5, SizeOf
  <2> QED BY <2>2
<1>9. Op["exactn"] \in StraightOps BY <1>4 DEF StraightOps
<1> QED BY <1>3, <1>6, <1>7, <1>8, <1>9, StraightRuns

\* The op that is executed is the one at p.
LEMMA ExecutesIs ==
  ASSUME NEW op, Executes(op), Op[op] # Garbage
  PROVE  m.buf[m.p] = Op[op] /\ m.state = "match"
BY DEF Executes, Is, Byte

LEMMA MatchOneCharRuns ==
  ASSUME NEW S, NEW L, NEW G, RunsOn(m, S, L, G), MatchOneChar
  PROVE  RunsOn(m', S, L, G)
<1>1. DOMAIN m = MatchFields BY DEF RunsOn, RunShape
<1>2. PICK n : n = OneCharSize OBVIOUS
<1>3. PICK op \in {"anychar", "charset", "charset_not", "wordchar", "notwordchar"} : Executes(op)
  BY DEF MatchOneChar
<1>4. m' = Skip(Consume(m, 1), n) \/ m' = Fail(m) BY <1>2 DEF MatchOneChar
<1>5. Op[op] # Garbage BY NoGarbageOp
<1>6. m.buf[m.p] = Op[op] BY <1>3, <1>5, ExecutesIs
<1>7. /\ op \in {"charset", "charset_not"} => Op[op] \in CountedOps
      /\ op \notin {"charset", "charset_not"} => Op[op] \in PlainOps
  BY OpClasses
<1>8. n = Size(m.buf, m.p)
  <2>1. CASE op \in {"charset", "charset_not"}
    <3>1. Executes("charset") \/ Executes("charset_not") BY <1>3, <2>1
    <3>2. n = 2 + m.buf[m.p + 1] BY <1>2, <3>1 DEF OneCharSize
    <3> QED BY <3>2, <2>1, <1>6, <1>7, SizeIs
  <2>2. CASE op \notin {"charset", "charset_not"}
    <3>1. \A c \in {"charset", "charset_not"} : ~Executes(c)
      <4> SUFFICES ASSUME NEW c \in {"charset", "charset_not"}, Executes(c) PROVE FALSE OBVIOUS
      <4>1. Op[c] # Garbage BY NoGarbageOp
      <4>2. m.buf[m.p] = Op[c] BY <4>1, ExecutesIs
      <4>3. Op[c] \in CountedOps /\ Op[op] \in PlainOps BY <2>2, <1>7, OpClasses
      <4> QED BY <4>2, <4>3, <1>6, OpKinds
    <3>2. n = 1 BY <1>2, <3>1 DEF OneCharSize
    <3> QED BY <3>2, <2>2, <1>6, <1>7, SizeIs
  <2> QED BY <2>1, <2>2
<1>9. SameRun(m, m') /\ (m'.state = "match" => m'.p = m.p + n)
  <2>1. PICK s : s = Consume(m, 1) OBVIOUS
  <2>2. SameRun(m, s) /\ s.p = m.p /\ DOMAIN s = MatchFields
    BY <1>1, <2>1, ConsumeIs DEF SameRun
  <2>3. CASE m' = Skip(Consume(m, 1), n)
    <3>1. SameRun(s, m') /\ m'.p = s.p + n BY <2>1, <2>2, <2>3, SkipIs
    <3> QED BY <2>2, <3>1 DEF SameRun
  <2>4. CASE m' = Fail(m) BY <2>4, <1>1, FailIs
  <2> QED BY <1>4, <2>3, <2>4
<1>10. Op[op] \in StraightOps BY <1>7 DEF StraightOps
<1> QED BY <1>3, <1>8, <1>9, <1>10, StraightRuns

LEMMA PlaceRuns ==
  ASSUME NEW S, NEW L, NEW G, RunsOn(m, S, L, G), Place
  PROVE  RunsOn(m', S, L, G)
<1>1. DOMAIN m = MatchFields BY DEF RunsOn, RunShape
<1>3. PICK op \in {"begline", "endline", "begbuf", "endbuf", "wordbound", "notwordbound",
                   "wordbeg", "wordend"} : /\ Executes(op)
                                           /\ m' = IF PlaceIs(op) THEN Skip(m, 1) ELSE Fail(m)
  BY DEF Place
<1>4. m' = Skip(m, 1) \/ m' = Fail(m) BY <1>3
<1>5. Op[op] # Garbage BY NoGarbageOp
<1>6. m.buf[m.p] = Op[op] BY <1>3, <1>5, ExecutesIs
<1>7. Op[op] \in PlainOps BY OpClasses
<1>8. 1 = Size(m.buf, m.p) BY <1>6, <1>7, SizeIs
<1>9. SameRun(m, m') /\ (m'.state = "match" => m'.p = m.p + 1) BY <1>1, <1>4, FailIs, SkipIs
<1>10. Op[op] \in StraightOps BY <1>7 DEF StraightOps
<1> QED BY <1>3, <1>8, <1>9, <1>10, StraightRuns

LEMMA DuplicateRuns ==
  ASSUME NEW S, NEW L, NEW G, RunsOn(m, S, L, G), Duplicate
  PROVE  RunsOn(m', S, L, G)
<1>1. DOMAIN m = MatchFields BY DEF RunsOn, RunShape
<1>2. Executes("duplicate") BY DEF Duplicate
<1>3. (\E n : m' = [m EXCEPT !.d = @ + n, !.p = @ + 2]) \/ m' = Fail(m)
  BY DEF Duplicate
<1>5. Op["duplicate"] # Garbage BY NoGarbageOp
<1>6. m.buf[m.p] = Op.duplicate BY <1>2, <1>5, ExecutesIs
<1>8. 2 = Size(m.buf, m.p) BY <1>6, SizeIs
<1>9. SameRun(m, m') /\ (m'.state = "match" => m'.p = m.p + 2)
  <2>1. ASSUME NEW n, m' = [m EXCEPT !.d = @ + n, !.p = @ + 2]
        PROVE  SameRun(m, m') /\ m'.p = m.p + 2
    BY <1>1, <2>1 DEF SameRun, MatchFields
  <2>2. CASE m' = Fail(m) BY <2>2, <1>1, FailIs
  <2> QED BY <1>3, <2>1, <2>2
<1>10. Op["duplicate"] \in StraightOps BY DEF StraightOps
<1> QED BY <1>2, <1>8, <1>9, <1>10, StraightRuns

LEMMA StartMemoryRuns ==
  ASSUME NEW S, NEW L, NEW G, RunsOn(m, S, L, G), StartMemory
  PROVE  RunsOn(m', S, L, G)
<1>1. DOMAIN m = MatchFields BY DEF RunsOn, RunShape
<1>2. Executes("start_memory") BY DEF StartMemory
<1>3. \E null, old, low :
        m' = [m EXCEPT !.null = null,
                       !.old_start[Reg] = old, !.start[Reg] = m.d,
                       !.active[Reg] = TRUE, !.matched[Reg] = FALSE,
                       !.high = Reg,
                       !.low = low,
                       !.p = @ + 3]
  BY DEF StartMemory
<1>5. Op["start_memory"] # Garbage BY NoGarbageOp
<1>6. m.buf[m.p] = Op.start_memory BY <1>2, <1>5, ExecutesIs
<1>7. Op["start_memory"] \in GroupOps BY OpClasses
<1>8. 3 = Size(m.buf, m.p) BY <1>6, <1>7, SizeIs
<1>9. SameRun(m, m') /\ m'.p = m.p + 3
  <2>1. PICK r : r = Reg OBVIOUS
  <2>2. \E null, old, low, st, ac, ma, hi :
          /\ DOMAIN st = DOMAIN m.start
          /\ m' = [m EXCEPT !.null = null, !.old_start = old, !.start = st,
                            !.active = ac, !.matched = ma, !.high = hi, !.low = low, !.p = @ + 3]
    <3>a. PICK null, old, low :
            m' = [m EXCEPT !.null = null,
                           !.old_start[Reg] = old, !.start[Reg] = m.d,
                           !.active[Reg] = TRUE, !.matched[Reg] = FALSE,
                           !.high = Reg, !.low = low, !.p = @ + 3]
      BY <1>3
    <3>1. m' = [m EXCEPT !.null = null,
                         !.old_start[r] = old, !.start[r] = m.d,
                         !.active[r] = TRUE, !.matched[r] = FALSE,
                         !.high = r, !.low = low, !.p = @ + 3]
      BY <3>a, <2>1
    <3>2. PICK st : st = [m.start EXCEPT ![r] = m.d] OBVIOUS
    <3>3. DOMAIN st = DOMAIN m.start BY <3>2
    <3>4. m' = [m EXCEPT !.null = null, !.old_start = [@ EXCEPT ![r] = old], !.start = st,
                         !.active = [@ EXCEPT ![r] = TRUE], !.matched = [@ EXCEPT ![r] = FALSE],
                         !.high = r, !.low = low, !.p = @ + 3]
      BY <3>1, <3>2
    <3> QED BY <3>3, <3>4
  <2> QED BY <1>1, <2>2 DEF SameRun, MatchFields
<1>10. Op["start_memory"] \in StraightOps BY <1>7 DEF StraightOps
<1> QED BY <1>2, <1>8, <1>9, <1>10, StraightRuns

LEMMA NoOpRuns ==
  ASSUME NEW S, NEW L, NEW G, RunsOn(m, S, L, G), NoOp
  PROVE  RunsOn(m', S, L, G)
<1>1. DOMAIN m = MatchFields BY DEF RunsOn, RunShape
<1>2. Executes("no_op") /\ m' = Skip(m, 1) BY DEF NoOp
<1>3. Op["no_op"] # Garbage BY NoGarbageOp
<1>4. PICK f, q : f = m.buf /\ q = m.p OBVIOUS
<1>5. f[q] = Op.no_op /\ m.state = "match" /\ q \in DOMAIN f
  BY <1>2, <1>3, <1>4 DEF Executes, Is, Byte
<1>6. Code(f, S, L, {}, {}, G) BY <1>4 DEF RunsOn
<1>7. PICK k \in 0..2 : Stands(m, S, L, k) BY <1>5 DEF RunsOn
<1>8. /\ q \in Int /\ q + k \in S /\ L[q + k] <= Len(m.stack)
      /\ \A i \in q..(q + k - 1) : Is(f, i, "no_op")
  BY <1>4, <1>7 DEF Stands
<1>9. k # 0
  <2> SUFFICES ASSUME k = 0 PROVE FALSE OBVIOUS
  <2>1. q + k = q /\ q \in S BY <1>8
  <2>2. IsBuffer(f) /\ Len(f) \in Nat BY <1>6, AddressesOf
  <2>3. q # Len(f) + 1 BY <1>5, <2>2, BufferLen
  <2>4. q \in Ops(f, S, {}) /\ q \in Nat
    <3>1. S \subseteq Nat BY <1>6, AddressesOf
    <3> QED BY <2>1, <2>3, <3>1 DEF Ops
  <2>5. Args(f, q, G) BY <2>4, <1>6 DEF Code, OpOK
  <2> QED BY <1>5, <2>5, OpCodes, OpKinds DEF Args
<1>10. PICK j : j = k - 1 OBVIOUS
<1>11. j \in 0..2 /\ (q + 1) + j = q + k /\ q + 1 \in Int /\ (q + 1) + j - 1 = q + k - 1
  BY <1>8, <1>9, <1>10
<1>12. PICK t : t = m' OBVIOUS
<1>13. SameRun(m, t) /\ t.p = q + 1 BY <1>1, <1>2, <1>4, <1>12, SkipIs
<1>14. Stands(t, S, L, j)
  <2>1. ASSUME NEW i \in (q + 1)..((q + 1) + j - 1) PROVE Is(f, i, "no_op")
    <3>1. i \in q..(q + k - 1) BY <1>8, <1>11
    <3> QED BY <3>1, <1>8
  <2> QED BY <1>4, <1>8, <1>11, <1>13, <2>1 DEF Stands, SameRun
<1>15. Stacked(m, t, S, L) BY <1>13 DEF Stacked, SameRun
<1>16. Code(t.buf, S, L, {}, {}, G) BY <1>4, <1>6, <1>13 DEF SameRun
<1> QED BY <1>11, <1>12, <1>13, <1>14, <1>15, <1>16, NextRuns DEF SameRun

\* Where an op of the code leads, with n points on the stack.
LEMMA OpLeads ==
  ASSUME NEW f, NEW S, NEW L, NEW G, Code(f, S, L, {}, {}, G), NEW q \in Ops(f, S, {}),
         NEW d \in {-1, 0, 1}, NEW t \in Int, Leads(f, q, t, d), NEW n \in Nat, L[q] <= n
  PROVE  t \in S /\ L[t] \in Nat /\ L[t] <= n + d /\ 0 <= n + d
<1>1. OpOK(f, S, L, G, q) BY DEF Code
<1>2. t \in S /\ L[t] <= L[q] + d BY <1>1 DEF OpOK
<1>3. q \in S /\ L \in [S -> Nat] BY AddressesOf DEF Ops
<1>4. PICK x, y : x = L[t] /\ y = L[q] OBVIOUS
<1>5. x \in Nat /\ y \in Nat BY <1>2, <1>3, <1>4
<1>6. x <= y + d /\ y <= n BY <1>2, <1>4
<1>7. x <= n + d /\ 0 <= n + d BY <1>5, <1>6
<1> QED BY <1>2, <1>4, <1>5, <1>7

\* The arguments of a jump of the code.
LEMMA JumpOpReads ==
  ASSUME NEW f, NEW S, NEW L, NEW G, Code(f, S, L, {}, {}, G), NEW q \in Ops(f, S, {}),
         f[q] \in JumpOps
  PROVE  /\ q \in Nat /\ 1 <= q /\ q + 2 <= Len(f) /\ JumpArgs(f, q) /\ Args(f, q, G)
         /\ Number(f, q + 1) \in Int /\ Target(f, q) \in Int
         /\ q + Size(f, q) \in S /\ 3 <= Size(f, q) /\ Size(f, q) \in Nat
<1>1. OpOK(f, S, L, G, q) BY DEF Code
<1>2. Args(f, q, G) /\ q + Size(f, q) \in S BY <1>1 DEF OpOK
<1>3. S \subseteq 1..(Len(f) + 1) /\ IsBuffer(f) /\ Len(f) \in Nat BY AddressesOf
<1>4. q \in Nat /\ 1 <= q BY <1>3 DEF Ops
<1>5. PICK n : n = Size(f, q) OBVIOUS
<1>6. n \in Nat /\ 3 <= n /\ JumpArgs(f, q) BY <1>2, <1>4, <1>5, SizeOf
<1>7. q + 2 <= Len(f)
  <2>1. q + n \in 1..(Len(f) + 1) BY <1>2, <1>3, <1>5, Zenon
  <2> QED BY <2>1, <1>3, <1>4, <1>6
<1>8. PICK p : p = q + 1 OBVIOUS
<1>9. /\ p \in Nat /\ 1 <= p /\ p + 1 = q + 2 /\ p + 1 <= Len(f) BY <1>4, <1>7, <1>8
<1>10. f[p] \in 0..255 /\ f[p + 1] \in 0..255 BY <1>6, <1>8, <1>9 DEF JumpArgs
<1>11. Number(f, p) \in Int BY <1>3, <1>9, <1>10, NumberOfBytes
<1>12. Target(f, q) \in Int BY <1>4, <1>8, <1>11 DEF Target
<1> QED BY <1>2, <1>4, <1>5, <1>6, <1>7, <1>8, <1>11, <1>12

LEMMA JumpNames ==
  /\ \A op \in {"jump", "jump_past_alt", "on_failure_jump", "maybe_pop_jump", "pop_failure_jump",
                "dummy_failure_jump", "succeed_n", "jump_n", "set_number_at"} :
        Op[op] \in JumpOps /\ Op[op] # Garbage /\ Op[op] # Op.no_op
  /\ \A op \in {"jump", "jump_past_alt"} : Op[op] \in GotoOps
  /\ \A op \in {"maybe_pop_jump", "pop_failure_jump"} : Op[op] \in LoopOps
<1>1. \A o \in JumpOps : o # Garbage /\ o # Op.no_op
  BY OpCodes, OpKinds DEF JumpOps, Garbage
<1>2. \A op \in {"jump", "jump_past_alt", "on_failure_jump", "maybe_pop_jump",
                 "pop_failure_jump", "dummy_failure_jump", "succeed_n", "jump_n",
                 "set_number_at"} : Op[op] \in JumpOps
  BY DEF JumpOps, GotoOps, LoopOps, CountingOps
<1> QED BY <1>1, <1>2 DEF GotoOps, LoopOps

\* What holds where a jump is run.
LEMMA RunsJump ==
  ASSUME NEW S, NEW L, NEW G, RunsOn(m, S, L, G), NEW op, Executes(op), Op[op] \in JumpOps,
         Op[op] # Garbage, Op[op] # Op.no_op
  PROVE  LET f == m.buf  q == m.p  n == Len(m.stack)
         IN  /\ f[q] = Op[op] /\ q \in Ops(f, S, {}) /\ n \in Nat /\ L[q] <= n
             /\ Code(f, S, L, {}, {}, G) /\ Target(f, q) \in Int /\ q \in Nat
             /\ DOMAIN m = MatchFields /\ m.state = "match"
<1>1. At1(m, S, L, G, m.p, m.buf) /\ m.buf[m.p] = Op[op] BY RunsOp
<1>2. Code(m.buf, S, L, {}, {}, G) /\ IsBuffer(m.stack) /\ DOMAIN m = MatchFields
  BY DEF RunsOn, RunShape
<1>3. m.p \in Ops(m.buf, S, {}) /\ m.p \in Nat /\ L[m.p] <= Len(m.stack) BY <1>1 DEF At1
<1>4. Len(m.stack) \in Nat BY <1>2, BufferLen
<1>5. Target(m.buf, m.p) \in Int
  <2>1. PICK f, q : f = m.buf /\ q = m.p OBVIOUS
  <2>2. f[q] \in JumpOps BY <2>1, <1>1
  <2>3. q \in Ops(f, S, {}) /\ Code(f, S, L, {}, {}, G) BY <2>1, <1>2, <1>3
  <2> QED BY <2>1, <2>2, <2>3, JumpOpReads
<1>6. m.state = "match" BY DEF Executes
<1> QED BY <1>1, <1>2, <1>3, <1>4, <1>5, <1>6

LEMMA UnconditionalJumpRuns ==
  ASSUME NEW S, NEW L, NEW G, RunsOn(m, S, L, G), UnconditionalJump
  PROVE  RunsOn(m', S, L, G)
<1>1. PICK op \in {"jump", "jump_past_alt"} : Executes(op) BY DEF UnconditionalJump
<1>2. m' = Jump(m) BY DEF UnconditionalJump
<1>3. Op[op] \in GotoOps /\ Op[op] \in JumpOps /\ Op[op] # Garbage /\ Op[op] # Op.no_op
  BY JumpNames
<1>4. PICK f, q, n : f = m.buf /\ q = m.p /\ n = Len(m.stack) OBVIOUS
<1>5. /\ f[q] = Op[op] /\ q \in Ops(f, S, {}) /\ n \in Nat /\ L[q] <= n
      /\ Code(f, S, L, {}, {}, G) /\ Target(f, q) \in Int /\ DOMAIN m = MatchFields
  BY <1>1, <1>3, <1>4, RunsJump
<1>6. PICK to : to = Target(f, q) OBVIOUS
<1>7. Leads(f, q, to, 0) BY <1>3, <1>5, <1>6, GotoOp
<1>8. to \in S /\ L[to] <= n + 0
  <2>1. 0 \in {-1, 0, 1} /\ to \in Int BY <1>5, <1>6
  <2>2. \A d \in {-1, 0, 1} : Leads(f, q, to, d) => to \in S /\ L[to] <= n + d
    BY <2>1, <1>5, OpLeads
  <2> QED BY <2>1, <2>2, <1>7
<1>9. n + 0 = n BY <1>5
<1>10. SameRun(m, m') /\ m'.p = to BY <1>2, <1>4, <1>5, <1>6, JumpIs
<1> QED BY <1>4, <1>8, <1>9, <1>10, MovesOn

\* A point is dropped, and there is one.
LEMMA DropsOne ==
  ASSUME NEW f, NEW S, NEW L, NEW G, Code(f, S, L, {}, {}, G), NEW q \in Ops(f, S, {}),
         f[q] \in LoopOps, NEW n \in Nat, L[q] <= n, Target(f, q) \in Int
  PROVE  Target(f, q) \in S /\ L[Target(f, q)] <= n - 1 /\ 1 <= n /\ L[Target(f, q)] \in Nat
<1>1. PICK to : to = Target(f, q) OBVIOUS
<1>2. PICK d : d = -1 OBVIOUS
<1>3. Leads(f, q, to, d) BY <1>1, <1>2, LoopOp
<1>4. to \in S /\ L[to] \in Nat /\ L[to] <= n + d /\ 0 <= n + d BY <1>1, <1>2, <1>3, OpLeads
<1>5. n + d = n - 1 /\ 1 <= n BY <1>2, <1>4
<1> QED BY <1>1, <1>4, <1>5

LEMMA PopFailureJumpRuns ==
  ASSUME NEW S, NEW L, NEW G, RunsOn(m, S, L, G), PopFailureJump
  PROVE  RunsOn(m', S, L, G)
<1>1. Executes("pop_failure_jump") /\ m' = Jump(Discard(m)) BY DEF PopFailureJump
<1>2. /\ Op["pop_failure_jump"] \in LoopOps /\ Op["pop_failure_jump"] \in JumpOps
      /\ Op["pop_failure_jump"] # Garbage /\ Op["pop_failure_jump"] # Op.no_op
  BY JumpNames
<1>4. PICK f, q, n : f = m.buf /\ q = m.p /\ n = Len(m.stack) OBVIOUS
<1>5. /\ f[q] = Op["pop_failure_jump"] /\ q \in Ops(f, S, {}) /\ n \in Nat /\ L[q] <= n
      /\ Code(f, S, L, {}, {}, G) /\ Target(f, q) \in Int /\ DOMAIN m = MatchFields
      /\ m.state = "match"
  BY <1>1, <1>2, <1>4, RunsJump
<1>6. PICK to : to = Target(f, q) OBVIOUS
<1>7. to \in S /\ L[to] <= n - 1 /\ 1 <= n BY <1>2, <1>5, <1>6, DropsOne
<1>8. m.stack # <<>>
  <2>1. Len(m.stack) # 0 BY <1>4, <1>7
  <2> QED BY <2>1
<1>9. PICK s : s = Discard(m) OBVIOUS
<1>10. /\ DOMAIN s = MatchFields /\ s.buf = f /\ s.best = m.best
       /\ s.start = m.start /\ s.p = q /\ s.state = m.state /\ s.stack = Front(m.stack)
  BY <1>4, <1>5, <1>9, DiscardIs
<1>11. PICK t : t = m' OBVIOUS
<1>12. /\ DOMAIN t = MatchFields /\ t.buf = f /\ t.best = m.best
       /\ DOMAIN t.start = DOMAIN m.start /\ t.p = to /\ t.stack = Front(m.stack)
  BY <1>1, <1>6, <1>9, <1>10, <1>11, JumpIs DEF SameRun
<1>13. Stacked(m, t, S, L) BY <1>8, <1>12 DEF Stacked
<1>14. Len(t.stack) = n - 1
  <2>1. IsBuffer(m.stack) BY DEF RunsOn, RunShape
  <2> QED BY <2>1, <1>4, <1>8, <1>12, FrontIs
<1>15. \E k \in 0..2 : Stands(t, S, L, k)
  <2>1. S \subseteq Nat BY <1>5, AddressesOf
  <2> QED BY <2>1, <1>7, <1>12, <1>14, StandsAt
<1> QED BY <1>5, <1>11, <1>12, <1>13, <1>15, NextRuns

\* What a step that pushes a point leaves: the point, or an error.
Pushes(s, t, place) ==
    /\ DOMAIN t = MatchFields /\ t.buf = s.buf /\ t.best = s.best
    /\ DOMAIN t.start = DOMAIN s.start
    /\ \/ t.state = "done" /\ t.stack = s.stack
       \/ t.state = s.state /\ \E x : x.p = place /\ t.stack = Append(s.stack, x)

LEMMA PushPushes ==
  ASSUME NEW s, DOMAIN s = MatchFields, NEW place, NEW string
  PROVE  /\ Pushes(s, PushFailurePoint(s, place, string), place)
         /\ PushFailurePoint(s, place, string).p = s.p
<1>1. PICK t : t = PushFailurePoint(s, place, string) OBVIOUS
<1>2. PICK x : x = Point(s, place, string) OBVIOUS
<1>3. x.p = place BY <1>2 DEF Point
<1>4. /\ DOMAIN t = MatchFields /\ t.buf = s.buf /\ t.best = s.best
      /\ t.start = s.start /\ t.p = s.p
      /\ \/ t.state = "done" /\ t.stack = s.stack
         \/ t.state = s.state /\ t.stack = Append(s.stack, x)
  BY <1>1, <1>2, PushIs
<1> QED BY <1>1, <1>3, <1>4 DEF Pushes

LEMMA OnFailurePushes ==
  ASSUME NEW s, DOMAIN s = MatchFields
  PROVE  /\ Pushes(s, OnFailure(s), Target(s.buf, s.p))
         /\ OnFailure(s).p = s.p + 3
<1>1. PICK place : place = Target(s.buf, s.p) OBVIOUS
<1>2. PICK after : after = s.p + 3 OBVIOUS
<1>3. place = after + Number(s.buf, s.p + 1) BY <1>1, <1>2 DEF Target
<1>4. \E u, d : /\ SameRun(s, u) /\ u.state = s.state
                /\ OnFailure(s) = [PushFailurePoint(u, place, d) EXCEPT !.p = after]
  <2> DEFINE group == Min({i \in after..(pend + 1) : ~Is(s.buf, i, "no_op")})
             u == IF Is(s.buf, group, "start_memory")
                  THEN [s EXCEPT !.high = s.buf[group + 1] + s.buf[group + 2],
                                 !.low = IF @ = NO_LOWEST_ACTIVE_REG THEN s.buf[group + 1] ELSE @]
                  ELSE s
  <2>1. OnFailure(s) = [PushFailurePoint(u, place, s.d) EXCEPT !.p = after]
    BY <1>2, <1>3 DEF OnFailure
  <2> HIDE DEF group
  <2>2. SameRun(s, u) /\ u.state = s.state
    <3>1. CASE Is(s.buf, group, "start_memory")
      <4>1. \E h, l : u = [s EXCEPT !.high = h, !.low = l] BY <3>1
      <4> HIDE DEF u
      <4> QED BY <4>1 DEF SameRun, MatchFields
    <3>2. CASE ~Is(s.buf, group, "start_memory")
      <4>1. u = s BY <3>2
      <4> QED BY <4>1 DEF SameRun
    <3> QED BY <3>1, <3>2
  <2> HIDE DEF u
  <2> QED BY <2>1, <2>2
<1>5. PICK u, d : /\ SameRun(s, u) /\ u.state = s.state
                  /\ OnFailure(s) = [PushFailurePoint(u, place, d) EXCEPT !.p = after]
  BY <1>4
<1>6. PICK v : v = PushFailurePoint(u, place, d) OBVIOUS
<1>7. Pushes(u, v, place) BY <1>5, <1>6, PushPushes DEF SameRun
<1>8. PICK t : t = OnFailure(s) OBVIOUS
<1>9. t = [v EXCEPT !.p = after] /\ DOMAIN v = MatchFields BY <1>5, <1>6, <1>7, <1>8 DEF Pushes
<1>10. /\ t.p = after /\ DOMAIN t = MatchFields /\ t.buf = v.buf /\ t.best = v.best
       /\ t.start = v.start /\ t.state = v.state /\ t.stack = v.stack
  BY <1>9 DEF MatchFields
<1>11. Pushes(s, t, place) BY <1>5, <1>7, <1>10 DEF Pushes, SameRun
<1> QED BY <1>1, <1>2, <1>8, <1>10, <1>11

LEMMA PushRuns ==
  ASSUME NEW s, NEW S, NEW L, NEW G, RunsOn(s, S, L, G), NEW n \in Nat, n = Len(s.stack),
         NEW r, DOMAIN r.start = DOMAIN s.start, r.best = s.best, r.stack = s.stack,
         Code(r.buf, S, L, {}, {}, G),
         NEW place, place = NullPointer \/ (place \in S /\ L[place] <= n),
         NEW t, Pushes(r, t, place),
         t.state = "match" => \E k \in 0..2 :
                   /\ t.p \in Int /\ t.p + k \in S /\ L[t.p + k] <= n + 1
                   /\ \A i \in t.p..(t.p + k - 1) : Is(r.buf, i, "no_op"),
         r.state # "done"
  PROVE  RunsOn(t, S, L, G)
<1>1. /\ DOMAIN t = MatchFields /\ t.buf = r.buf /\ t.best = s.best
      /\ DOMAIN t.start = DOMAIN s.start
  BY DEF Pushes
<1>2. Stacked(s, t, S, L)
  <2>1. CASE t.stack = r.stack BY <2>1 DEF Stacked
  <2>2. CASE \E x : x.p = place /\ t.stack = Append(r.stack, x)
    BY <2>2 DEF Stacked
  <2> QED BY <2>1, <2>2 DEF Pushes
<1>3. ASSUME t.state = "match" PROVE \E k \in 0..2 : Stands(t, S, L, k)
  <2>1. PICK x : x.p = place /\ t.stack = Append(s.stack, x)
    <3>1. t.state # "done" BY <1>3
    <3> QED BY <3>1 DEF Pushes
  <2>2. Len(t.stack) = n + 1
    <3>1. IsBuffer(s.stack) BY DEF RunsOn, RunShape
    <3> QED BY <3>1, <2>1, BufferAppend
  <2> QED BY <1>1, <1>3, <2>2 DEF Stands
<1> QED BY <1>1, <1>2, <1>3, NextRuns

LEMMA OnFailureJumpRuns ==
  ASSUME NEW S, NEW L, NEW G, RunsOn(m, S, L, G), OnFailureJump
  PROVE  RunsOn(m', S, L, G)
<1>1. Executes("on_failure_jump") /\ m' = OnFailure(m) BY DEF OnFailureJump
<1>2. /\ Op["on_failure_jump"] \in JumpOps
      /\ Op["on_failure_jump"] # Garbage /\ Op["on_failure_jump"] # Op.no_op
  BY JumpNames
<1>4. PICK f, q, n : f = m.buf /\ q = m.p /\ n = Len(m.stack) OBVIOUS
<1>5. /\ f[q] = Op.on_failure_jump /\ q \in Ops(f, S, {}) /\ n \in Nat /\ L[q] <= n
      /\ Code(f, S, L, {}, {}, G) /\ Target(f, q) \in Int /\ q \in Nat
      /\ DOMAIN m = MatchFields /\ m.state = "match"
  BY <1>1, <1>2, <1>4, RunsJump
<1>6. PICK to, next : to = Target(f, q) /\ next = q + 3 OBVIOUS
<1>7. Leads(f, q, to, 0) /\ Leads(f, q, next, 1) /\ to \in Int /\ next \in Int
  BY <1>5, <1>6, FailureJumpOp
<1>8. to \in S /\ L[to] <= n
  <2>1. \A d \in {-1, 0, 1} : Leads(f, q, to, d) => to \in S /\ L[to] <= n + d
    BY <1>5, <1>7, OpLeads
  <2>2. 0 \in {-1, 0, 1} /\ n + 0 = n BY <1>5
  <2> QED BY <2>1, <2>2, <1>7
<1>9. next \in S /\ L[next] <= n + 1
  <2>1. \A d \in {-1, 0, 1} : Leads(f, q, next, d) => next \in S /\ L[next] <= n + d
    BY <1>5, <1>7, OpLeads
  <2>2. 1 \in {-1, 0, 1} OBVIOUS
  <2> QED BY <2>1, <2>2, <1>7
<1>10. PICK t : t = m' OBVIOUS
<1>11. Pushes(m, t, to) /\ t.p = next BY <1>1, <1>4, <1>5, <1>6, <1>10, OnFailurePushes
<1>12. next + 0 = next /\ next + 0 - 1 < next BY <1>7
<1>13. \E k \in 0..2 : /\ t.p \in Int /\ t.p + k \in S /\ L[t.p + k] <= n + 1
                       /\ \A i \in t.p..(t.p + k - 1) : Is(m.buf, i, "no_op")
  <2>1. \A i \in next..(next + 0 - 1) : Is(m.buf, i, "no_op") BY <1>7, <1>12
  <2>2. 0 \in 0..2 OBVIOUS
  <2> QED BY <2>1, <2>2, <1>7, <1>9, <1>11, <1>12
<1> QED BY <1>4, <1>5, <1>8, <1>10, <1>11, <1>13, PushRuns

LEMMA PushDummyFailureRuns ==
  ASSUME NEW S, NEW L, NEW G, RunsOn(m, S, L, G), PushDummyFailure
  PROVE  RunsOn(m', S, L, G)
<1>1. Executes("push_dummy_failure") /\ m' = Skip(PushDummy(m), 1) BY DEF PushDummyFailure
<1>2. Op["push_dummy_failure"] \in PlainOps BY DEF PlainOps
<1>3. Op["push_dummy_failure"] # Garbage /\ Op["push_dummy_failure"] # Op.no_op
  BY <1>2, OpCodes, OpKinds DEF Garbage
<1>4. PICK f, q, n : f = m.buf /\ q = m.p /\ n = Len(m.stack) OBVIOUS
<1>5. /\ f[q] = Op["push_dummy_failure"] /\ At1(m, S, L, G, q, f)
  BY <1>1, <1>3, <1>4, RunsOp
<1>6. /\ q \in Ops(f, S, {}) /\ L[q] <= n /\ q \in Nat /\ n \in Nat /\ m.state = "match"
      /\ Code(f, S, L, {}, {}, G) /\ DOMAIN m = MatchFields
  <2>1. IsBuffer(m.stack) /\ DOMAIN m = MatchFields /\ Code(f, S, L, {}, {}, G)
    BY <1>4 DEF RunsOn, RunShape
  <2>2. m.state = "match" BY <1>1 DEF Executes
  <2> QED BY <2>1, <2>2, <1>4, <1>5, BufferLen DEF At1
<1>7. PICK next : next = q + 1 OBVIOUS
<1>8. Leads(f, q, next, 0) /\ next \in Int
  <2>1. Size(f, q) = 1 BY <1>2, <1>5, SizeIs
  <2>2. f[q] \in StraightOps BY <1>2, <1>5 DEF StraightOps
  <2> QED BY <2>1, <2>2, <1>6, <1>7, StraightOp
<1>9. next \in S /\ L[next] <= n + 1
  <2>1. \A d \in {-1, 0, 1} : Leads(f, q, next, d)
            => next \in S /\ L[next] \in Nat /\ L[next] <= n + d
    BY <1>6, <1>8, OpLeads
  <2>2. 0 \in {-1, 0, 1} OBVIOUS
  <2>3. PICK x : x = L[next] OBVIOUS
  <2>4. next \in S /\ x \in Nat /\ x <= n + 0 BY <2>1, <2>2, <2>3, <1>8
  <2>5. x <= n + 1 BY <2>4, <1>6
  <2> QED BY <2>3, <2>4, <2>5
<1>10. PICK t, v : t = m' /\ v = PushDummy(m) OBVIOUS
<1>11. Pushes(m, v, NullPointer) /\ v.p = q /\ DOMAIN v = MatchFields
  BY <1>4, <1>6, <1>10, PushPushes DEF PushDummy, Pushes
<1>12. SameRun(v, t) /\ t.state = v.state /\ t.p = next BY <1>1, <1>7, <1>10, <1>11, SkipIs
<1>13. Pushes(m, t, NullPointer) BY <1>11, <1>12 DEF Pushes, SameRun
<1>14. \E k \in 0..2 : /\ t.p \in Int /\ t.p + k \in S /\ L[t.p + k] <= n + 1
                       /\ \A i \in t.p..(t.p + k - 1) : Is(m.buf, i, "no_op")
  <2>1. next + 0 = next /\ next + 0 - 1 < next BY <1>8
  <2>2. \A i \in next..(next + 0 - 1) : Is(m.buf, i, "no_op") BY <1>8, <2>1
  <2>3. 0 \in 0..2 OBVIOUS
  <2> QED BY <2>1, <2>2, <2>3, <1>8, <1>9, <1>12
<1>15. Code(m.buf, S, L, {}, {}, G) BY <1>4, <1>6
<1>16. PICK place : place = NullPointer OBVIOUS
<1>17. Pushes(m, t, place) BY <1>13, <1>16
<1>18. n \in Nat /\ n = Len(m.stack) /\ m.state # "done" BY <1>4, <1>6
<1>20. place = NullPointer \/ (place \in S /\ L[place] <= n) BY <1>16
<1>19. RunsOn(t, S, L, G) BY <1>20, <1>14, <1>15, <1>16, <1>17, <1>18, PushRuns
<1> QED BY <1>10, <1>19

LEMMA DummyFailureJumpRuns ==
  ASSUME NEW S, NEW L, NEW G, RunsOn(m, S, L, G), DummyFailureJump
  PROVE  RunsOn(m', S, L, G)
<1>1. Executes("dummy_failure_jump") /\ m' = Jump(PushDummy(m)) BY DEF DummyFailureJump
<1>2. /\ Op["dummy_failure_jump"] \in JumpOps
      /\ Op["dummy_failure_jump"] # Garbage /\ Op["dummy_failure_jump"] # Op.no_op
  BY JumpNames
<1>4. PICK f, q, n : f = m.buf /\ q = m.p /\ n = Len(m.stack) OBVIOUS
<1>5. /\ f[q] = Op.dummy_failure_jump /\ q \in Ops(f, S, {}) /\ n \in Nat /\ L[q] <= n
      /\ Code(f, S, L, {}, {}, G) /\ Target(f, q) \in Int /\ q \in Nat
      /\ DOMAIN m = MatchFields /\ m.state = "match"
  BY <1>1, <1>2, <1>4, RunsJump
<1>6. PICK next : next = Target(f, q) OBVIOUS
<1>7. Leads(f, q, next, 1) /\ next \in Int BY <1>5, <1>6, DummyJumpOp
<1>9. next \in S /\ L[next] <= n + 1
  <2>1. \A d \in {-1, 0, 1} : Leads(f, q, next, d) => next \in S /\ L[next] <= n + d
    BY <1>5, <1>7, OpLeads
  <2>2. 1 \in {-1, 0, 1} OBVIOUS
  <2> QED BY <2>1, <2>2, <1>7
<1>10. PICK t, v : t = m' /\ v = PushDummy(m) OBVIOUS
<1>11. Pushes(m, v, NullPointer) /\ v.p = q /\ DOMAIN v = MatchFields
  BY <1>4, <1>5, <1>10, PushPushes DEF PushDummy, Pushes
<1>a. v.buf = f BY <1>4, <1>11 DEF Pushes
<1>12. SameRun(v, t) /\ t.state = v.state /\ t.p = next
  BY <1>1, <1>6, <1>10, <1>11, <1>a, JumpIs
<1>13. Pushes(m, t, NullPointer) BY <1>11, <1>12 DEF Pushes, SameRun
<1>14. \E k \in 0..2 : /\ t.p \in Int /\ t.p + k \in S /\ L[t.p + k] <= n + 1
                       /\ \A i \in t.p..(t.p + k - 1) : Is(m.buf, i, "no_op")
  <2>1. next + 0 = next /\ next + 0 - 1 < next BY <1>7
  <2>2. \A i \in next..(next + 0 - 1) : Is(m.buf, i, "no_op") BY <1>7, <2>1
  <2>3. 0 \in 0..2 OBVIOUS
  <2> QED BY <2>1, <2>2, <2>3, <1>7, <1>9, <1>12
<1>15. Code(m.buf, S, L, {}, {}, G) BY <1>4, <1>5
<1>16. PICK place : place = NullPointer OBVIOUS
<1>17. Pushes(m, t, place) BY <1>13, <1>16
<1>18. n \in Nat /\ n = Len(m.stack) /\ m.state # "done" BY <1>4, <1>5
<1>20. place = NullPointer \/ (place \in S /\ L[place] <= n) BY <1>16
<1>19. RunsOn(t, S, L, G) BY <1>20, <1>14, <1>15, <1>16, <1>17, <1>18, PushRuns
<1> QED BY <1>10, <1>19

-----------------------------------------------------------------------------
(***************************************************************************)
(* The matcher: the ops that write into the code.                          *)
(***************************************************************************)

LEMMA SameTarget ==
  ASSUME NEW f, NEW g, IsBuffer(f), IsBuffer(g), Len(g) = Len(f), NEW q,
         g[q + 1] = f[q + 1], g[q + 1 + 1] = f[q + 1 + 1]
  PROVE  Number(g, q + 1) = Number(f, q + 1) /\ Target(g, q) = Target(f, q)
<1>1. DOMAIN g = DOMAIN f BY BufferLen
<1>2. PICK x, y : x = q + 1 /\ y = x + 1 OBVIOUS
<1>3. Byte(g, x) = Byte(f, x) /\ Byte(g, y) = Byte(f, y) BY <1>1, <1>2 DEF Byte
<1>4. Number(g, x) = Number(f, x) BY <1>2, <1>3 DEF Number
<1> QED BY <1>2, <1>4 DEF Target

LEMMA NumberWritten ==
  ASSUME NEW f, IsBuffer(f), NEW r \in Nat, NEW x, NEW y, NEW g,
         g = Write(Write(f, r, x), r + 1, y)
  PROVE  /\ IsBuffer(g) /\ Len(g) = Len(f)
         /\ \A i \in 1..Len(f) : i < r \/ r + 2 <= i => g[i] = f[i]
         /\ \A i \in 1..Len(f) : i = r => g[i] = x
         /\ \A i \in 1..Len(f) : i = r + 1 => g[i] = y
<1>1. PICK l : l = r + 1 OBVIOUS
<1>2. PICK one : one = Write(f, r, x) OBVIOUS
<1>3. g = Write(one, l, y) BY <1>1, <1>2
<1>4. /\ IsBuffer(one) /\ Len(one) = Len(f)
      /\ \A i \in 1..Len(f) : one[i] = IF i = r THEN x ELSE f[i]
  BY <1>2, WriteKeeps
<1>5. /\ IsBuffer(g) /\ Len(g) = Len(one)
      /\ \A i \in 1..Len(one) : g[i] = IF i = l THEN y ELSE one[i]
  BY <1>3, <1>4, WriteKeeps
<1>6. ASSUME NEW i \in 1..Len(f)
      PROVE  /\ i < r \/ r + 2 <= i => g[i] = f[i]
             /\ i = r => g[i] = x
             /\ i = r + 1 => g[i] = y
  <2>0. i \in Int /\ r \in Int /\ Len(f) \in Nat BY BufferLen
  <2>1. g[i] = IF i = l THEN y ELSE one[i] BY <1>4, <1>5
  <2>2. one[i] = IF i = r THEN x ELSE f[i] BY <1>4
  <2>3. /\ i < r \/ r + 2 <= i => i # r /\ i # l
        /\ i = r => i # l
    BY <2>0, <1>1
  <2> QED BY <2>1, <2>2, <2>3, <1>1
<1> QED BY <1>1, <1>4, <1>5, <1>6

\* The counter of a succeed_n or a jump_n of the code.
LEMMA CounterWritten ==
  ASSUME NEW f, NEW S, NEW L, NEW G, Code(f, S, L, {}, {}, G), NEW r \in Ops(f, S, {}),
         f[r] \in CountingOps, NEW g, IsBuffer(g), Len(g) = Len(f),
         \A i \in 1..Len(f) : i < r + 3 \/ r + 5 <= i => g[i] = f[i]
  PROVE  Code(g, S, L, {}, {}, G) /\ Target(g, r) = Target(f, r)
<1>1. IsBuffer(f) /\ Len(f) \in Nat /\ S \subseteq 1..(Len(f) + 1) BY AddressesOf
<1>2. f[r] \in JumpOps BY DEF JumpOps
<1>3. /\ r \in Nat /\ 1 <= r /\ r + 2 <= Len(f) /\ JumpArgs(f, r) /\ Args(f, r, G)
      /\ Target(f, r) \in Int /\ r + Size(f, r) \in S
  BY <1>2, JumpOpReads
<1>4. OpOK(f, S, L, G, r) BY DEF Code
<1>5. g[r] = f[r] /\ g[r + 1] = f[r + 1] /\ g[r + 2] = f[r + 2]
  <2>1. r \in 1..Len(f) /\ r + 1 \in 1..Len(f) /\ r + 2 \in 1..Len(f) BY <1>1, <1>3
  <2>2. r < r + 3 /\ r + 1 < r + 3 /\ r + 2 < r + 3 BY <1>3
  <2> QED BY <2>1, <2>2
<1>6. r + 1 + 1 = r + 2 BY <1>3
<1>7. Target(g, r) = Target(f, r) BY <1>1, <1>5, <1>6, SameTarget
<1>8. JumpArgs(g, r) BY <1>3, <1>5 DEF JumpArgs
<1>9. f[r] = Op.succeed_n \/ f[r] = Op.jump_n BY DEF CountingOps
<1>10. Size(f, r) = 5 /\ Size(g, r) = 5 BY <1>5, <1>9, SucceedOp, JumpNOp
<1>11. Args(g, r, G)
  <2>1. CASE f[r] = Op.succeed_n
    <3>1. f[r + 2] < Op.on_failure_jump BY <2>1, <1>3, SucceedOp
    <3> QED BY <3>1, <2>1, <1>5, <1>8, SucceedOp
  <2>2. CASE f[r] = Op.jump_n
    <3>1. f[r] # Op.succeed_n BY <2>2, OpCodes
    <3>2. Target(f, r) < r
      <4>1. /\ f[r] \notin PlainOps /\ f[r] \notin CountedOps /\ f[r] \notin GroupOps
            /\ f[r] # Op.duplicate /\ f[r] # Op.dummy_failure_jump
            /\ f[r] \notin GotoOps \cup LoopOps \cup {Op.on_failure_jump, Op.set_number_at}
        <5>1. PICK o : o = f[r] OBVIOUS
        <5>2. o = Op.jump_n BY <5>1, <2>2
        <5>3. /\ o \notin PlainOps /\ o \notin CountedOps /\ o \notin GroupOps
              /\ o # Op.duplicate /\ o # Op.dummy_failure_jump
              /\ o \notin GotoOps \cup LoopOps \cup {Op.on_failure_jump, Op.set_number_at}
          BY <5>2, OpCodes, OpKinds
        <5> QED BY <5>1, <5>3
      <4> QED BY <3>1, <4>1, <1>3, Zenon DEF Args
    <3> QED BY <2>2, <3>2, <1>5, <1>7, <1>8, JumpNOp
  <2> QED BY <1>9, <2>1, <2>2
<1>12. \A t, d : Leads(g, r, t, d) => Leads(f, r, t, d)
  <2>1. \A t, d : Leads(g, r, t, d) => d = 0 /\ t \in {r + 5, Target(f, r)}
    BY <1>5, <1>7, <1>9, SucceedOp, JumpNOp
  <2>2. \A t, d : d = 0 /\ t \in {r + 5, Target(f, r)} => Leads(f, r, t, d)
    BY <1>9, SucceedOp, JumpNOp
  <2> QED BY <2>1, <2>2
<1>13. ASSUME NEW q \in Int, Refers(g, r, q)
       PROVE  /\ q \in S /\ q <= Len(g) /\ g[q] \in CountingOps
              /\ g[r] = Op.jump_n => g[q] = Op.succeed_n
  <2>1. Refers(f, r, q)
    <3>1. CASE f[r] = Op.succeed_n BY <3>1, <1>5, <1>13, SucceedOp
    <3>2. CASE f[r] = Op.jump_n BY <3>2, <1>5, <1>7, <1>13, JumpNOp
    <3> QED BY <1>9, <3>1, <3>2
  <2>2. /\ q \in S /\ q <= Len(f) /\ f[q] \in CountingOps
        /\ f[r] = Op.jump_n => f[q] = Op.succeed_n
    BY <2>1, <1>4 DEF OpOK
  <2>3. q <= r \/ r + 5 <= q BY <2>2, <1>4, <1>10 DEF OpOK
  <2>4. q \in 1..Len(f) /\ (q < r + 3 \/ r + 5 <= q) BY <2>2, <2>3, <1>1, <1>3
  <2>5. g[q] = f[q] BY <2>4
  <2> QED BY <2>2, <2>5, <1>5
<1>14. OpOK(g, S, L, G, r)
  <2>1. /\ r + Size(g, r) \in S /\ \A i \in S : i <= r \/ r + Size(g, r) <= i
        /\ \A t \in Int, d \in {-1, 0, 1} : Leads(f, r, t, d) => t \in S /\ L[t] <= L[r] + d
    BY <1>3, <1>4, <1>10 DEF OpOK
  <2> QED BY <2>1, <1>11, <1>12, <1>13 DEF OpOK
<1>15. \A i \in 1..Len(f) : i < r \/ r + Size(f, r) <= i => g[i] = f[i]
  <2> SUFFICES ASSUME NEW i \in 1..Len(f), i < r \/ r + 5 <= i PROVE g[i] = f[i] BY <1>10
  <2>1. i < r + 3 \/ r + 5 <= i BY <1>3
  <2> QED BY <2>1
<1>16. \A y \in {} : Stays(g, r, y) OBVIOUS
<1>17. Code(g, S, L, {}, {}, G) BY <1>5, <1>14, <1>15, <1>16, Patched
<1> QED BY <1>7, <1>17

\* A counter of the code, with another number.
LEMMA CounterStored ==
  ASSUME NEW f, NEW S, NEW L, NEW G, Code(f, S, L, {}, {}, G), NEW r \in Ops(f, S, {}),
         f[r] \in CountingOps, NEW v
  PROVE  LET g == StoreNumber(f, r + 3, v)
         IN  /\ Code(g, S, L, {}, {}, G) /\ Target(g, r) = Target(f, r)
             /\ r + 4 <= Len(f) /\ r + 5 \in S /\ Size(f, r) = 5
             /\ g[r + 3] = Bytes(v)[1] /\ g[r + 4] = Bytes(v)[2]
<1>0. PICK x, y : x = Bytes(v)[1] /\ y = Bytes(v)[2] OBVIOUS
<1>1. PICK g, p : g = StoreNumber(f, p, v) /\ p = r + 3 OBVIOUS
<1>2. IsBuffer(f) /\ Len(f) \in Nat /\ S \subseteq 1..(Len(f) + 1) BY AddressesOf
<1>3. f[r] \in JumpOps BY DEF JumpOps
<1>4. r \in Nat /\ 1 <= r /\ r + Size(f, r) \in S BY <1>3, JumpOpReads
<1>5. Size(f, r) = 5
  <2>1. f[r] = Op.succeed_n \/ f[r] = Op.jump_n BY DEF CountingOps
  <2> QED BY <2>1, SucceedOp, JumpNOp
<1>6. r + 5 \in S /\ r + 4 <= Len(f) /\ r + 3 \in 1..Len(f) /\ r + 4 \in 1..Len(f)
  <2>1. r + 5 \in S BY <1>4, <1>5
  <2>2. r + 5 \in 1..(Len(f) + 1) BY <2>1, <1>2
  <2> QED BY <2>1, <2>2, <1>2, <1>4
<1>7. p \in Nat /\ p + 1 = r + 4 /\ p + 2 = r + 5 BY <1>1, <1>4
<1>8. /\ IsBuffer(g) /\ Len(g) = Len(f)
      /\ \A i \in 1..Len(f) : i < p \/ p + 2 <= i => g[i] = f[i]
      /\ \A i \in 1..Len(f) : i = p => g[i] = x
      /\ \A i \in 1..Len(f) : i = p + 1 => g[i] = y
  <2>1. g = Write(Write(f, p, x), p + 1, y) BY <1>0, <1>1 DEF StoreNumber, Write
  <2>2. IsBuffer(f) /\ p \in Nat BY <1>2, <1>7
  <2>4. /\ IsBuffer(g) /\ Len(g) = Len(f)
        /\ \A i \in 1..Len(f) : i < p \/ p + 2 <= i => g[i] = f[i]
    BY <2>1, <2>2, NumberWritten
  <2>5. \A i \in 1..Len(f) : i = p => g[i] = x BY <2>1, <2>2, NumberWritten
  <2>6. \A i \in 1..Len(f) : i = p + 1 => g[i] = y BY <2>1, <2>2, NumberWritten
  <2> QED BY <2>4, <2>5, <2>6
<1>9. \A i \in 1..Len(f) : i < r + 3 \/ r + 5 <= i => g[i] = f[i] BY <1>1, <1>7, <1>8
<1>10. Code(g, S, L, {}, {}, G) /\ Target(g, r) = Target(f, r)
  BY <1>8, <1>9, CounterWritten
<1>11. g[r + 3] = Bytes(v)[1] /\ g[r + 4] = Bytes(v)[2] BY <1>0, <1>1, <1>6, <1>7, <1>8
<1> QED BY <1>1, <1>5, <1>6, <1>10, <1>11

LEMMA CountersRun ==
  ASSUME NEW S, NEW L, NEW G, RunsOn(m, S, L, G), NEW op \in {"succeed_n", "jump_n"},
         Executes(op), NEW f, f = m.buf, NEW q, q = m.p, NEW n, n = Len(m.stack)
  PROVE  /\ f[q] = Op[op] /\ q \in Ops(f, S, {}) /\ n \in Nat /\ L[q] <= n
         /\ Code(f, S, L, {}, {}, G) /\ Target(f, q) \in Int /\ q \in Nat
         /\ DOMAIN m = MatchFields /\ m.state = "match" /\ f[q] \in CountingOps
         /\ q + 5 \in S /\ L[q + 5] <= n /\ Target(f, q) \in S /\ L[Target(f, q)] <= n
<1>1. Op[op] \in JumpOps /\ Op[op] # Garbage /\ Op[op] # Op.no_op BY JumpNames
<1>2. /\ f[q] = Op[op] /\ q \in Ops(f, S, {}) /\ n \in Nat /\ L[q] <= n
      /\ Code(f, S, L, {}, {}, G) /\ Target(f, q) \in Int /\ q \in Nat
      /\ DOMAIN m = MatchFields /\ m.state = "match"
  BY <1>1, RunsJump
<1>3. f[q] = Op.succeed_n \/ f[q] = Op.jump_n BY <1>2
<1>4. f[q] \in CountingOps BY <1>3 DEF CountingOps
<1>5. PICK to, next : to = Target(f, q) /\ next = q + 5 OBVIOUS
<1>6. Leads(f, q, to, 0) /\ Leads(f, q, next, 0) /\ to \in Int /\ next \in Int
  BY <1>2, <1>3, <1>5, SucceedOp, JumpNOp
<1>7. 0 \in {-1, 0, 1} /\ n + 0 = n BY <1>2
<1>8. to \in S /\ L[to] <= n
  <2>1. \A d \in {-1, 0, 1} : Leads(f, q, to, d) => to \in S /\ L[to] <= n + d
    BY <1>2, <1>6, OpLeads
  <2> QED BY <2>1, <1>6, <1>7
<1>9. next \in S /\ L[next] <= n
  <2>1. \A d \in {-1, 0, 1} : Leads(f, q, next, d) => next \in S /\ L[next] <= n + d
    BY <1>2, <1>6, OpLeads
  <2> QED BY <2>1, <1>6, <1>7
<1> QED BY <1>2, <1>4, <1>5, <1>8, <1>9

LEMMA WrittenRuns ==
  ASSUME NEW S, NEW L, NEW G, RunsOn(m, S, L, G), NEW t, NEW g, Code(g, S, L, {}, {}, G),
         NEW to, to \in S, L[to] <= Len(m.stack),
         t = [m EXCEPT !.buf = g, !.p = to]
  PROVE  RunsOn(t, S, L, G)
<1>1. DOMAIN m = MatchFields BY DEF RunsOn, RunShape
<1>2. /\ DOMAIN t = MatchFields /\ t.buf = g /\ t.p = to /\ t.stack = m.stack /\ t.best = m.best
      /\ t.start = m.start
  BY <1>1 DEF MatchFields
<1>3. Stacked(m, t, S, L) BY <1>2 DEF Stacked
<1>4. \E k \in 0..2 : Stands(t, S, L, k)
  <2>1. S \subseteq Nat BY AddressesOf
  <2> QED BY <2>1, <1>2, StandsAt
<1>5. Code(t.buf, S, L, {}, {}, G) /\ DOMAIN t.start = DOMAIN m.start BY <1>2
<1> QED BY <1>2, <1>3, <1>4, <1>5, NextRuns

LEMMA JumpNRuns ==
  ASSUME NEW S, NEW L, NEW G, RunsOn(m, S, L, G), JumpN
  PROVE  RunsOn(m', S, L, G)
<1>1. PICK v : /\ Executes("jump_n")
               /\ m' = IF v # 0 THEN Jump([m EXCEPT !.buf = StoreNumber(@, m.p + 3, v - 1)])
                       ELSE Skip(m, 5)
  BY DEF JumpN
<1>2. PICK f, q, n : f = m.buf /\ q = m.p /\ n = Len(m.stack) OBVIOUS
<1>3. /\ q \in Ops(f, S, {}) /\ Code(f, S, L, {}, {}, G)
      /\ DOMAIN m = MatchFields /\ f[q] \in CountingOps
      /\ q + 5 \in S /\ L[q + 5] <= n /\ Target(f, q) \in S /\ L[Target(f, q)] <= n
  <2>1. "jump_n" \in {"succeed_n", "jump_n"} OBVIOUS
  <2> QED BY <2>1, <1>1, <1>2, CountersRun
<1>4. PICK t : t = m' OBVIOUS
<1>5. CASE v # 0
  <2>1. PICK g, w : w = v - 1 /\ g = StoreNumber(f, q + 3, w) OBVIOUS
  <2>2. Code(g, S, L, {}, {}, G) /\ Target(g, q) = Target(f, q) BY <2>1, <1>3, CounterStored
  <2>3. t = Jump([m EXCEPT !.buf = g]) BY <1>1, <1>2, <1>4, <1>5, <2>1
  <2>4. t = [m EXCEPT !.buf = g, !.p = Target(g, q)]
    BY <2>3, <1>2, <1>3 DEF Jump, Target, MatchFields
  <2> QED BY <2>2, <2>4, <1>2, <1>3, <1>4, WrittenRuns
<1>6. CASE ~(v # 0)
  <2>1. t = Skip(m, 5) BY <1>1, <1>4, <1>6
  <2>2. SameRun(m, t) /\ t.p = q + 5 BY <2>1, <1>2, <1>3, SkipIs
  <2> QED BY <2>2, <1>2, <1>3, <1>4, MovesOn
<1> QED BY <1>5, <1>6

LEMMA SucceedNRuns ==
  ASSUME NEW S, NEW L, NEW G, RunsOn(m, S, L, G), SucceedN
  PROVE  RunsOn(m', S, L, G)
<1>1. PICK v : /\ Executes("succeed_n")
               /\ m' = IF v > 0 THEN [m EXCEPT !.buf = StoreNumber(@, m.p + 3, v - 1),
                                               !.p = @ + 5]
                       ELSE OnFailure([m EXCEPT !.buf = StoreNumber(@, m.p + 3, Op.no_op)])
  BY DEF SucceedN
<1>2. PICK f, q, n : f = m.buf /\ q = m.p /\ n = Len(m.stack) OBVIOUS
<1>3. /\ q \in Ops(f, S, {}) /\ Code(f, S, L, {}, {}, G) /\ q \in Nat /\ n \in Nat
      /\ DOMAIN m = MatchFields /\ f[q] \in CountingOps /\ m.state = "match"
      /\ q + 5 \in S /\ L[q + 5] <= n /\ Target(f, q) \in S /\ L[Target(f, q)] <= n
  <2>1. "succeed_n" \in {"succeed_n", "jump_n"} OBVIOUS
  <2> QED BY <2>1, <1>1, <1>2, CountersRun
<1>4. PICK t : t = m' OBVIOUS
<1>5. CASE v > 0
  <2>1. PICK g, w : w = v - 1 /\ g = StoreNumber(f, q + 3, w) OBVIOUS
  <2>2. Code(g, S, L, {}, {}, G) BY <2>1, <1>3, CounterStored
  <2>3. t = [m EXCEPT !.buf = g, !.p = q + 5]
    <3>1. t = [m EXCEPT !.buf = StoreNumber(m.buf, m.p + 3, v - 1), !.p = m.p + 5]
      BY <1>1, <1>4, <1>5
    <3> QED BY <3>1, <2>1, <1>2
  <2> QED BY <2>2, <2>3, <1>2, <1>3, <1>4, WrittenRuns
<1>6. CASE ~(v > 0)
  <2>1. PICK g, w : w = Op.no_op /\ g = StoreNumber(f, q + 3, w) OBVIOUS
  <2>2. /\ Code(g, S, L, {}, {}, G) /\ Target(g, q) = Target(f, q)
        /\ g[q + 3] = Bytes(w)[1] /\ g[q + 4] = Bytes(w)[2]
    BY <2>1, <1>3, CounterStored
  <2>3. Bytes(w)[1] = Op.no_op /\ Bytes(w)[2] = Op.no_op
    <3>1. w = 0 /\ Op.no_op = 0 BY <2>1, OpCodes
    <3>2. 0 % 256 = 0 /\ (0 \div 256) % 256 = 0 OBVIOUS
    <3> QED BY <3>1, <3>2 DEF Bytes
  <2>4. PICK s : s = [m EXCEPT !.buf = g] OBVIOUS
  <2>5. t = OnFailure(s)
    <3>1. s = [m EXCEPT !.buf = StoreNumber(@, m.p + 3, Op.no_op)] BY <2>1, <2>4, <1>2
    <3> QED BY <3>1, <1>1, <1>4, <1>6
  <2>6. /\ DOMAIN s = MatchFields /\ s.buf = g /\ s.p = q /\ s.stack = m.stack
        /\ s.best = m.best /\ s.start = m.start /\ s.state = "match"
    BY <2>4, <1>2, <1>3 DEF MatchFields
  <2>7. PICK place : place = Target(f, q) OBVIOUS
  <2>8. Pushes(s, t, place) /\ t.p = q + 3
    BY <2>2, <2>5, <2>6, <2>7, OnFailurePushes
  <2>9. \E k \in 0..2 : /\ t.p \in Int /\ t.p + k \in S /\ L[t.p + k] <= n + 1
                        /\ \A i \in t.p..(t.p + k - 1) : Is(g, i, "no_op")
    <3>1. PICK x, k : x = q + 3 /\ k = 2 OBVIOUS
    <3>2. x \in Int /\ x + k = q + 5 /\ k \in 0..2 BY <3>1, <1>3
    <3>3. L[q + 5] <= n + 1
      <4>1. PICK y : y = L[q + 5] OBVIOUS
      <4>2. y \in Nat
        <5>1. L \in [S -> Nat] BY <1>3, AddressesOf
        <5> QED BY <5>1, <4>1, <1>3
      <4>3. y <= n BY <4>1, <1>3
      <4>4. y <= n + 1 BY <4>2, <4>3, <1>3
      <4> QED BY <4>1, <4>4
    <3>4. ASSUME NEW i \in x..(x + k - 1) PROVE Is(g, i, "no_op")
      <4>1. i = q + 3 \/ i = q + 4 BY <3>1, <1>3
      <4>2. IsBuffer(g) /\ Len(g) \in Nat /\ q + 5 \in 1..(Len(g) + 1)
        BY <2>2, <1>3, AddressesOf
      <4>3. q + 3 \in 1..Len(g) /\ q + 4 \in 1..Len(g) BY <4>2, <1>3
      <4>4. i \in DOMAIN g BY <4>1, <4>2, <4>3, BufferLen
      <4> QED BY <4>1, <4>4, <2>2, <2>3 DEF Is, Byte
    <3> QED BY <3>1, <3>2, <3>3, <3>4, <2>8, <1>3
  <2>10. place = NullPointer \/ (place \in S /\ L[place] <= n) BY <2>7, <1>3
  <2>11. \E k \in 0..2 : /\ t.p \in Int /\ t.p + k \in S /\ L[t.p + k] <= n + 1
                         /\ \A i \in t.p..(t.p + k - 1) : Is(s.buf, i, "no_op")
    BY <2>6, <2>9
  <2>12. /\ DOMAIN s.start = DOMAIN m.start /\ Code(s.buf, S, L, {}, {}, G)
         /\ s.state # "done"
    BY <2>2, <2>6
  <2>13. RunsOn(t, S, L, G) BY <2>6, <2>8, <2>10, <2>11, <2>12, <1>2, <1>3, PushRuns
  <2> QED BY <2>13, <1>4
<1> QED BY <1>5, <1>6

LEMMA SetNumberAtRuns ==
  ASSUME NEW S, NEW L, NEW G, RunsOn(m, S, L, G), SetNumberAt
  PROVE  RunsOn(m', S, L, G)
<1>1. Executes("set_number_at") BY DEF SetNumberAt
<1>2. PICK f, q, n : f = m.buf /\ q = m.p /\ n = Len(m.stack) OBVIOUS
<1>3. /\ Op["set_number_at"] \in JumpOps
      /\ Op["set_number_at"] # Garbage /\ Op["set_number_at"] # Op.no_op
  BY JumpNames
<1>4. /\ f[q] = Op.set_number_at /\ q \in Ops(f, S, {}) /\ n \in Nat /\ L[q] <= n
      /\ Code(f, S, L, {}, {}, G) /\ q \in Nat /\ DOMAIN m = MatchFields
  BY <1>1, <1>2, <1>3, RunsJump
<1>5. PICK r : r = q + Number(f, q + 1) OBVIOUS
<1>6. Number(f, q + 1) \in Int /\ r \in Int
  <2>1. f[q] \in JumpOps BY <1>4 DEF JumpOps
  <2>2. Number(f, q + 1) \in Int BY <2>1, <1>4, JumpOpReads
  <2> QED BY <2>2, <1>4, <1>5
<1>7. Refers(f, q, r) BY <1>4, <1>5, SetNumberOp
<1>8. r \in S /\ r <= Len(f) /\ f[r] \in CountingOps
  <2>1. OpOK(f, S, L, G, q) BY <1>4 DEF Code
  <2> QED BY <2>1, <1>6, <1>7 DEF OpOK
<1>9. r \in Ops(f, S, {})
  <2>1. Len(f) \in Nat BY <1>4, AddressesOf
  <2>2. r # Len(f) + 1 BY <2>1, <1>6, <1>8
  <2> QED BY <2>2, <1>8 DEF Ops
<1>10. PICK g, v : v = Number(f, q + 3) /\ g = StoreNumber(f, r + 3, v) OBVIOUS
<1>11. Code(g, S, L, {}, {}, G) BY <1>4, <1>8, <1>9, <1>10, CounterStored
<1>12. PICK t : t = m' OBVIOUS
<1>13. t = [m EXCEPT !.buf = g, !.p = q + 5]
  <2>1. q + 3 + Number(f, q + 1) = r + 3 BY <1>4, <1>5, <1>6
  <2>2. t = [m EXCEPT !.buf = StoreNumber(m.buf, m.p + 3 + Number(m.buf, m.p + 1),
                                          Number(m.buf, m.p + 3)),
                      !.p = m.p + 5]
    BY <1>12 DEF SetNumberAt
  <2>3. t = [m EXCEPT !.buf = StoreNumber(f, q + 3 + Number(f, q + 1), v), !.p = q + 5]
    BY <2>2, <1>2, <1>10
  <2> QED BY <2>1, <2>3, <1>10
<1>14. PICK next : next = q + 5 OBVIOUS
<1>15. next \in S /\ L[next] <= n
  <2>1. Leads(f, q, next, 0) /\ next \in Int BY <1>4, <1>14, SetNumberOp
  <2>2. \A d \in {-1, 0, 1} : Leads(f, q, next, d) => next \in S /\ L[next] <= n + d
    BY <2>1, <1>4, OpLeads
  <2>3. 0 \in {-1, 0, 1} /\ n + 0 = n BY <1>4
  <2> QED BY <2>1, <2>2, <2>3
<1> QED BY <1>2, <1>11, <1>12, <1>13, <1>14, <1>15, WrittenRuns

\* The op at the end of a loop, once it has been decided.
LEMMA LoopPatched ==
  ASSUME NEW f, NEW S, NEW L, NEW G, Code(f, S, L, {}, {}, G), NEW q \in Ops(f, S, {}),
         f[q] \in LoopOps, NEW o, o \in GotoOps \cup LoopOps, NEW g, g = Write(f, q, o)
  PROVE  Code(g, S, L, {}, {}, G) /\ Target(g, q) = Target(f, q)
<1>1. IsBuffer(f) /\ Len(f) \in Nat /\ S \subseteq 1..(Len(f) + 1) BY AddressesOf
<1>2. f[q] \in JumpOps BY DEF JumpOps
<1>3. /\ q \in Nat /\ 1 <= q /\ q + 2 <= Len(f) /\ JumpArgs(f, q)
      /\ Target(f, q) \in Int /\ q + Size(f, q) \in S
  BY <1>2, JumpOpReads
<1>4. OpOK(f, S, L, G, q) BY DEF Code
<1>5. Size(f, q) = 3 BY LoopOp
<1>6. /\ IsBuffer(g) /\ Len(g) = Len(f)
      /\ \A i \in 1..Len(f) : g[i] = IF i = q THEN o ELSE f[i]
  BY <1>1, WriteKeeps
<1>7. g[q] = o /\ g[q + 1] = f[q + 1] /\ g[q + 2] = f[q + 2]
  <2>1. q \in 1..Len(f) /\ q + 1 \in 1..Len(f) /\ q + 2 \in 1..Len(f) BY <1>1, <1>3
  <2>2. q + 1 # q /\ q + 2 # q BY <1>3
  <2> QED BY <2>1, <2>2, <1>6
<1>8. q + 1 + 1 = q + 2 BY <1>3
<1>9. Target(g, q) = Target(f, q) BY <1>1, <1>6, <1>7, <1>8, SameTarget
<1>10. JumpArgs(g, q) BY <1>3, <1>7 DEF JumpArgs
<1>11. /\ Size(g, q) = 3 /\ Args(g, q, G)
       /\ \A t, d : Leads(g, q, t, d) => d \in {0, -1} /\ t = Target(f, q)
       /\ \A r : ~Refers(g, q, r)
  <2>1. CASE o \in GotoOps BY <2>1, <1>7, <1>9, <1>10, GotoOp
  <2>2. CASE o \in LoopOps BY <2>2, <1>7, <1>9, <1>10, LoopOp
  <2> QED BY <2>1, <2>2
<1>12. ASSUME NEW t \in Int, NEW d \in {-1, 0, 1}, Leads(g, q, t, d)
       PROVE  t \in S /\ L[t] <= L[q] + d
  <2>1. d \in {0, -1} /\ t = Target(f, q) BY <1>11, <1>12
  <2>2. PICK e : e = -1 OBVIOUS
  <2>3. Leads(f, q, t, e) BY <2>1, <2>2, LoopOp
  <2>4. t \in S /\ L[t] <= L[q] + e BY <2>2, <2>3, <1>4 DEF OpOK
  <2>5. PICK x, y : x = L[t] /\ y = L[q] OBVIOUS
  <2>6. x \in Nat /\ y \in Nat
    <3>1. L \in [S -> Nat] /\ q \in S BY AddressesOf DEF Ops
    <3> QED BY <3>1, <2>4, <2>5
  <2>7. x <= y + e BY <2>4, <2>5
  <2>8. x <= y + d BY <2>1, <2>2, <2>6, <2>7
  <2> QED BY <2>4, <2>5, <2>8
<1>13. OpOK(g, S, L, G, q)
  <2>1. q + Size(g, q) \in S /\ \A i \in S : i <= q \/ q + Size(g, q) <= i
    BY <1>3, <1>4, <1>5, <1>11 DEF OpOK
  <2> QED BY <2>1, <1>11, <1>12 DEF OpOK
<1>14. \A i \in 1..Len(f) : i < q \/ q + Size(f, q) <= i => g[i] = f[i]
  <2> SUFFICES ASSUME NEW i \in 1..Len(f), i < q \/ q + 3 <= i PROVE g[i] = f[i] BY <1>5
  <2>1. i # q BY <1>3
  <2> QED BY <2>1, <1>6
<1>15. (\A y \in {} : Stays(g, q, y)) /\ f[q] \notin CountingOps
  <2>1. PICK x : x = f[q] OBVIOUS
  <2>2. x \in LoopOps BY <2>1
  <2>3. x \notin CountingOps BY <2>2, OpKinds
  <2> QED BY <2>1, <2>3
<1>16. Code(g, S, L, {}, {}, G) BY <1>6, <1>13, <1>14, <1>15, Patched
<1> QED BY <1>9, <1>16

LEMMA MaybePopJumpRuns ==
  ASSUME NEW S, NEW L, NEW G, RunsOn(m, S, L, G), MaybePopJump
  PROVE  RunsOn(m', S, L, G)
<1>1. PICK op : /\ Executes("maybe_pop_jump") /\ op \in {"jump", "pop_failure_jump"}
                /\ m' = Jump(IF op = "jump" THEN [m EXCEPT !.buf[m.p] = Op[op]]
                             ELSE Discard([m EXCEPT !.buf[m.p] = Op[op]]))
  <2>1. PICK op : op = IF NeverBacktracks(m) THEN "pop_failure_jump" ELSE "jump" OBVIOUS
  <2>2. op \in {"jump", "pop_failure_jump"} BY <2>1
  <2> QED BY <2>1, <2>2 DEF MaybePopJump
<1>2. /\ Op["maybe_pop_jump"] \in LoopOps /\ Op["maybe_pop_jump"] \in JumpOps
      /\ Op["maybe_pop_jump"] # Garbage /\ Op["maybe_pop_jump"] # Op.no_op
  BY JumpNames
<1>4. PICK f, q, n : f = m.buf /\ q = m.p /\ n = Len(m.stack) OBVIOUS
<1>5. /\ f[q] = Op["maybe_pop_jump"] /\ q \in Ops(f, S, {}) /\ n \in Nat /\ L[q] <= n
      /\ Code(f, S, L, {}, {}, G) /\ Target(f, q) \in Int /\ DOMAIN m = MatchFields
      /\ m.state = "match"
  BY <1>1, <1>2, <1>4, RunsJump
<1>6. PICK to : to = Target(f, q) OBVIOUS
<1>7. to \in S /\ L[to] <= n - 1 /\ 1 <= n /\ L[to] \in Nat BY <1>2, <1>5, <1>6, DropsOne
<1>8. m.stack # <<>>
  <2>1. Len(m.stack) # 0 BY <1>4, <1>7
  <2> QED BY <2>1
<1>a. PICK g : g = Write(f, q, Op[op]) OBVIOUS
<1>b. Code(g, S, L, {}, {}, G) /\ Target(g, q) = to
  <2>1. Op[op] \in GotoOps \cup LoopOps BY <1>1, JumpNames
  <2> QED BY <2>1, <1>2, <1>5, <1>6, <1>a, LoopPatched
<1>9. PICK s : s = [m EXCEPT !.buf[m.p] = Op[op]] OBVIOUS
<1>10. /\ DOMAIN s = MatchFields /\ s.buf = g /\ s.best = m.best
       /\ s.start = m.start /\ s.p = q /\ s.state = m.state /\ s.stack = m.stack
  <2>1. s = [m EXCEPT !.buf = g] BY <1>4, <1>9, <1>a DEF Write
  <2> QED BY <2>1, <1>4, <1>5 DEF MatchFields
<1>11. PICK t : t = m' OBVIOUS
<1>c. t = Jump(IF op = "jump" THEN s ELSE Discard(s)) BY <1>1, <1>9, <1>11
<1>12. /\ DOMAIN t = MatchFields /\ t.buf = g /\ t.best = m.best
       /\ DOMAIN t.start = DOMAIN m.start /\ t.p = to
       /\ t.stack = m.stack \/ t.stack = Front(m.stack)
  <2>1. CASE op = "jump"
    <3>1. t = Jump(s) BY <1>c, <2>1
    <3>2. SameRun(s, t) /\ t.p = Target(s.buf, s.p) BY <3>1, <1>10, JumpIs
    <3> QED BY <3>2, <1>10, <1>b DEF SameRun
  <2>2. CASE op # "jump"
    <3>1. PICK u : u = Discard(s) OBVIOUS
    <3>2. /\ DOMAIN u = MatchFields /\ u.buf = g /\ u.best = m.best
          /\ u.start = m.start /\ u.p = q /\ u.stack = Front(m.stack)
      BY <3>1, <1>10, DiscardIs
    <3>3. t = Jump(u) BY <3>1, <1>c, <2>2
    <3>4. SameRun(u, t) /\ t.p = Target(u.buf, u.p) BY <3>2, <3>3, JumpIs
    <3> QED BY <3>2, <3>4, <1>b DEF SameRun
  <2> QED BY <2>1, <2>2
<1>13. Stacked(m, t, S, L) BY <1>8, <1>12 DEF Stacked
<1>14. L[to] <= Len(t.stack)
  <2>1. Len(t.stack) = n \/ Len(t.stack) = n - 1
    <3>1. IsBuffer(m.stack) BY DEF RunsOn, RunShape
    <3> QED BY <3>1, <1>4, <1>8, <1>12, FrontIs
  <2>2. PICK x : x = L[to] OBVIOUS
  <2>3. x \in Nat /\ x <= n - 1 BY <2>2, <1>7
  <2>4. x <= n BY <2>3, <1>5
  <2> QED BY <2>1, <2>2, <2>3, <2>4
<1>15. \E k \in 0..2 : Stands(t, S, L, k)
  <2>1. S \subseteq Nat BY <1>5, AddressesOf
  <2> QED BY <2>1, <1>7, <1>12, <1>14, StandsAt
<1>16. Code(t.buf, S, L, {}, {}, G) BY <1>b, <1>12
<1> QED BY <1>11, <1>12, <1>13, <1>15, <1>16, NextRuns

\* A failure point for what follows a loop goes to an op, although the
\* address is computed from the bytes that stand before a group.
LEMMA LoopsBackIs ==
  ASSUME NEW f, NEW S, NEW L, NEW G, Code(f, S, L, {}, {}, G), NEW q \in Ops(f, S, {}),
         NEW n \in Nat, L[q] <= n, LoopsBack(f, q)
  PROVE  /\ Target(f, JumpTarget(f, q)) \in S
         /\ L[Target(f, JumpTarget(f, q))] <= n
<1>1. IsBuffer(f) /\ Len(f) \in Nat /\ S \subseteq 1..(Len(f) + 1) BY AddressesOf
<1>2. q \in 1..Len(f) BY <1>1 DEF Ops
<1>3. DOMAIN f = 1..Len(f) BY <1>1, BufferLen
<1>4. Byte(f, q) = f[q] BY <1>2, <1>3 DEF Byte
<1>5. /\ f[q] \in {Op[o] : o \in {"jump_n", "pop_failure_jump", "maybe_pop_jump", "jump",
                                  "dummy_failure_jump"}}
      /\ Number(f, q + 1) < 0
      /\ Is(f, JumpTarget(f, q), "on_failure_jump")
  BY <1>4 DEF LoopsBack
<1>6. PICK o \in {"jump_n", "pop_failure_jump", "maybe_pop_jump", "jump",
                  "dummy_failure_jump"} : f[q] = Op[o]
  BY <1>5
<1>7. f[q] \in JumpOps
  <2>1. Op[o] \in JumpOps BY JumpNames
  <2> QED BY <2>1, <1>6
<1>8. /\ q \in Nat /\ Args(f, q, G) /\ Number(f, q + 1) \in Int /\ Target(f, q) \in Int
  BY <1>7, JumpOpReads
<1>9. PICK to : to = Target(f, q) OBVIOUS
<1>10. o # "dummy_failure_jump"
  <2> SUFFICES ASSUME o = "dummy_failure_jump" PROVE FALSE OBVIOUS
  <2>1. f[q] = Op.dummy_failure_jump BY <1>6
  <2>2. Number(f, q + 1) >= 0 BY <2>1, <1>8, DummyJumpOp
  <2> QED BY <2>2, <1>5, <1>8
<1>11. o # "jump_n"
  <2> SUFFICES ASSUME o = "jump_n" PROVE FALSE OBVIOUS
  <2>1. f[q] = Op.jump_n BY <1>6
  <2>2. JumpTarget(f, q) = to + 2
    <3>1. JumpTarget(f, q) = q + 5 + Number(f, q + 1) BY <2>1, <1>4 DEF JumpTarget
    <3> QED BY <3>1, <1>8, <1>9 DEF Target
  <2>3. Refers(f, q, to) BY <2>1, <1>9, JumpNOp
  <2>4. OpOK(f, S, L, G, q) BY DEF Code
  <2>5. to \in S /\ to <= Len(f) /\ f[to] = Op.succeed_n
    BY <2>1, <2>3, <2>4, <1>8, <1>9 DEF OpOK
  <2>6. to \in Ops(f, S, {})
    <3>1. to # Len(f) + 1 BY <2>5, <1>1, <1>8, <1>9
    <3> QED BY <3>1, <2>5 DEF Ops
  <2>7. f[to] \in JumpOps BY <2>5, JumpNames
  <2>8. Args(f, to, G) /\ JumpArgs(f, to) /\ to + 2 <= Len(f) /\ to \in Nat
    BY <2>6, <2>7, JumpOpReads
  <2>9. f[to + 2] < Op.on_failure_jump BY <2>5, <2>8, SucceedOp
  <2>10. f[to + 2] = Op.on_failure_jump
    <3>1. to + 2 \in DOMAIN f BY <2>8, <1>1, <1>3
    <3> QED BY <3>1, <2>2, <1>5 DEF Is, Byte
  <2>11. f[to + 2] \in 0..255 BY <2>8 DEF JumpArgs
  <2>12. PICK x : x = f[to + 2] OBVIOUS
  <2>13. x < 14 /\ x = 14 BY <2>9, <2>10, <2>12, OpCodes
  <2> QED BY <2>13
<1>12. o \in {"pop_failure_jump", "maybe_pop_jump", "jump"} BY <1>10, <1>11
<1>13. JumpTarget(f, q) = to
  <2>1. f[q] # Op.jump_n BY <1>6, <1>12, OpCodes
  <2> QED BY <2>1, <1>4, <1>9 DEF JumpTarget, Target
<1>14. to \in S /\ L[to] \in Nat /\ L[to] <= n
  <2>1. CASE o = "jump"
    <3>1. f[q] \in GotoOps BY <2>1, <1>6, JumpNames
    <3>2. Leads(f, q, to, 0) BY <3>1, <1>9, GotoOp
    <3>3. \A d \in {-1, 0, 1} : Leads(f, q, to, d)
              => to \in S /\ L[to] \in Nat /\ L[to] <= n + d
      BY <1>8, <1>9, OpLeads
    <3>4. 0 \in {-1, 0, 1} /\ n + 0 = n OBVIOUS
    <3> QED BY <3>2, <3>3, <3>4
  <2>2. CASE o # "jump"
    <3>1. f[q] \in LoopOps BY <2>2, <1>6, <1>12, JumpNames
    <3>2. to \in S /\ L[to] <= n - 1 /\ L[to] \in Nat BY <3>1, <1>8, <1>9, DropsOne
    <3>3. PICK x : x = L[to] OBVIOUS
    <3>4. x \in Nat /\ x <= n - 1 BY <3>2, <3>3
    <3>5. x <= n BY <3>4
    <3> QED BY <3>2, <3>3, <3>5
  <2> QED BY <2>1, <2>2
<1>15. f[to] = Op.on_failure_jump /\ to \in Ops(f, S, {})
  <2>1. to \in DOMAIN f /\ f[to] = Op.on_failure_jump
    <3>1. Op.on_failure_jump # Garbage BY OpCodes DEF Garbage
    <3> QED BY <3>1, <1>5, <1>13 DEF Is, Byte
  <2>2. to # Len(f) + 1 BY <2>1, <1>1, <1>3
  <2> QED BY <2>1, <2>2, <1>14 DEF Ops
<1>16. PICK last : last = Target(f, to) OBVIOUS
<1>17. last \in Int
  <2>1. f[to] \in JumpOps BY <1>15, JumpNames
  <2> QED BY <2>1, <1>15, <1>16, JumpOpReads
<1>18. Leads(f, to, last, 0) BY <1>15, <1>16, FailureJumpOp
<1>19. last \in S /\ L[last] <= n
  <2>1. \A d \in {-1, 0, 1} : Leads(f, to, last, d) => last \in S /\ L[last] <= n + d
    BY <1>14, <1>15, <1>17, OpLeads
  <2>2. 0 \in {-1, 0, 1} /\ n + 0 = n OBVIOUS
  <2> QED BY <2>1, <2>2, <1>18
<1> QED BY <1>13, <1>16, <1>19

-----------------------------------------------------------------------------
\* The end of a group: its register is closed, and a loop that matched
\* nothing is left.
LEMMA ClosedIs ==
  ASSUME DOMAIN m = MatchFields
  PROVE  SameRun(m, CloseRegister) /\ CloseRegister.state = m.state /\ CloseRegister.p = m.p
<1>1. PICK r : r = Reg OBVIOUS
<1>2. \E oe, en, lo, hi :
        CloseRegister = [m EXCEPT !.old_end[r] = oe, !.end[r] = en, !.active[r] = FALSE,
                                  !.low = lo, !.high = hi]
  BY <1>1 DEF CloseRegister
<1> QED BY <1>2 DEF SameRun, MatchFields

LEMMA RestoreOldIs ==
  ASSUME DOMAIN m = MatchFields, NEW s, SameRun(m, s)
  PROVE  SameRun(m, RestoreOld(s)) /\ RestoreOld(s).state = s.state /\ RestoreOld(s).p = s.p
<1>1. CASE ~s.ever[Reg]
  <2>1. RestoreOld(s) = s BY <1>1 DEF RestoreOld
  <2> QED BY <2>1
<1>2. CASE s.ever[Reg]
  <2>1. PICK r : r = Reg OBVIOUS
  <2> DEFINE regs == Reg..(Reg + m.buf[m.p + 2] - 1)
             st == [q \in Groups |-> IF q \in regs THEN s.old_start[q] ELSE s.start[q]]
             en == [q \in Groups |-> IF q \in regs /\ s.old_end[q] >= s.old_start[q]
                                     THEN s.old_end[q] ELSE s.end[q]]
  <2>2. RestoreOld(s) = [s EXCEPT !.ever[r] = FALSE, !.start = st, !.end = en]
    BY <1>2, <2>1 DEF RestoreOld
  <2>3. DOMAIN st = DOMAIN m.start BY DEF Groups
  <2> HIDE DEF st, en
  <2> QED BY <2>2, <2>3 DEF SameRun, MatchFields
<1> QED BY <1>1, <1>2

LEMMA StopMemoryRuns ==
  ASSUME NEW S, NEW L, NEW G, RunsOn(m, S, L, G), StopMemory
  PROVE  RunsOn(m', S, L, G)
<1>1. DOMAIN m = MatchFields BY DEF RunsOn, RunShape
<1>2. Executes("stop_memory") BY DEF StopMemory
<1>3. Op["stop_memory"] # Garbage BY NoGarbageOp
<1>4. m.buf[m.p] = Op.stop_memory /\ m.state = "match" BY <1>2, <1>3, ExecutesIs
<1>5. Op["stop_memory"] \in GroupOps BY OpClasses
<1>6. Op["stop_memory"] \in StraightOps /\ Op["stop_memory"] # Op.no_op
  BY <1>5, StraightCodes DEF StraightOps
<1>7. 3 = Size(m.buf, m.p) BY <1>4, <1>5, SizeIs
<1>8. PICK s, f, q, n : s = CloseRegister /\ f = m.buf /\ q = m.p /\ n = Len(m.stack) OBVIOUS
<1>9. SameRun(m, s) /\ s.state = "match" /\ s.p = q BY <1>1, <1>4, <1>8, ClosedIs
<1>10. DOMAIN s = MatchFields BY <1>9 DEF SameRun
<1>11. PICK after, u : after = q + 3 /\ u = RestoreOld(s) OBVIOUS
<1>12. PICK place : place = Target(f, JumpTarget(f, after)) OBVIOUS
<1>13. PICK v : v = PushFailurePoint(u, place, s.d) OBVIOUS
<1>14. \/ m' = Skip(s, 3)
       \/ /\ after < pend /\ LoopsBack(f, after)
          /\ m' = v \/ m' = Fail(v)
  BY <1>8, <1>11, <1>12, <1>13 DEF StopMemory, Target
<1>15. CASE m' = Skip(s, 3)
  <2>1. SameRun(s, m') /\ m'.p = q + 3 BY <1>9, <1>10, <1>15, SkipIs
  <2>2. SameRun(m, m') BY <1>9, <2>1 DEF SameRun
  <2> QED BY <1>2, <1>6, <1>7, <1>8, <2>1, <2>2, StraightRuns
<1>16. CASE after < pend /\ LoopsBack(f, after) /\ (m' = v \/ m' = Fail(v))
  <2>1. At1(m, S, L, G, q, f) BY <1>2, <1>3, <1>6, <1>8, RunsOp
  <2>2. /\ q \in Ops(f, S, {}) /\ q \in Nat /\ n \in Nat /\ L[q] <= n /\ L[q] \in Nat /\ q \in S
        /\ Code(f, S, L, {}, {}, G)
    <3>1. IsBuffer(m.stack) /\ Code(f, S, L, {}, {}, G) BY <1>8 DEF RunsOn, RunShape
    <3> QED BY <2>1, <3>1, <1>8, BufferLen DEF At1
  <2>3. Leads(f, q, after, 0) /\ after \in Int
    BY <1>4, <1>6, <1>7, <1>8, <1>11, <2>2, StraightOp
  <2>4. after \in S /\ L[after] <= n
    <3>1. \A d \in {-1, 0, 1} : Leads(f, q, after, d) => after \in S /\ L[after] <= n + d
      BY <2>2, <2>3, OpLeads
    <3>2. 0 \in {-1, 0, 1} /\ n + 0 = n BY <2>2
    <3> QED BY <2>3, <3>1, <3>2
  <2>5. after \in Ops(f, S, {})
    <3>1. after # Len(f) + 1 BY <1>8, <1>11, <1>16, <2>2, AddressesOf DEF pend
    <3> QED BY <2>4, <3>1 DEF Ops
  <2>6. place \in S /\ L[place] <= n BY <1>12, <1>16, <2>2, <2>4, <2>5, LoopsBackIs
  <2>7. SameRun(m, u) /\ u.state = "match" /\ u.p = q BY <1>1, <1>9, <1>11, RestoreOldIs
  <2>8. Pushes(u, v, place) /\ v.p = q BY <1>13, <2>7, PushPushes DEF SameRun
  <2>9. RunsOn(v, S, L, G)
    <3>1. \E k \in 0..2 : /\ v.p \in Int /\ v.p + k \in S /\ L[v.p + k] <= n + 1
                          /\ \A i \in v.p..(v.p + k - 1) : Is(u.buf, i, "no_op")
      <4>1. q + 0 = q /\ q + 0 - 1 < q /\ q \in Int BY <2>2
      <4>2. \A i \in q..(q + 0 - 1) : Is(u.buf, i, "no_op") BY <2>2, <4>1
      <4>3. 0 \in 0..2 OBVIOUS
      <4>4. PICK x : x = L[q] OBVIOUS
      <4>5. x \in Nat /\ x <= n BY <2>2, <4>4
      <4>6. x <= n + 1 BY <2>2, <4>5
      <4> QED BY <2>2, <2>8, <4>1, <4>2, <4>3, <4>4, <4>6
    <3>2. /\ DOMAIN u.start = DOMAIN m.start /\ u.best = m.best /\ u.stack = m.stack
          /\ Code(u.buf, S, L, {}, {}, G) /\ u.state # "done"
      BY <2>2, <2>7, <1>8 DEF SameRun
    <3> QED BY <1>8, <2>2, <2>6, <2>8, <3>1, <3>2, PushRuns
  <2>10. CASE m' = v BY <2>9, <2>10
  <2>11. CASE m' = Fail(v)
    <3>1. SameRun(v, m') /\ m'.state = "fail" BY <2>8, <2>11, FailIs DEF Pushes
    <3> QED BY <2>9, <3>1, MovesOn
  <2> QED BY <1>16, <2>10, <2>11
<1> QED BY <1>14, <1>15, <1>16

-----------------------------------------------------------------------------
(***************************************************************************)
(* The matcher: failure, the end of the pattern, and the search.           *)
(***************************************************************************)

LEMMA InitRuns ==
  ASSUME NEW f, NEW S, NEW L, NEW G, Code(f, S, L, {}, {}, G), NEW pos
  PROVE  RunsOn(MatchInit(f, G, pos), S, L, G)
<1>1. PICK s : s = MatchInit(f, G, pos) OBVIOUS
<1>2. RunShape(s, G) /\ s.state = "match" /\ s.buf = f /\ s.p = 1 /\ s.stack = <<>>
  BY <1>1, MatchInitIs
<1>3. Len(s.stack) = 0 BY <1>2
<1>4. StackHolds(s, S, L)
  <2>1. \A i \in 1..0 : FALSE OBVIOUS
  <2> QED BY <2>1, <1>3 DEF StackHolds
<1>5. \E k \in 0..2 : Stands(s, S, L, k)
  <2>1. S \subseteq Nat /\ 1 \in S /\ L[1] = 0 BY AddressesOf DEF Code
  <2>2. L[s.p] <= Len(s.stack) BY <1>2, <1>3, <2>1
  <2> QED BY <1>2, <2>1, <2>2, StandsAt
<1> QED BY <1>1, <1>2, <1>4, <1>5 DEF RunsOn

LEMMA TakeFailurePointRuns ==
  ASSUME NEW S, NEW L, NEW G, RunsOn(m, S, L, G), TakeFailurePoint
  PROVE  RunsOn(m', S, L, G)
<1>1. DOMAIN m = MatchFields /\ RunShape(m, G) BY DEF RunsOn, RunShape
<1>2. CASE m.stack = <<>> /\ m.best # <<>>
  <2>1. PICK s : s = RestoreBestRegs(m) OBVIOUS
  <2>2. SameRun(m, s) BY <2>1, <1>1, <1>2, RestoreIs
  <2>3. m' = Accept(s) BY <1>2, <2>1 DEF TakeFailurePoint
  <2>4. SameRun(s, m') /\ m'.state = "done" BY <2>2, <2>3, AcceptIs DEF SameRun
  <2>5. SameRun(m, m') BY <2>2, <2>4 DEF SameRun
  <2> QED BY <2>4, <2>5, MovesOn
<1>3. CASE m.stack = <<>> /\ m.best = <<>>
  <2>1. m' = [m EXCEPT !.state = "done", !.ret = "no match"] BY <1>3 DEF TakeFailurePoint
  <2>2. SameRun(m, m') /\ m'.state = "done" BY <1>1, <2>1 DEF SameRun, MatchFields
  <2> QED BY <2>2, MovesOn
<1>4. CASE m.stack # <<>>
  <2>1. PICK s, x : s = PopFailurePoint(m) /\ x = Last(m.stack) OBVIOUS
  <2>2. PICK t : t = m' OBVIOUS
  <2>3. t = [s EXCEPT !.state = IF FailsAgain(s) THEN "fail" ELSE "match"]
    BY <1>4, <2>1, <2>2 DEF TakeFailurePoint
  <2>4. /\ DOMAIN s = MatchFields /\ s.buf = m.buf /\ s.best = m.best
        /\ DOMAIN s.start = DOMAIN m.start /\ s.p = x.p
        /\ s.state = m.state /\ s.stack = Front(m.stack)
    BY <1>1, <2>1, PopIs
  <2>5. /\ DOMAIN t = MatchFields /\ t.buf = m.buf /\ t.best = m.best
        /\ DOMAIN t.start = DOMAIN m.start /\ t.p = x.p /\ t.stack = Front(m.stack)
        /\ t.state = "match" => x.p # NullPointer
    <3>1. \E st : t = [s EXCEPT !.state = st] /\ (st = "match" => ~FailsAgain(s)) BY <2>3
    <3>2. ~FailsAgain(s) => x.p # NullPointer BY <2>4 DEF FailsAgain
    <3> QED BY <3>1, <3>2, <2>4 DEF MatchFields
  <2>6. PICK n : n = Len(m.stack) OBVIOUS
  <2>7. n \in Nat /\ 1 <= n /\ x = m.stack[n] /\ Len(Front(m.stack)) = n - 1
    BY <1>1, <1>4, <2>1, <2>6, FrontIs DEF RunShape
  <2>8. x.p = NullPointer \/ (x.p \in S /\ L[x.p] <= n - 1)
    <3>1. n \in 1..n BY <2>7
    <3> QED BY <3>1, <2>6, <2>7 DEF RunsOn, StackHolds
  <2>9. Code(m.buf, S, L, {}, {}, G) BY DEF RunsOn
  <2>10. t.state = "match" => \E k \in 0..2 : Stands(t, S, L, k)
    <3>1. S \subseteq Nat BY <2>9, AddressesOf
    <3> QED BY <3>1, <2>5, <2>7, <2>8, StandsAt
  <2>11. Stacked(m, t, S, L) BY <1>4, <2>5 DEF Stacked
  <2> QED BY <2>2, <2>5, <2>9, <2>10, <2>11, NextRuns
<1> QED BY <1>2, <1>3, <1>4

LEMMA EndOfPatternRuns ==
  ASSUME NEW S, NEW L, NEW G, RunsOn(m, S, L, G), EndOfPattern
  PROVE  RunsOn(m', S, L, G)
<1>1. DOMAIN m = MatchFields /\ RunShape(m, G) BY DEF RunsOn, RunShape
<1>2. PICK save : save = [d |-> m.d, start |-> m.start, end |-> m.end] OBVIOUS
<1>3. \/ m' = Accept(m) \/ m' = Fail(m)
      \/ m.best # <<>> /\ m' = Accept(RestoreBestRegs(m))
      \/ m' = Fail([m EXCEPT !.best = save])
  BY <1>2 DEF EndOfPattern
<1>4. CASE m' = Accept(m) \/ m' = Fail(m)
  <2>1. SameRun(m, m') /\ m'.state # "match" BY <1>1, <1>4, AcceptIs, FailIs
  <2> QED BY <2>1, MovesOn
<1>5. CASE m.best # <<>> /\ m' = Accept(RestoreBestRegs(m))
  <2>1. PICK s : s = RestoreBestRegs(m) OBVIOUS
  <2>2. SameRun(m, s) BY <2>1, <1>1, <1>5, RestoreIs
  <2>3. SameRun(s, m') /\ m'.state = "done" BY <1>5, <2>1, <2>2, AcceptIs DEF SameRun
  <2>4. SameRun(m, m') BY <2>2, <2>3 DEF SameRun
  <2> QED BY <2>3, <2>4, MovesOn
<1>6. CASE m' = Fail([m EXCEPT !.best = save])
  <2>1. PICK s, t : s = [m EXCEPT !.best = save] /\ t = m' OBVIOUS
  <2>2. /\ DOMAIN s = MatchFields /\ s.buf = m.buf /\ s.stack = m.stack /\ s.best = save
        /\ s.start = m.start
    BY <1>1, <2>1 DEF MatchFields
  <2>3. SameRun(s, t) /\ t.state = "fail" BY <1>6, <2>1, <2>2, FailIs
  <2>4. /\ DOMAIN t = MatchFields /\ t.buf = m.buf /\ t.stack = m.stack /\ t.best = save
        /\ DOMAIN t.start = DOMAIN m.start
    BY <2>2, <2>3 DEF SameRun
  <2>5. RunShape(t, G) BY <1>1, <1>2, <2>4 DEF RunShape
  <2>6. StackHolds(t, S, L) BY <2>4 DEF RunsOn, StackHolds
  <2> QED BY <2>1, <2>3, <2>4, <2>5, <2>6 DEF RunsOn
<1> QED BY <1>3, <1>4, <1>5, <1>6

LEMMA ReturnedIs ==
  ASSUME NEW S, NEW L, NEW G, RunsOn(m, S, L, G), m' = [m EXCEPT !.state = "returned"]
  PROVE  RunsOn(m', S, L, G)
<1>1. DOMAIN m = MatchFields BY DEF RunsOn, RunShape
<1>2. SameRun(m, m') /\ m'.state = "returned" BY <1>1 DEF SameRun, MatchFields
<1> QED BY <1>2, MovesOn

LEMMA AdvanceRuns ==
  ASSUME NEW S, NEW L, NEW G, RunsOn(m, S, L, G), Advance
  PROVE  RunsOn(m', S, L, G)
<1>1. PICK g : g = Cardinality(Groups) OBVIOUS
<1>2. \/ m' = [m EXCEPT !.state = "returned"]
      \/ \E pos : m' = MatchInit(m.buf, g, pos)
  BY <1>1 DEF Advance
<1>3. CASE m' = [m EXCEPT !.state = "returned"] BY <1>3, ReturnedIs
<1>4. CASE \E pos : m' = MatchInit(m.buf, g, pos)
  <2>1. Code(m.buf, S, L, {}, {}, G) /\ Groups = 1..G BY DEF RunsOn, RunShape, Groups
  <2>2. G \in Nat BY <2>1, AddressesOf
  <2>3. g = G
    <3>1. IF 1 > G THEN Cardinality(1..G) = 0 ELSE Cardinality(1..G) = G - 1 + 1
      BY <2>2, FS_Interval
    <3> QED BY <1>1, <2>1, <2>2, <3>1
  <2> QED BY <1>4, <2>1, <2>3, InitRuns
<1> QED BY <1>2, <1>3, <1>4

LEMMA FoundRuns ==
  ASSUME NEW S, NEW L, NEW G, RunsOn(m, S, L, G), Found
  PROVE  RunsOn(m', S, L, G)
BY ReturnedIs DEF Found

LEMMA MatchRuns ==
  ASSUME NEW S, NEW L, NEW G, RunsOn(m, S, L, G), MatchStep
  PROVE  RunsOn(m', S, L, G)
<1>1. CASE NoOp \/ ExactN \/ MatchOneChar \/ Place \/ Duplicate \/ StartMemory \/ StopMemory
  BY <1>1, NoOpRuns, ExactNRuns, MatchOneCharRuns, PlaceRuns, DuplicateRuns, StartMemoryRuns,
     StopMemoryRuns
<1>2. CASE OnFailureJump \/ MaybePopJump \/ PopFailureJump \/ UnconditionalJump
           \/ DummyFailureJump \/ PushDummyFailure
  BY <1>2, OnFailureJumpRuns, MaybePopJumpRuns, PopFailureJumpRuns, UnconditionalJumpRuns,
     DummyFailureJumpRuns, PushDummyFailureRuns
<1>3. CASE SucceedN \/ JumpN \/ SetNumberAt BY <1>3, SucceedNRuns, JumpNRuns, SetNumberAtRuns
<1>4. CASE TakeFailurePoint \/ EndOfPattern \/ Advance \/ Found
  BY <1>4, TakeFailurePointRuns, EndOfPatternRuns, AdvanceRuns, FoundRuns
<1> QED BY <1>1, <1>2, <1>3, <1>4 DEF MatchStep

-----------------------------------------------------------------------------
(***************************************************************************)
(* Objects: the code of a finished pattern is code, and remains it through *)
(* every match.                                                            *)
(***************************************************************************)
RunHolds ==
    /\ comp.state # "done" => m.state = "unused"
    /\ m.state # "unused" => \E S, L : RunsOn(m, S, L, comp.regnum)

LEMMA UnusedIs == Unused.state = "unused"
BY DEF Unused, MatchInit

LEMMA RunInit == ObjectsInit => RunHolds
<1> SUFFICES ASSUME ObjectsInit PROVE RunHolds OBVIOUS
<1>1. m = Unused BY DEF ObjectsInit, Constructed
<1> QED BY <1>1, UnusedIs DEF RunHolds

LEMMA RunNext ==
  CompilerHolds /\ CodeHolds(comp) /\ RunHolds /\ [ObjectsNext]_regexpVars => RunHolds'
<1> SUFFICES ASSUME CompilerHolds, CodeHolds(comp), RunHolds, [ObjectsNext]_regexpVars
             PROVE  RunHolds'
  OBVIOUS
<1>2. CASE Compile
  <2>1. comp.state # "done"
    BY <1>2 DEF Compile, CompileStep, Literal, Anchor, AnyChar, Repetition, OpenBracket,
                BracketItem, OpenGroup, CloseGroup, Alternative, Interval, Backslash, Finish,
                Fetch
  <2>2. m'.state = "unused" BY <1>2, <2>1 DEF Compile, RunHolds
  <2> QED BY <2>2 DEF RunHolds
<1>3. ASSUME NEW pat \in Seq(Symbols), Construct(pat) PROVE RunHolds'
  <2>1. m' = Unused BY <1>3 DEF Construct
  <2>2. m'.state = "unused" BY <2>1, UnusedIs
  <2> QED BY <2>2 DEF RunHolds
<1>4. ASSUME NEW s \in Seq(Range(ASCII)), Match(s) PROVE RunHolds'
  <2>1. comp.state = "done" /\ comp' = comp BY <1>4 DEF Match, Idle
  <2>2. PICK G, f : G = comp.regnum /\ f = IF m.state = "unused" THEN Compiled ELSE m.buf
    OBVIOUS
  <2>3. m' = MatchInit(f, G, 0) BY <1>4, <2>2 DEF Match
  <2>4. \E S, L : Code(f, S, L, {}, {}, G)
    <3>1. CASE m.state # "unused"
      <4>1. f = m.buf BY <2>2, <3>1
      <4>2. PICK S, L : RunsOn(m, S, L, G) BY <2>2, <3>1 DEF RunHolds
      <4> QED BY <4>1, <4>2 DEF RunsOn
    <3>2. CASE m.state = "unused" /\ comp.ret = "REG_NOERROR"
      <4>1. f = comp.buf BY <2>2, <3>2 DEF Compiled
      <4>2. Final(comp) BY <2>1, <3>2 DEF CodeHolds
      <4> QED BY <2>2, <4>1, <4>2 DEF Final
    <3>3. CASE m.state = "unused" /\ comp.ret # "REG_NOERROR"
      <4>1. f = <<>> BY <2>2, <3>3 DEF Compiled
      <4>2. G \in Nat BY <2>2 DEF CompilerHolds, Sound, Placed, Shape
      <4>3. Code(<<>>, {1}, [q \in {1} |-> 0], {}, {}, G) BY <4>2, EmptyCode
      <4> QED BY <4>1, <4>3
    <3> QED BY <3>1, <3>2, <3>3
  <2>5. PICK S, L : Code(f, S, L, {}, {}, G) BY <2>4
  <2>6. RunsOn(m', S, L, comp'.regnum) BY <2>1, <2>2, <2>3, <2>5, InitRuns
  <2> QED BY <2>1, <2>6 DEF RunHolds
<1>5. CASE Run
  <2>1. MatchStep /\ comp' = comp BY <1>5 DEF Run
  <2>2. m.state \in {"match", "fail", "done"} BY <2>1, MatchFrame
  <2>3. PICK G : G = comp.regnum OBVIOUS
  <2>4. PICK S, L : RunsOn(m, S, L, G) BY <2>2, <2>3 DEF RunHolds
  <2>5. RunsOn(m', S, L, G) BY <2>1, <2>4, MatchRuns
  <2>6. RunsOn(m', S, L, comp'.regnum) BY <2>1, <2>3, <2>5
  <2>7. comp'.state = "done" BY <2>1, <2>2 DEF RunHolds
  <2> QED BY <2>6, <2>7 DEF RunHolds
<1>6. CASE UNCHANGED regexpVars
  <2>1. comp' = comp /\ m' = m BY <1>6 DEF regexpVars
  <2> QED BY <2>1 DEF RunHolds
<1> QED BY <1>2, <1>3, <1>4, <1>5, <1>6 DEF ObjectsNext, RegexpStep

LEMMA RunAlways == Objects /\ []ShortCode => [](CompilerHolds /\ CodeHolds(comp) /\ RunHolds)
<1>1. Objects => []CompilerHolds BY CompilerInit, CompilerNext, PTL DEF Objects
<1> QED BY <1>1, CompilerCodeInit, CompilerCodeNext, RunInit, RunNext, PTL DEF Objects

\* The assertion of POP_FAILURE_POINT, of every pattern of fewer than 3584
\* bytes of code and in every match: whatever loops and alternatives are
\* nested and whatever the matcher has written into the code, a loop that
\* drops a failure point has one to drop.
THEOREM LoopsDropTheirOwn == Objects /\ []ShortCode => []PopsWhatWasPushed
<1>1. ASSUME RunHolds PROVE PopsWhatWasPushed
  <2> SUFFICES ASSUME NEW op \in {"pop_failure_jump", "maybe_pop_jump"}, Executes(op)
               PROVE  m.stack # <<>>
    BY DEF PopsWhatWasPushed
  <2>1. m.state = "match" BY DEF Executes
  <2>2. PICK S, L, G : RunsOn(m, S, L, G) BY <1>1, <2>1 DEF RunHolds
  <2>3. Op[op] \in LoopOps /\ Op[op] \in JumpOps /\ Op[op] # Garbage /\ Op[op] # Op.no_op
    BY JumpNames
  <2>4. PICK f, q, n : f = m.buf /\ q = m.p /\ n = Len(m.stack) OBVIOUS
  <2>5. /\ f[q] = Op[op] /\ q \in Ops(f, S, {}) /\ n \in Nat /\ L[q] <= n
        /\ Code(f, S, L, {}, {}, G) /\ Target(f, q) \in Int
    BY <2>2, <2>3, <2>4, RunsJump
  <2>6. 1 <= n BY <2>3, <2>5, DropsOne
  <2>7. Len(m.stack) # 0 BY <2>4, <2>6
  <2> QED BY <2>7
<1>2. RunHolds => PopsWhatWasPushed BY <1>1
<1> QED BY <1>2, RunAlways, PTL

LEMMA NumbersAreOps == 0..28 \subseteq Range(Op)
<1> SUFFICES ASSUME NEW v \in 0..28 PROVE v \in Range(Op) OBVIOUS
<1>1. v + 1 \in 1..29 /\ (v + 1) - 1 = v OBVIOUS
<1>2. PICK o : o = Opcodes[v + 1] OBVIOUS
<1>3. Op[o] = v BY <1>1, <1>2, OpValue
<1>4. o \in Range(Opcodes)
  <2>1. DOMAIN Opcodes = 1..29 BY DEF Opcodes
  <2> QED BY <2>1, <1>1, <1>2 DEF Range
<1>5. o \in DOMAIN Op BY <1>4 DEF Op
<1> QED BY <1>3, <1>5 DEF Range

LEMMA KindsAreOps ==
  PlainOps \cup CountedOps \cup GroupOps \cup GotoOps \cup LoopOps \cup CountingOps
    \cup {Op.duplicate, Op.on_failure_jump, Op.set_number_at, Op.dummy_failure_jump}
      \subseteq Range(Op)
<1>1. PlainOps \cup CountedOps \cup GroupOps \cup GotoOps \cup LoopOps \cup CountingOps
        \cup {Op.duplicate, Op.on_failure_jump, Op.set_number_at, Op.dummy_failure_jump}
          \subseteq 0..28
  BY OpCodes, OpKinds
<1> QED BY <1>1, NumbersAreOps

\* re_match_2 never comes to what is no op code: neither a jump of any
\* pattern's code nor what the matcher has written into it leads into the
\* arguments of an op, or out of the code.
THEOREM OnlyOpCodesRun == Objects /\ []ShortCode => []RunsOpCodes
<1>1. ASSUME RunHolds PROVE RunsOpCodes
  <2> SUFFICES ASSUME m.state = "match" PROVE m.p = pend \/ Byte(m.buf, m.p) \in Range(Op)
    BY DEF RunsOpCodes
  <2>1. PICK S, L, G : RunsOn(m, S, L, G) BY <1>1 DEF RunHolds
  <2>2. PICK f, q : f = m.buf /\ q = m.p OBVIOUS
  <2>3. Code(f, S, L, {}, {}, G) BY <2>1, <2>2 DEF RunsOn
  <2>4. PICK k \in 0..2 : /\ q \in Int /\ q + k \in S
                          /\ \A i \in q..(q + k - 1) : Is(f, i, "no_op")
    BY <2>1, <2>2 DEF RunsOn, Stands
  <2>5. CASE k # 0
    <3>1. q \in q..(q + k - 1) BY <2>4, <2>5
    <3>2. Byte(f, q) = Op.no_op BY <3>1, <2>4 DEF Is
    <3>3. Op.no_op \in Range(Op) BY OpCodes, NumbersAreOps
    <3> QED BY <3>2, <3>3, <2>2
  <2>6. CASE k = 0 /\ q # pend
    <3>1. q \in S BY <2>4, <2>6
    <3>2. q # Len(f) + 1 BY <2>2, <2>6 DEF pend
    <3>3. q \in Ops(f, S, {}) BY <3>1, <3>2 DEF Ops
    <3>4. Args(f, q, G) BY <2>3, <3>3 DEF Code, OpOK
    <3>5. f[q] \in Range(Op)
      BY <3>4, KindsAreOps DEF Args, CountingOps
    <3>6. q \in DOMAIN f
      <4>1. IsBuffer(f) /\ Len(f) \in Nat /\ q \in 1..(Len(f) + 1) BY <2>3, <3>1, AddressesOf
      <4> QED BY <4>1, <3>2, BufferLen
    <3> QED BY <3>5, <3>6, <2>2 DEF Byte
  <2> QED BY <2>2, <2>5, <2>6
<1>2. RunHolds => RunsOpCodes BY <1>1
<1> QED BY <1>2, RunAlways, PTL

-----------------------------------------------------------------------------
(***************************************************************************)
(* The room on the failure stack.                                          *)
(***************************************************************************)

\* The registers that a failure point saves are registers of groups.
Between(s, G) ==
    s.low \in Int /\ s.high \in Int /\ 1 <= s.low /\ (s.low <= s.high => s.high <= G)

LowToHigh(s) == s.low <= s.high + 1
InOrder == LowToHigh(m)

LEMMA ItemsAre ==
  ASSUME NEW s, NEW G \in Nat, Between(s, G)
  PROVE  /\ ItemsPushed(s) \in Nat /\ 4 <= ItemsPushed(s) /\ ItemsPushed(s) <= 3 * G + 4
         /\ LowToHigh(s) => NumFailureItems(s) = ItemsPushed(s)
<1>1. PICK lo, hi, c : lo = s.low /\ hi = s.high /\ c = Cardinality(lo..hi) OBVIOUS
<1>2. lo \in Int /\ hi \in Int /\ 1 <= lo /\ (lo <= hi => hi <= G) BY <1>1 DEF Between
<1>3. c = IF lo > hi THEN 0 ELSE hi - lo + 1 BY <1>1, <1>2, FS_Interval
<1>4. c \in Nat /\ 0 <= c /\ c <= G /\ (lo <= hi + 1 => c = hi - lo + 1) BY <1>2, <1>3
<1>5. ItemsPushed(s) = 3 * c + 4 BY <1>1 DEF ItemsPushed
<1>6. NumFailureItems(s) = 3 * (hi - lo + 1) + 4 BY <1>1 DEF NumFailureItems
<1> QED BY <1>1, <1>4, <1>5, <1>6 DEF LowToHigh

LEMMA MinIs ==
  ASSUME NEW T, T \subseteq Nat, T # {}
  PROVE  Min(T) \in T /\ \A y \in T : Min(T) <= y
<1> DEFINE R == OpToRel(<, Nat)
<1>a. IsWellFoundedOn(R, Nat) BY NatLessThanWellFounded
<1>b. \A x, y \in Nat : y < x => <<y, x>> \in R BY Zenon DEF OpToRel
<1> HIDE DEF R
<1>1. PICK x \in T : \A y \in T : <<y, x>> \notin R BY <1>a, WFMin
<1>2. \A y \in T : x <= y
  <2>1. \A y \in T : ~(y < x) BY <1>b, <1>1
  <2> QED BY <2>1
<1>3. \E z \in T : \A y \in T : z <= y BY <1>2
<1> QED BY <1>3 DEF Min

LEMMA Halves ==
  /\ \A k \in Doublings : k \in Nat /\ 1 <= k
  /\ \A k \in Doublings : k # 1 => \E h \in Doublings : k = 2 * h /\ h < k
  /\ 4096 \in Doublings
BY DEF Doublings

LEMMA Times ==
  ASSUME NEW x \in Nat, NEW h \in Nat, 1 <= h
  PROVE  x * (2 * h) = 2 * (x * h) /\ x <= x * h /\ x * h \in Nat /\ (2 * (x * h)) \div 2 = x * h
<1>1. x * h \in Nat /\ x <= x * h OBVIOUS
<1>2. x * (2 * h) = 2 * (x * h) OBVIOUS
<1>3. \A y \in Nat : (2 * y) \div 2 = y OBVIOUS
<1> QED BY <1>1, <1>2, <1>3

LEMMA LessTimes ==
  ASSUME NEW x \in Nat, NEW y \in Nat, NEW q \in Nat, x * q < y * q + q
  PROVE  x <= y
<1> SUFFICES ASSUME y + 1 <= x PROVE FALSE OBVIOUS
<1>1. PICK z : z = x - (y + 1) OBVIOUS
<1>2. z \in Nat /\ x = z + (y + 1) BY <1>1
<1>3. x * q = z * q + (y * q + q) BY <1>2
<1>4. z * q \in Nat /\ y * q \in Nat BY <1>2
<1> QED BY <1>3, <1>4

\* The stack grows until the point fits; it only gives up when it holds as
\* many points as it may.
LEMMA GrowsUntilItFits ==
  ASSUME NEW s, NEW G \in 0..255, Between(s, G), LowToHigh(s), DOMAIN m.start = 1..G,
         s.size \in Nat, 5 <= s.size, s.avail \in Nat, s.avail <= s.size,
         NEW n \in Nat, s.avail <= n * (3 * G + 4)
  PROVE  /\ GrownSize(s) = 0 => re_max_failures <= n
         /\ GrownSize(s) # 0 => /\ GrownSize(s) \in Nat /\ 5 <= GrownSize(s)
                                /\ s.avail + ItemsPushed(s) <= GrownSize(s)
<1>1. PICK sz, av, q, i, F, k : /\ sz = s.size /\ av = s.avail /\ q = 3 * G + 4
                                /\ i = ItemsPushed(s) /\ F = Fits(s) /\ k = Min(F)
  OBVIOUS
<1>2. /\ i \in Nat /\ 4 <= i /\ i <= q /\ NumFailureItems(s) = i /\ q \in Nat /\ q <= 769
      /\ sz \in Nat /\ 5 <= sz /\ av \in Nat /\ av <= sz
  BY <1>1, ItemsAre
<1>3. \A j \in Doublings : sz * j \in Nat /\ sz <= sz * j /\ (j \in F <=> sz * j - av >= i)
  <2> SUFFICES ASSUME NEW j \in Doublings
               PROVE  sz * j \in Nat /\ sz <= sz * j /\ (j \in F <=> sz * j - av >= i)
    OBVIOUS
  <2>1. PICK z : z = sz * j OBVIOUS
  <2>2. z \in Nat /\ sz <= z
    <3>1. j \in Nat /\ 1 <= j BY Halves
    <3> QED BY <3>1, <2>1, <1>2, Times
  <2>3. ~(z - av < 0) /\ ~(i < 0) BY <2>2, <1>2
  <2>4. AtLeast(z - av, i) <=> z - av >= i BY <2>3 DEF AtLeast
  <2>5. j \in F <=> AtLeast(z - av, i) BY <2>1, <1>1, <1>2 DEF Fits
  <2> QED BY <2>1, <2>2, <2>4, <2>5
<1>4. F \subseteq Doublings BY <1>1 DEF Fits
<1>5. F # {}
  <2>1. sz * 4096 - av >= i BY <1>2
  <2> QED BY <2>1, <1>3, Halves
<1>6. k \in F /\ (\A j \in F : k <= j) /\ k \in Doublings
  <2>1. F \subseteq Nat BY <1>4, Halves
  <2> QED BY <2>1, <1>1, <1>4, <1>5, MinIs
<1>7. PICK z : z = sz * k OBVIOUS
<1>8. z \in Nat /\ sz <= z /\ z - av >= i BY <1>3, <1>6, <1>7
<1>9. Cardinality(Groups) = G
  <2>1. Cardinality(1..G) = IF 1 > G THEN 0 ELSE G - 1 + 1 BY FS_Interval
  <2>2. Cardinality(1..G) = G BY <2>1
  <2> QED BY <2>2 DEF Groups
<1>10. GrownSize(s) = IF z # sz /\ z \div 2 > re_max_failures * q THEN 0 ELSE z
  <2>1. MAX_FAILURE_ITEMS = q BY <1>1, <1>9 DEF MAX_FAILURE_ITEMS
  <2> QED BY <2>1, <1>1, <1>5, <1>7 DEF GrownSize
<1>11. CASE ~(z # sz /\ z \div 2 > re_max_failures * q)
  <2>1. GrownSize(s) = z BY <1>10, <1>11
  <2>2. z # 0 /\ 5 <= z /\ av + i <= z BY <1>2, <1>8
  <2> QED BY <2>1, <2>2, <1>1, <1>8
<1>12. CASE z # sz /\ z \div 2 > re_max_failures * q
  <2>1. GrownSize(s) = 0 BY <1>10, <1>12
  <2>2. k # 1
    <3>1. sz * 1 = sz BY <1>2
    <3> QED BY <3>1, <1>7, <1>12
  <2>3. PICK h \in Doublings : k = 2 * h /\ h < k BY <2>2, <1>6, Halves
  <2>4. PICK y : y = sz * h OBVIOUS
  <2>5. z \div 2 = y /\ y \in Nat
    <3>1. h \in Nat /\ 1 <= h BY Halves
    <3> QED BY <3>1, <2>3, <2>4, <1>2, <1>7, Times
  <2>6. ~(y - av >= i)
    <3>1. h \notin F
      <4>1. h \in Nat /\ k \in Nat BY <1>6, Halves
      <4> QED BY <4>1, <2>3, <1>6
    <3> QED BY <3>1, <2>4, <1>3
  <2>7. PICK x, w : x = re_max_failures * q /\ w = n * q OBVIOUS
  <2>8. x \in Nat /\ w \in Nat BY <2>7, <1>2, MatchAssumption
  <2>9. av <= w BY <2>7, <1>1
  <2>10. x < w + q BY <2>5, <2>6, <2>8, <2>9, <2>7, <1>2, <1>12
  <2>11. re_max_failures <= n BY <2>7, <2>10, <1>2, MatchAssumption, LessTimes
  <2> QED BY <2>1, <2>11
<1> QED BY <1>11, <1>12

-----------------------------------------------------------------------------
\* How many items there are up to each point of the stack.
Sums(T, f, G) ==
    /\ T \in [0..Len(f) -> Nat] /\ T[0] = 0
    /\ \A i \in 1..Len(f) : T[i] = T[i - 1] + ItemsPushed(f[i])
    /\ \A i \in 0..Len(f) : T[i] <= i * (3 * G + 4)

\* The points of a stack of v items.
Counted(f, G, v) ==
    /\ \A i \in 1..Len(f) : Between(f[i], G)
    /\ \E T : Sums(T, f, G) /\ T[Len(f)] = v

\* The items on the stack are counted and have room, and an error of the
\* matcher is a stack that is as deep as it may be.
Room(s, G) ==
    /\ s.size \in Nat /\ 5 <= s.size /\ s.avail \in Nat /\ s.avail <= s.size
    /\ Between(s, G)
    /\ Counted(s.stack, G, s.avail)
    /\ s.ret = "error" => re_max_failures <= Len(s.stack)
    /\ s.state \in {"match", "fail"} => s.ret # "error"

SameRoom(s, t) ==
    /\ DOMAIN t = MatchFields /\ t.size = s.size /\ t.avail = s.avail /\ t.stack = s.stack
    /\ t.low = s.low /\ t.high = s.high /\ t.ret = s.ret
    /\ t.state \in {"match", "fail"} => s.state \in {"match", "fail"}

LEMMA SameRoomKept ==
  ASSUME NEW s, NEW t, NEW G, Room(s, G), SameRoom(s, t)
  PROVE  Room(t, G)
BY DEF Room, SameRoom, Between

LEMMA SkipRoom ==
  ASSUME NEW s, DOMAIN s = MatchFields, NEW n
  PROVE  SameRoom(s, Skip(s, n))
BY DEF Skip, SameRoom, MatchFields

LEMMA JumpRoom ==
  ASSUME NEW s, DOMAIN s = MatchFields
  PROVE  SameRoom(s, Jump(s))
BY DEF Jump, SameRoom, MatchFields

LEMMA ConsumeRoom ==
  ASSUME NEW s, DOMAIN s = MatchFields, NEW n
  PROVE  SameRoom(s, Consume(s, n))
BY DEF Consume, SameRoom, MatchFields

LEMMA FailRoom ==
  ASSUME NEW s, DOMAIN s = MatchFields, s.state \in {"match", "fail"}
  PROVE  SameRoom(s, Fail(s))
BY DEF Fail, SameRoom, MatchFields

LEMMA RestoreOldRoom ==
  ASSUME NEW s, DOMAIN s = MatchFields
  PROVE  SameRoom(s, RestoreOld(s))
<1>1. CASE ~s.ever[Reg]
  <2>1. RestoreOld(s) = s BY <1>1 DEF RestoreOld
  <2> QED BY <2>1 DEF SameRoom
<1>2. CASE s.ever[Reg]
  <2>1. PICK r : r = Reg OBVIOUS
  <2>2. \E st, en : RestoreOld(s) = [s EXCEPT !.ever[r] = FALSE, !.start = st, !.end = en]
    BY <1>2, <2>1 DEF RestoreOld
  <2> QED BY <2>2 DEF SameRoom, MatchFields
<1> QED BY <1>1, <1>2

\* One more point.
LEMMA OnePointMore ==
  ASSUME NEW f, IsBuffer(f), NEW G \in Nat, NEW v, Counted(f, G, v), NEW x, Between(x, G)
  PROVE  Counted(Append(f, x), G, v + ItemsPushed(x))
<1>0. PICK g, T : g = Append(f, x) /\ Sums(T, f, G) /\ T[Len(f)] = v BY DEF Counted
<1>1. PICK n, q, y : n = Len(f) /\ q = 3 * G + 4 /\ y = ItemsPushed(x) OBVIOUS
<1>2. IsBuffer(g) /\ Len(g) = n + 1 /\ (\A i \in 1..n : g[i] = f[i]) /\ g[n + 1] = x
  BY <1>0, <1>1, BufferAppend DEF Agree
<1>3. n \in Nat /\ q \in Nat /\ y \in Nat /\ y <= q BY <1>1, BufferLen, ItemsAre
<1>4. \A i \in 1..(n + 1) : i = n + 1 \/ i \in 1..n BY <1>3
<1>5. \A i \in 1..(n + 1) : Between(g[i], G) BY <1>1, <1>2, <1>4 DEF Counted
<1> DEFINE V == [i \in 0..(n + 1) |-> IF i = n + 1 THEN T[n] + y ELSE T[i]]
<1>6. T \in [0..n -> Nat] /\ T[n] \in Nat /\ T[n] <= n * q /\ T[0] = 0
  <2>1. n \in 0..n BY <1>3
  <2> QED BY <2>1, <1>0, <1>1 DEF Sums
<1>7. V \in [0..(n + 1) -> Nat] /\ V[0] = 0 /\ V[n + 1] = T[n] + y
  <2>1. \A i \in 0..(n + 1) : i = n + 1 \/ i \in 0..n BY <1>3
  <2>2. 0 # n + 1 /\ 0 \in 0..(n + 1) /\ n + 1 \in 0..(n + 1) BY <1>3
  <2>3. T[n] + y \in Nat BY <1>3, <1>6
  <2> QED BY <2>1, <2>2, <2>3, <1>6
<1>8. \A i \in 0..n : V[i] = T[i] BY <1>3
<1> HIDE DEF V
<1>9. \A i \in 1..(n + 1) : V[i] = V[i - 1] + ItemsPushed(g[i])
  <2> SUFFICES ASSUME NEW i \in 1..(n + 1) PROVE V[i] = V[i - 1] + ItemsPushed(g[i])
    OBVIOUS
  <2>1. CASE i = n + 1
    <3>1. i - 1 = n /\ n \in 0..n BY <2>1, <1>3
    <3> QED BY <3>1, <2>1, <1>1, <1>2, <1>7, <1>8
  <2>2. CASE i # n + 1
    <3>1. i \in 1..n /\ i \in 0..n /\ i - 1 \in 0..n BY <2>2, <1>3
    <3> QED BY <3>1, <1>0, <1>1, <1>2, <1>8 DEF Sums
  <2> QED BY <2>1, <2>2
<1>10. \A i \in 0..(n + 1) : V[i] <= i * q
  <2> SUFFICES ASSUME NEW i \in 0..(n + 1) PROVE V[i] <= i * q OBVIOUS
  <2>1. CASE i = n + 1
    <3>1. PICK z : z = n * q OBVIOUS
    <3>2. (n + 1) * q = z + q /\ z \in Nat BY <3>1, <1>3
    <3> QED BY <3>1, <3>2, <2>1, <1>3, <1>6, <1>7
  <2>2. CASE i # n + 1
    <3>1. i \in 0..n BY <2>2, <1>3
    <3> QED BY <3>1, <1>0, <1>1, <1>8 DEF Sums
  <2> QED BY <2>1, <2>2
<1>11. Sums(V, g, G) BY <1>1, <1>2, <1>7, <1>9, <1>10 DEF Sums
<1>12. V[Len(g)] = v + ItemsPushed(x) BY <1>0, <1>1, <1>2, <1>7
<1>13. \A i \in 1..Len(g) : Between(g[i], G) BY <1>2, <1>5
<1> QED BY <1>0, <1>11, <1>12, <1>13 DEF Counted

\* Each point has no more than its registers and four items.
LEMMA CountIs ==
  ASSUME NEW f, IsBuffer(f), NEW G \in Nat, NEW v, Counted(f, G, v)
  PROVE  v \in Nat /\ v <= Len(f) * (3 * G + 4)
<1>1. PICK T : Sums(T, f, G) /\ T[Len(f)] = v BY DEF Counted
<1>2. PICK n : n = Len(f) OBVIOUS
<1>3. n \in 0..n BY <1>2, BufferLen
<1> QED BY <1>1, <1>2, <1>3 DEF Sums

\* The last point dropped.
LEMMA OnePointLess ==
  ASSUME NEW f, IsBuffer(f), f # <<>>, NEW G \in Nat, NEW v, Counted(f, G, v)
  PROVE  /\ Between(Last(f), G)
         /\ \E w \in Nat : v = w + ItemsPushed(Last(f)) /\ Counted(Front(f), G, w)
<1>0. PICK g, x, T : /\ g = Front(f) /\ x = Last(f) /\ Sums(T, f, G) /\ T[Len(f)] = v
                     /\ \A i \in 1..Len(f) : Between(f[i], G)
  BY DEF Counted
<1>1. PICK n, o, q : n = Len(f) /\ o = n - 1 /\ q = 3 * G + 4 OBVIOUS
<1>2. /\ IsBuffer(g) /\ Len(g) = o /\ n \in Nat /\ 1 <= n /\ x = f[n]
      /\ \A i \in 1..o : g[i] = f[i]
  BY <1>0, <1>1, FrontIs
<1>3. o \in Nat /\ n \in 1..n /\ o \in 0..n /\ o \in 0..o BY <1>1, <1>2
<1>4. \A i \in 0..o : i \in 0..n BY <1>1, <1>2
<1>5. \A i \in 1..o : i \in 1..n /\ i \in 0..o /\ i - 1 \in 0..o BY <1>1, <1>2
<1>6. Between(x, G) /\ \A i \in 1..o : Between(g[i], G) BY <1>0, <1>1, <1>2, <1>3, <1>5
<1>7. T[n] = T[o] + ItemsPushed(x) /\ T[o] \in Nat BY <1>0, <1>1, <1>2, <1>3 DEF Sums
<1> DEFINE V == [i \in 0..o |-> T[i]]
<1>8. V \in [0..o -> Nat] /\ \A i \in 0..o : V[i] = T[i] /\ T[i] <= i * q
  BY <1>0, <1>1, <1>4 DEF Sums
<1>9. \A i \in 1..o : V[i] = V[i - 1] + ItemsPushed(g[i])
  <2> SUFFICES ASSUME NEW i \in 1..o PROVE V[i] = V[i - 1] + ItemsPushed(g[i]) OBVIOUS
  <2>1. i \in 1..n /\ i \in 0..o /\ i - 1 \in 0..o BY <1>5
  <2>2. T[i] = T[i - 1] + ItemsPushed(f[i]) BY <2>1, <1>0, <1>1 DEF Sums
  <2> HIDE DEF V
  <2> QED BY <2>1, <2>2, <1>2, <1>8
<1> HIDE DEF V
<1>10. V[0] = 0
  <2>1. 0 \in 0..o BY <1>3
  <2> QED BY <2>1, <1>0, <1>8 DEF Sums
<1>11. Sums(V, g, G) BY <1>1, <1>2, <1>8, <1>9, <1>10 DEF Sums
<1>12. V[o] = T[o] BY <1>3, <1>8
<1>13. Counted(g, G, T[o]) BY <1>2, <1>6, <1>11, <1>12 DEF Counted
<1> QED BY <1>0, <1>1, <1>6, <1>7, <1>13

LEMMA MovedRoom ==
  ASSUME NEW s, NEW t, NEW G, Room(s, G), Between(t, G), t.size = s.size, t.avail = s.avail,
         t.stack = s.stack, t.ret = s.ret, s.state \in {"match", "fail"}
  PROVE  Room(t, G)
BY DEF Room

LEMMA PushRoom ==
  ASSUME NEW s, NEW G \in 0..255, Room(s, G), IsBuffer(s.stack), LowToHigh(s),
         DOMAIN m.start = 1..G, DOMAIN s = MatchFields, s.state = "match",
         NEW place, NEW string, NEW t, t = PushFailurePoint(s, place, string)
  PROVE  Room(t, G) /\ t.low = s.low /\ t.high = s.high /\ DOMAIN t = MatchFields
<1>0. G \in Nat OBVIOUS
<1>1. PICK f, n, z, a, x : /\ f = s.stack /\ n = Len(f) /\ z = GrownSize(s) /\ a = ItemsPushed(s)
                           /\ x = Point(s, place, string)
  OBVIOUS
<1>2. Counted(f, G, s.avail) BY <1>1 DEF Room
<1>3. n \in Nat /\ s.avail <= n * (3 * G + 4) BY <1>0, <1>1, <1>2, BufferLen, CountIs
<1>4. /\ z = 0 => re_max_failures <= n
      /\ z # 0 => z \in Nat /\ 5 <= z /\ s.avail + a <= z
  <2>1. /\ Between(s, G) /\ s.size \in Nat /\ 5 <= s.size /\ s.avail \in Nat
        /\ s.avail <= s.size
    BY DEF Room
  <2> QED BY <2>1, <1>1, <1>3, GrowsUntilItFits
<1>5. CASE z = 0
  <2>1. t = [s EXCEPT !.state = "done", !.ret = "error"] BY <1>1, <1>5 DEF PushFailurePoint
  <2>2. /\ DOMAIN t = MatchFields /\ t.size = s.size /\ t.avail = s.avail /\ t.stack = s.stack
        /\ t.low = s.low /\ t.high = s.high /\ t.state = "done"
    BY <2>1 DEF MatchFields
  <2>3. Between(t, G) BY <2>2 DEF Between, Room
  <2> QED BY <2>2, <2>3, <1>1, <1>4, <1>5 DEF Room
<1>6. CASE z # 0
  <2>1. t = [s EXCEPT !.size = z, !.avail = @ + a, !.stack = Append(@, x)]
    BY <1>1, <1>6 DEF PushFailurePoint, Point
  <2>2. /\ DOMAIN t = MatchFields /\ t.size = z /\ t.avail = s.avail + a
        /\ t.stack = Append(f, x) /\ t.low = s.low /\ t.high = s.high /\ t.state = s.state
        /\ t.ret = s.ret
    BY <2>1, <1>1 DEF MatchFields
  <2>3. Between(t, G) BY <2>2 DEF Between, Room
  <2>4. x.low = s.low /\ x.high = s.high BY <1>1 DEF Point
  <2>5. Between(x, G) /\ ItemsPushed(x) = a
    BY <2>4, <1>1 DEF Between, Room, ItemsPushed
  <2>6. Counted(t.stack, G, t.avail) BY <2>2, <2>5, <1>0, <1>1, <1>2, OnePointMore
  <2>9. t.avail \in Nat /\ t.avail <= t.size /\ 5 <= t.size /\ t.size \in Nat
    <3>1. a \in Nat BY <1>0, <1>1, ItemsAre DEF Room
    <3>2. s.avail \in Nat BY DEF Room
    <3> QED BY <3>1, <3>2, <2>2, <1>4, <1>6
  <2>10. t.ret # "error" BY <2>2 DEF Room
  <2> QED BY <2>2, <2>3, <2>6, <2>9, <2>10 DEF Room
<1> QED BY <1>5, <1>6

LEMMA DiscardRoom ==
  ASSUME NEW s, NEW G \in Nat, Room(s, G), IsBuffer(s.stack), s.stack # <<>>,
         DOMAIN s = MatchFields, s.state \in {"match", "fail"}, NEW t, t = Discard(s)
  PROVE  /\ Room(t, G) /\ DOMAIN t = MatchFields /\ Between(Last(s.stack), G)
         /\ t.state = s.state /\ t.ret = s.ret
<1>1. PICK f, g, x, a : f = s.stack /\ g = Front(f) /\ x = Last(f) /\ a = ItemsPushed(x)
  OBVIOUS
<1>2. t = [s EXCEPT !.stack = Front(@), !.avail = @ - a] BY <1>1 DEF Discard
<1>3. /\ DOMAIN t = MatchFields /\ t.size = s.size /\ t.low = s.low /\ t.high = s.high
      /\ t.state = s.state /\ t.ret = s.ret /\ t.stack = g /\ t.avail = s.avail - a
  BY <1>1, <1>2 DEF MatchFields
<1>4. Counted(f, G, s.avail) BY <1>1 DEF Room
<1>5. Between(x, G) /\ \E w \in Nat : s.avail = w + a /\ Counted(g, G, w)
  BY <1>1, <1>4, OnePointLess
<1>6. PICK v \in Nat : s.avail = v + a /\ Counted(g, G, v) BY <1>5
<1>7. a \in Nat BY <1>1, <1>5, ItemsAre
<1>8. t.avail = v /\ v \in Nat /\ v <= s.avail BY <1>3, <1>6, <1>7
<1>9. /\ t.size \in Nat /\ 5 <= t.size /\ t.avail \in Nat /\ t.avail <= t.size
      /\ Between(t, G) /\ t.ret # "error"
  <2>1. /\ s.size \in Nat /\ 5 <= s.size /\ s.avail \in Nat /\ s.avail <= s.size
        /\ Between(s, G) /\ s.ret # "error"
    BY DEF Room
  <2>2. v <= s.size BY <2>1, <1>8
  <2> QED BY <2>1, <2>2, <1>3, <1>8 DEF Between
<1>10. Room(t, G) BY <1>3, <1>6, <1>8, <1>9 DEF Room
<1> QED BY <1>1, <1>3, <1>5, <1>10

LEMMA PopRoom ==
  ASSUME NEW G \in Nat, Room(m, G), IsBuffer(m.stack), m.stack # <<>>,
         DOMAIN m = MatchFields, m.state = "fail", NEW t, t = PopFailurePoint(m)
  PROVE  Room(t, G) /\ DOMAIN t = MatchFields
<1>1. PICK s, f : s = Discard(m) /\ f = Last(m.stack) OBVIOUS
<1>2. Room(s, G) /\ DOMAIN s = MatchFields /\ Between(f, G) /\ s.state = "fail"
  BY <1>1, DiscardRoom
<1> DEFINE Saved(r, k, default) == IF r \in DOMAIN f.regs THEN f.regs[r][k] ELSE default
<1>a. PICK d, st, e :
        /\ d = IF f.d = REG_UNSET_VALUE THEN s.d ELSE f.d
        /\ st = [r \in Groups |-> Saved(r, 1, s.start[r])]
        /\ e = [r \in Groups |-> Saved(r, 2, s.end[r])]
  OBVIOUS
<1>b. PICK n, a, mt, ev :
        /\ n = [r \in Groups |-> Saved(r, 3, s.null[r])]
        /\ a = [r \in Groups |-> Saved(r, 4, s.active[r])]
        /\ mt = [r \in Groups |-> Saved(r, 5, s.matched[r])]
        /\ ev = [r \in Groups |-> Saved(r, 6, s.ever[r])]
  OBVIOUS
<1>3. t = [s EXCEPT !.p = f.p, !.d = d, !.low = f.low, !.high = f.high, !.start = st,
                    !.end = e, !.null = n, !.active = a, !.matched = mt, !.ever = ev]
  BY <1>a, <1>b, <1>1 DEF PopFailurePoint
<1>4. /\ DOMAIN t = MatchFields /\ t.size = s.size /\ t.avail = s.avail /\ t.stack = s.stack
      /\ t.low = f.low /\ t.high = f.high /\ t.ret = s.ret
  BY <1>2, <1>3 DEF MatchFields
<1>5. Between(t, G) BY <1>2, <1>4 DEF Between
<1> QED BY <1>2, <1>4, <1>5, MovedRoom

-----------------------------------------------------------------------------
(***************************************************************************)
(* The room on the failure stack, op by op.                                *)
(***************************************************************************)

LEMMA CountNone ==
  ASSUME NEW G \in Nat
  PROVE  Counted(<<>>, G, 0)
<1> DEFINE T == [i \in {0} |-> 0]
<1>1. Len(<<>>) = 0 /\ 0..0 = {0} /\ 1..0 = {} OBVIOUS
<1>2. T \in [{0} -> Nat] /\ T[0] = 0 /\ T[0] <= 0 * (3 * G + 4) OBVIOUS
<1> HIDE DEF T
<1>3. Sums(T, <<>>, G) BY <1>1, <1>2 DEF Sums
<1> QED BY <1>1, <1>2, <1>3 DEF Counted

LEMMA InitRoom ==
  ASSUME NEW f, NEW G \in Nat, NEW pos
  PROVE  Room(MatchInit(f, G, pos), G)
<1> DEFINE s == MatchInit(f, G, pos)
<1>1. /\ s.size = 5 /\ s.avail = 0 /\ s.stack = <<>> /\ s.low = 257 /\ s.high = 256
      /\ s.ret = "none"
  BY DEF MatchInit, INIT_FAILURE_ALLOC, NO_LOWEST_ACTIVE_REG, NO_HIGHEST_ACTIVE_REG
<1> HIDE DEF s
<1>2. Counted(s.stack, G, s.avail) BY <1>1, CountNone
<1>3. Between(s, G) BY <1>1 DEF Between
<1>4. Room(s, G) BY <1>1, <1>2, <1>3 DEF Room
<1> QED BY <1>4 DEF s

\* A match comes to its end.
LEMMA EndRoom ==
  ASSUME NEW s, NEW t, NEW G, Room(s, G), t.size = s.size, t.avail = s.avail,
         t.stack = s.stack, t.low = s.low, t.high = s.high, t.ret # "error"
  PROVE  Room(t, G)
BY DEF Room, Between

LEMMA StraightRoom ==
  ASSUME NEW G, Room(m, G), DOMAIN m = MatchFields,
         NoOp \/ ExactN \/ MatchOneChar \/ Place \/ Duplicate
  PROVE  Room(m', G)
<1>1. m.state = "match" BY DEF NoOp, ExactN, MatchOneChar, Place, Duplicate, Executes
<1>2. \/ m' = Fail(m) \/ \E n : m' = Skip(m, n)
      \/ \E x, n : m' = Skip(Consume(m, x), n)
      \/ \E x, n : m' = [m EXCEPT !.d = @ + n, !.p = @ + x]
  <2>1. NoOp => \E n : m' = Skip(m, n) BY DEF NoOp
  <2>2. ExactN => m' = Fail(m) \/ \E x, n : m' = Skip(Consume(m, x), n) BY DEF ExactN
  <2>3. MatchOneChar => m' = Fail(m) \/ \E x, n : m' = Skip(Consume(m, x), n)
    BY DEF MatchOneChar
  <2>4. Place => m' = Fail(m) \/ \E n : m' = Skip(m, n) BY DEF Place
  <2>5. Duplicate => m' = Fail(m) \/ \E x, n : m' = [m EXCEPT !.d = @ + n, !.p = @ + x]
    BY DEF Duplicate
  <2> QED BY <2>1, <2>2, <2>3, <2>4, <2>5
<1>3. CASE m' = Fail(m) BY <1>1, <1>3, FailRoom, SameRoomKept
<1>4. CASE \E n : m' = Skip(m, n) BY <1>4, SkipRoom, SameRoomKept
<1>5. CASE \E x, n : m' = Skip(Consume(m, x), n)
  <2>1. PICK x, n, s : s = Consume(m, x) /\ m' = Skip(s, n) BY <1>5
  <2>2. SameRoom(m, s) BY <2>1, ConsumeRoom
  <2>3. Room(s, G) /\ DOMAIN s = MatchFields BY <2>2, SameRoomKept DEF SameRoom
  <2> QED BY <2>1, <2>3, SkipRoom, SameRoomKept
<1>6. CASE \E x, n : m' = [m EXCEPT !.d = @ + n, !.p = @ + x]
  <2>1. SameRoom(m, m') BY <1>6 DEF SameRoom, MatchFields
  <2> QED BY <2>1, SameRoomKept
<1> QED BY <1>2, <1>3, <1>4, <1>5, <1>6

\* Ops that write into the code have all the room they had.
LEMMA WrittenRoom ==
  ASSUME NEW G, Room(m, G), DOMAIN m = MatchFields, NEW g, NEW s, s = [m EXCEPT !.buf = g]
  PROVE  /\ Room(s, G) /\ DOMAIN s = MatchFields /\ s.state = m.state /\ s.stack = m.stack
         /\ s.buf = g /\ s.p = m.p
<1>1. /\ SameRoom(m, s) /\ s.state = m.state /\ s.stack = m.stack /\ s.buf = g /\ s.p = m.p
      /\ DOMAIN s = MatchFields
  BY DEF SameRoom, MatchFields
<1> QED BY <1>1, SameRoomKept

LEMMA CountersRoom ==
  ASSUME NEW G, Room(m, G), DOMAIN m = MatchFields, UnconditionalJump \/ JumpN \/ SetNumberAt
  PROVE  Room(m', G)
<1>1. \/ m' = Jump(m) \/ m' = Skip(m, 5) \/ \E g : m' = Jump([m EXCEPT !.buf = g])
      \/ \E g : m' = [m EXCEPT !.buf = g, !.p = @ + 5]
  BY DEF UnconditionalJump, JumpN, SetNumberAt
<1>2. CASE m' = Jump(m) \/ m' = Skip(m, 5) BY <1>2, JumpRoom, SkipRoom, SameRoomKept
<1>3. CASE \E g : m' = Jump([m EXCEPT !.buf = g])
  <2>1. PICK g, s : s = [m EXCEPT !.buf = g] /\ m' = Jump(s) BY <1>3
  <2>2. Room(s, G) /\ DOMAIN s = MatchFields BY <2>1, WrittenRoom
  <2> QED BY <2>1, <2>2, JumpRoom, SameRoomKept
<1>4. CASE \E g : m' = [m EXCEPT !.buf = g, !.p = @ + 5]
  <2>1. SameRoom(m, m') BY <1>4 DEF SameRoom, MatchFields
  <2> QED BY <2>1, SameRoomKept
<1> QED BY <1>1, <1>2, <1>3, <1>4

\* The registers of a group's ops.
LEMMA GroupArgs ==
  ASSUME NEW f, NEW q, NEW G, Args(f, q, G), f[q] \in GroupOps
  PROVE  f[q + 1] \in 1..G /\ f[q + 2] \in Nat /\ f[q + 1] + f[q + 2] <= G
<1>1. PICK o : o = f[q] OBVIOUS
<1>2. /\ o \notin PlainOps /\ o \notin CountedOps /\ o # Op.duplicate
      /\ o \notin GotoOps \cup LoopOps \cup {Op.on_failure_jump, Op.set_number_at}
      /\ o # Op.dummy_failure_jump /\ o # Op.succeed_n /\ o # Op.jump_n
  <2>1. o \in GroupOps BY <1>1
  <2> QED BY <2>1, OpCodes, OpKinds
<1> QED BY <1>1, <1>2 DEF Args

LEMMA RegIs ==
  ASSUME NEW S, NEW L, NEW G, RunsOn(m, S, L, G), NEW op \in {"start_memory", "stop_memory"},
         Executes(op)
  PROVE  Reg \in 1..G
<1>1. PICK f, q : f = m.buf /\ q = m.p OBVIOUS
<1>2. Op[op] \in GroupOps BY OpClasses
<1>3. Op[op] # Garbage /\ Op[op] # Op.no_op BY <1>2, StraightCodes DEF StraightOps
<1>4. At1(m, S, L, G, q, f) /\ f[q] = Op[op] BY <1>1, <1>3, RunsOp
<1>5. Args(f, q, G) BY <1>4 DEF At1, OpOK
<1>6. f[q + 1] \in 1..G BY <1>2, <1>4, <1>5, GroupArgs
<1> QED BY <1>1, <1>6 DEF Reg

LEMMA StartMemoryRoom ==
  ASSUME NEW S, NEW L, NEW G, RunsOn(m, S, L, G), Room(m, G), StartMemory
  PROVE  Room(m', G)
<1>1. DOMAIN m = MatchFields BY DEF RunsOn, RunShape
<1>2. Executes("start_memory") /\ m.state = "match" BY DEF StartMemory, Executes
<1>3. PICK r : r = Reg OBVIOUS
<1>4. r \in 1..G BY <1>2, <1>3, RegIs
<1>5. PICK low : low = IF m.low = NO_LOWEST_ACTIVE_REG THEN Reg ELSE m.low OBVIOUS
<1>6. \E null, old : m' = [m EXCEPT !.null = null,
                       !.old_start[Reg] = old, !.start[Reg] = m.d,
                       !.active[Reg] = TRUE, !.matched[Reg] = FALSE,
                       !.high = Reg, !.low = low, !.p = @ + 3]
  BY <1>5 DEF StartMemory
<1>a. PICK null, old : m' = [m EXCEPT !.null = null,
                       !.old_start[Reg] = old, !.start[Reg] = m.d,
                       !.active[Reg] = TRUE, !.matched[Reg] = FALSE,
                       !.high = Reg, !.low = low, !.p = @ + 3]
  BY <1>6
<1>b. m' = [m EXCEPT !.null = null,
                       !.old_start[r] = old, !.start[r] = m.d,
                       !.active[r] = TRUE, !.matched[r] = FALSE,
                       !.high = r, !.low = low, !.p = @ + 3]
  BY <1>3, <1>a
<1>7. /\ m'.size = m.size /\ m'.avail = m.avail /\ m'.stack = m.stack /\ m'.ret = m.ret
      /\ m'.high = r /\ m'.low = low
  BY <1>1, <1>b DEF MatchFields
<1>8. Between(m', G)
  <2>1. m.low \in Int /\ 1 <= m.low BY DEF Room, Between
  <2>2. low \in Int /\ 1 <= low BY <2>1, <1>3, <1>4, <1>5
  <2> QED BY <2>2, <1>4, <1>7 DEF Between
<1> QED BY <1>2, <1>7, <1>8, MovedRoom

\* What on_failure_jump and succeed_n take for the op before which they
\* stand: no_ops are skipped.
LEMMA GroupIs ==
  ASSUME NEW f, NEW S, NEW L, NEW G, Code(f, S, L, {}, {}, G), NEW after \in Nat, NEW k \in 0..2,
         after + k \in S, \A i \in after..(after + k - 1) : Is(f, i, "no_op"),
         NEW g, g = Min({i \in after..(Len(f) + 2) : ~Is(f, i, "no_op")})
  PROVE  /\ g = after + k
         /\ Is(f, g, "start_memory") => /\ f[g + 1] \in 1..G /\ f[g + 2] \in Nat
                                        /\ f[g + 1] + f[g + 2] <= G
<1>1. PICK T, x, n : /\ T = {i \in after..(Len(f) + 2) : ~Is(f, i, "no_op")} /\ x = after + k
                     /\ n = Len(f)
  OBVIOUS
<1>2. IsBuffer(f) /\ n \in Nat /\ x \in 1..(n + 1) /\ x \in Nat /\ DOMAIN f = 1..n
  BY <1>1, AddressesOf, BufferLen
<1>3. x \in Ops(f, S, {}) \/ x = n + 1 BY <1>1 DEF Ops
<1>4. ~Is(f, x, "no_op")
  <2>1. CASE x = n + 1
    <3>1. x \notin DOMAIN f BY <2>1, <1>2
    <3>2. Byte(f, x) = Garbage BY <3>1 DEF Byte
    <3>3. Op["no_op"] # Garbage BY NoGarbageOp
    <3> QED BY <3>2, <3>3 DEF Is
  <2>2. CASE x # n + 1
    <3>1. Args(f, x, G) BY <2>2, <1>3 DEF Code, OpOK
    <3>2. x \in DOMAIN f BY <2>2, <1>2
    <3>3. f[x] # Op.no_op
      <4> SUFFICES ASSUME f[x] = Op.no_op PROVE FALSE OBVIOUS
      <4> QED BY <3>1, OpCodes, OpKinds DEF Args
    <3> QED BY <3>2, <3>3 DEF Is, Byte
  <2> QED BY <2>1, <2>2
<1>5. x \in T /\ T \subseteq Nat
  <2>1. x \in after..(n + 2) BY <1>1, <1>2
  <2> QED BY <2>1, <1>1, <1>4
<1>6. g \in T /\ g <= x BY <1>1, <1>5, MinIs
<1>7. g = x
  <2> SUFFICES ASSUME g # x PROVE FALSE OBVIOUS
  <2>1. g \in after..(after + k - 1) BY <1>1, <1>2, <1>6
  <2> QED BY <2>1, <1>1, <1>6
<1>8. ASSUME Is(f, g, "start_memory")
      PROVE  f[g + 1] \in 1..G /\ f[g + 2] \in Nat /\ f[g + 1] + f[g + 2] <= G
  <2>1. Op["start_memory"] # Garbage BY NoGarbageOp
  <2>2. g \in DOMAIN f /\ f[g] = Op.start_memory BY <2>1, <1>8 DEF Is, Byte
  <2>3. g \in Ops(f, S, {})
    <3>1. x # n + 1 BY <2>2, <1>2, <1>7
    <3> QED BY <3>1, <1>3, <1>7
  <2>4. Args(f, g, G) BY <2>3 DEF Code, OpOK
  <2>5. Op["start_memory"] \in GroupOps BY OpClasses
  <2> QED BY <2>2, <2>4, <2>5, GroupArgs
<1> QED BY <1>1, <1>7, <1>8

\* A push leaves the bounds of the active registers alone.
LEMMA PushedRegs ==
  ASSUME NEW s, DOMAIN s = MatchFields, NEW place, NEW string,
         NEW t, t = PushFailurePoint(s, place, string)
  PROVE  t.low = s.low /\ t.high = s.high
<1>1. CASE GrownSize(s) = 0
  <2>1. t = [s EXCEPT !.state = "done", !.ret = "error"] BY <1>1 DEF PushFailurePoint
  <2> QED BY <2>1 DEF MatchFields
<1>2. CASE GrownSize(s) # 0
  <2>1. \E z, a, f : t = [s EXCEPT !.size = z, !.avail = a, !.stack = f]
    BY <1>2 DEF PushFailurePoint
  <2> QED BY <2>1 DEF MatchFields
<1> QED BY <1>1, <1>2

LEMMA OnFailureRoom ==
  ASSUME NEW s, NEW S, NEW L, NEW G \in 0..255, Code(s.buf, S, L, {}, {}, G),
         DOMAIN s = MatchFields, Room(s, G), IsBuffer(s.stack), s.state = "match",
         DOMAIN m.start = 1..G, Len(s.buf) = Len(m.buf), s.p \in Nat, NEW k \in 0..2,
         s.p + 3 + k \in S, \A i \in (s.p + 3)..(s.p + 3 + k - 1) : Is(s.buf, i, "no_op"),
         NEW t, t = OnFailure(s), LowToHigh(t)
  PROVE  Room(t, G)
<1>1. PICK f, after, group : /\ f = s.buf /\ after = s.p + 3
        /\ group = Min({i \in after..(Len(f) + 2) : ~Is(f, i, "no_op")})
  OBVIOUS
<1>2. pend + 1 = Len(f) + 2
  <2>1. Len(f) \in Nat BY <1>1, AddressesOf
  <2>2. PICK n : n = Len(f) OBVIOUS
  <2>3. pend = n + 1 BY <2>2, <1>1 DEF pend
  <2> QED BY <2>1, <2>2, <2>3
<1>3. Is(f, group, "start_memory") => /\ f[group + 1] \in 1..G /\ f[group + 2] \in Nat
                                      /\ f[group + 1] + f[group + 2] <= G
  <2>1. after \in Nat /\ after + k \in S /\ \A i \in after..(after + k - 1) : Is(f, i, "no_op")
    BY <1>1
  <2>2. Code(f, S, L, {}, {}, G) BY <1>1
  <2>3. group = Min({i \in after..(Len(f) + 2) : ~Is(f, i, "no_op")}) BY <1>1
  <2> QED BY <2>1, <2>2, <2>3, GroupIs
<1>4. PICK u : u = IF Is(f, group, "start_memory")
                   THEN [s EXCEPT !.high = f[group + 1] + f[group + 2],
                                  !.low = IF @ = NO_LOWEST_ACTIVE_REG THEN f[group + 1] ELSE @]
                   ELSE s
  OBVIOUS
<1>5. \E place : t = [PushFailurePoint(u, place, s.d) EXCEPT !.p = after]
  BY <1>1, <1>2, <1>4 DEF OnFailure
<1>6. DOMAIN u = MatchFields /\ u.state = "match" /\ u.stack = s.stack /\ Room(u, G)
  <2>1. CASE Is(f, group, "start_memory")
    <3>1. PICK h, l : /\ h = f[group + 1] + f[group + 2]
                      /\ l = IF s.low = NO_LOWEST_ACTIVE_REG THEN f[group + 1] ELSE s.low
      OBVIOUS
    <3>2. u = [s EXCEPT !.high = h, !.low = l] BY <2>1, <3>1, <1>4
    <3>3. /\ DOMAIN u = MatchFields /\ u.state = s.state /\ u.stack = s.stack
          /\ u.size = s.size /\ u.avail = s.avail /\ u.ret = s.ret /\ u.high = h /\ u.low = l
      BY <3>2 DEF MatchFields
    <3>4. Between(u, G)
      <4>1. s.low \in Int /\ 1 <= s.low BY DEF Room, Between
      <4>2. PICK x, y : x = f[group + 1] /\ y = f[group + 2] OBVIOUS
      <4>3. x \in 1..G /\ y \in Nat /\ x + y <= G BY <4>2, <1>3, <2>1
      <4>4. h = x + y /\ l \in Int /\ 1 <= l BY <4>1, <4>2, <4>3, <3>1
      <4>5. h \in Int /\ h <= G BY <4>3, <4>4
      <4> QED BY <4>4, <4>5, <3>3 DEF Between
    <3> QED BY <3>3, <3>4, MovedRoom
  <2>2. CASE ~Is(f, group, "start_memory")
    <3>1. u = s BY <2>2, <1>4
    <3> QED BY <3>1
  <2> QED BY <2>1, <2>2
<1>7. PICK place, v : v = PushFailurePoint(u, place, s.d) /\ t = [v EXCEPT !.p = after] BY <1>5
<1>8. DOMAIN v = MatchFields BY <1>6, <1>7, PushIs
<1>9. SameRoom(v, t) /\ t.low = v.low /\ t.high = v.high BY <1>7, <1>8 DEF SameRoom, MatchFields
<1>10. v.low = u.low /\ v.high = u.high BY <1>6, <1>7, PushedRegs
<1>11. LowToHigh(u) BY <1>9, <1>10 DEF LowToHigh
<1>12. Room(v, G) BY <1>6, <1>7, <1>11, PushRoom
<1> QED BY <1>9, <1>12, SameRoomKept

\* What the lemmas about one op need of the matcher.
LEMMA RunsShape ==
  ASSUME NEW S, NEW L, NEW G, RunsOn(m, S, L, G)
  PROVE  /\ DOMAIN m = MatchFields /\ IsBuffer(m.stack) /\ DOMAIN m.start = 1..G
         /\ Code(m.buf, S, L, {}, {}, G) /\ G \in Nat
BY AddressesOf DEF RunsOn, RunShape

LEMMA OnFailureJumpRoom ==
  ASSUME NEW S, NEW L, NEW G \in 0..255, RunsOn(m, S, L, G), Room(m, G), OnFailureJump,
         LowToHigh(m')
  PROVE  Room(m', G)
<1>1. Executes("on_failure_jump") BY DEF OnFailureJump
<1>2. /\ Op["on_failure_jump"] \in JumpOps
      /\ Op["on_failure_jump"] # Garbage /\ Op["on_failure_jump"] # Op.no_op
  BY JumpNames
<1>3. PICK f, q : f = m.buf /\ q = m.p OBVIOUS
<1>4. /\ f[q] = Op.on_failure_jump /\ q \in Ops(f, S, {}) /\ Code(f, S, L, {}, {}, G)
      /\ q \in Nat /\ m.state = "match"
  BY <1>1, <1>2, <1>3, RunsJump
<1>5. PICK next : next = q + 3 OBVIOUS
<1>6. next \in S
  <2>1. Leads(f, q, next, 1) /\ next \in Int BY <1>4, <1>5, FailureJumpOp
  <2>2. 1 \in {-1, 0, 1} OBVIOUS
  <2>3. OpOK(f, S, L, G, q) BY <1>4 DEF Code
  <2> QED BY <2>1, <2>2, <2>3 DEF OpOK
<1>7. PICK k, t : k = 0 /\ t = m' OBVIOUS
<1>8. k \in 0..2 /\ m.p + 3 + k \in S BY <1>3, <1>4, <1>5, <1>6, <1>7
<1>9. \A i \in (m.p + 3)..(m.p + 3 + k - 1) : Is(m.buf, i, "no_op") BY <1>3, <1>4, <1>7
<1>10. t = OnFailure(m) BY <1>7 DEF OnFailureJump
<1>11. LowToHigh(t) BY <1>7
<1>12. m.p \in Nat /\ Code(m.buf, S, L, {}, {}, G) BY <1>3, <1>4
<1>13. DOMAIN m = MatchFields /\ IsBuffer(m.stack) /\ DOMAIN m.start = 1..G BY RunsShape
<1>14. Room(t, G) BY <1>4, <1>8, <1>9, <1>10, <1>11, <1>12, <1>13, OnFailureRoom
<1> QED BY <1>7, <1>14

LEMMA StoredLength ==
  ASSUME NEW f, IsBuffer(f), NEW p \in Nat, NEW v
  PROVE  Len(StoreNumber(f, p, v)) = Len(f)
<1>1. PICK g, x, y : x = Bytes(v)[1] /\ y = Bytes(v)[2] /\ g = StoreNumber(f, p, v) OBVIOUS
<1>2. g = Write(Write(f, p, x), p + 1, y) BY <1>1 DEF StoreNumber, Write
<1>3. Len(g) = Len(f) BY <1>2, NumberWritten
<1> QED BY <1>1, <1>3

LEMMA SucceedNRoom ==
  ASSUME NEW S, NEW L, NEW G \in 0..255, RunsOn(m, S, L, G), Room(m, G), SucceedN,
         LowToHigh(m')
  PROVE  Room(m', G)
<1>1. PICK v : /\ Executes("succeed_n")
               /\ m' = IF v > 0 THEN [m EXCEPT !.buf = StoreNumber(@, m.p + 3, v - 1),
                                               !.p = @ + 5]
                       ELSE OnFailure([m EXCEPT !.buf = StoreNumber(@, m.p + 3, Op.no_op)])
  BY DEF SucceedN
<1>2. PICK f, q, n : f = m.buf /\ q = m.p /\ n = Len(m.stack) OBVIOUS
<1>3. /\ q \in Ops(f, S, {}) /\ Code(f, S, L, {}, {}, G) /\ q \in Nat
      /\ f[q] \in CountingOps /\ m.state = "match" /\ q + 5 \in S
  <2>1. "succeed_n" \in {"succeed_n", "jump_n"} OBVIOUS
  <2> QED BY <2>1, <1>1, <1>2, CountersRun
<1>4. DOMAIN m = MatchFields /\ IsBuffer(m.stack) /\ DOMAIN m.start = 1..G BY RunsShape
<1>5. PICK t : t = m' OBVIOUS
<1>6. CASE v > 0
  <2>1. \E g, p : t = [m EXCEPT !.buf = g, !.p = p] BY <1>1, <1>5, <1>6
  <2>2. SameRoom(m, t) BY <2>1, <1>4 DEF SameRoom, MatchFields
  <2> QED BY <2>2, <1>5, SameRoomKept
<1>7. CASE ~(v > 0)
  <2>1. PICK g, w : w = Op.no_op /\ g = StoreNumber(f, q + 3, w) OBVIOUS
  <2>2. Code(g, S, L, {}, {}, G) /\ g[q + 3] = Bytes(w)[1] /\ g[q + 4] = Bytes(w)[2]
    BY <2>1, <1>3, CounterStored
  <2>3. Bytes(w)[1] = Op.no_op /\ Bytes(w)[2] = Op.no_op
    <3>1. w = 0 /\ Op.no_op = 0 BY <2>1, OpCodes
    <3>2. 0 % 256 = 0 /\ (0 \div 256) % 256 = 0 OBVIOUS
    <3> QED BY <3>1, <3>2 DEF Bytes
  <2>4. PICK s : s = [m EXCEPT !.buf = g] OBVIOUS
  <2>5. t = OnFailure(s)
    <3>1. s = [m EXCEPT !.buf = StoreNumber(@, m.p + 3, Op.no_op)] BY <2>1, <2>4, <1>2
    <3> QED BY <3>1, <1>1, <1>5, <1>7
  <2>6. /\ Room(s, G) /\ DOMAIN s = MatchFields /\ s.state = "match" /\ IsBuffer(s.stack)
        /\ s.buf = g /\ s.p = q
    BY <2>4, <1>2, <1>3, <1>4, WrittenRoom
  <2>7. /\ IsBuffer(g) /\ IsBuffer(f) /\ Len(g) = Len(m.buf) /\ Len(g) \in Nat
        /\ q + 5 \in 1..(Len(g) + 1)
    <3>1. Len(g) = Len(f)
      <4>1. IsBuffer(f) BY <1>3, AddressesOf
      <4>2. PICK y : y = q + 3 OBVIOUS
      <4>3. y \in Nat /\ g = StoreNumber(f, y, w) BY <4>2, <1>3, <2>1
      <4> QED BY <4>1, <4>3, StoredLength
    <3>2. IsBuffer(g) /\ Len(g) \in Nat BY <2>2, AddressesOf
    <3>3. IsBuffer(f) /\ S \subseteq 1..(Len(f) + 1) BY <1>3, AddressesOf
    <3> QED BY <3>1, <3>2, <3>3, <1>2, <1>3
  <2>8. PICK x, k : x = q + 3 /\ k = 2 OBVIOUS
  <2>9. k \in 0..2 /\ s.p + 3 = x /\ x + k = q + 5 BY <2>6, <2>8, <1>3
  <2>10. ASSUME NEW i \in x..(x + k - 1) PROVE Is(g, i, "no_op")
    <3>1. i = q + 3 \/ i = q + 4 BY <2>8, <1>3
    <3>2. q + 3 \in 1..Len(g) /\ q + 4 \in 1..Len(g) BY <2>7, <1>3
    <3>3. i \in DOMAIN g BY <3>1, <3>2, <2>7, BufferLen
    <3> QED BY <3>1, <3>3, <2>2, <2>3 DEF Is, Byte
  <2>11. s.p + 3 + k \in S /\ \A i \in (s.p + 3)..(s.p + 3 + k - 1) : Is(s.buf, i, "no_op")
    BY <2>6, <2>9, <2>10, <1>3
  <2>12. Code(s.buf, S, L, {}, {}, G) /\ Len(s.buf) = Len(m.buf) /\ s.p \in Nat
    BY <2>2, <2>6, <2>7, <1>3
  <2>13. LowToHigh(t) BY <1>5
  <2>14. Room(t, G) BY <2>5, <2>6, <2>9, <2>11, <2>12, <2>13, <1>4, OnFailureRoom
  <2> QED BY <2>14, <1>5
<1> QED BY <1>6, <1>7

LEMMA DummyRoom ==
  ASSUME NEW S, NEW L, NEW G \in 0..255, RunsOn(m, S, L, G), Room(m, G), LowToHigh(m),
         PushDummyFailure \/ DummyFailureJump
  PROVE  Room(m', G)
<1>1. m.state = "match" BY DEF PushDummyFailure, DummyFailureJump, Executes
<1>2. DOMAIN m = MatchFields /\ IsBuffer(m.stack) /\ DOMAIN m.start = 1..G BY RunsShape
<1>3. PICK v : v = PushDummy(m) OBVIOUS
<1>4. Room(v, G) /\ DOMAIN v = MatchFields BY <1>1, <1>2, <1>3, PushRoom DEF PushDummy
<1>5. m' = Skip(v, 1) \/ m' = Jump(v) BY <1>3 DEF PushDummyFailure, DummyFailureJump
<1> QED BY <1>4, <1>5, SkipRoom, JumpRoom, SameRoomKept

LEMMA LoopEndRoom ==
  ASSUME NEW S, NEW L, NEW G \in Nat, RunsOn(m, S, L, G), Room(m, G),
         MaybePopJump \/ PopFailureJump
  PROVE  Room(m', G)
<1>1. PICK op \in {"maybe_pop_jump", "pop_failure_jump"} : Executes(op)
  BY DEF MaybePopJump, PopFailureJump
<1>2. /\ Op[op] \in LoopOps /\ Op[op] \in JumpOps /\ Op[op] # Garbage /\ Op[op] # Op.no_op
  BY JumpNames
<1>3. PICK f, q, n : f = m.buf /\ q = m.p /\ n = Len(m.stack) OBVIOUS
<1>4. /\ f[q] = Op[op] /\ q \in Ops(f, S, {}) /\ n \in Nat /\ L[q] <= n
      /\ Code(f, S, L, {}, {}, G) /\ Target(f, q) \in Int /\ m.state = "match"
  BY <1>1, <1>2, <1>3, RunsJump
<1>5. m.stack # <<>>
  <2>1. 1 <= n BY <1>2, <1>4, DropsOne
  <2>2. Len(m.stack) # 0 BY <2>1, <1>3
  <2> QED BY <2>2
<1>6. DOMAIN m = MatchFields /\ IsBuffer(m.stack) BY RunsShape
<1>7. \E g, s : /\ s = m \/ s = [m EXCEPT !.buf = g]
                /\ m' = Jump(s) \/ m' = Jump(Discard(s))
  <2>1. CASE PopFailureJump BY <2>1 DEF PopFailureJump
  <2>2. CASE MaybePopJump
    <3>1. PICK x : /\ x \in {"jump", "pop_failure_jump"}
                   /\ m' = Jump(IF x = "jump" THEN [m EXCEPT !.buf[m.p] = Op[x]]
                                ELSE Discard([m EXCEPT !.buf[m.p] = Op[x]]))
      <4>1. PICK x : x = IF NeverBacktracks(m) THEN "pop_failure_jump" ELSE "jump" OBVIOUS
      <4>2. x \in {"jump", "pop_failure_jump"} BY <4>1
      <4> QED BY <2>2, <4>1, <4>2 DEF MaybePopJump
    <3>2. PICK g, s : g = [m.buf EXCEPT ![m.p] = Op[x]] /\ s = [m EXCEPT !.buf[m.p] = Op[x]]
      OBVIOUS
    <3>3. s = [m EXCEPT !.buf = g] BY <3>2
    <3> QED BY <3>1, <3>2, <3>3
  <2> QED BY <2>1, <2>2
<1>8. PICK g, s : /\ s = m \/ s = [m EXCEPT !.buf = g]
                  /\ m' = Jump(s) \/ m' = Jump(Discard(s))
  BY <1>7
<1>9. Room(s, G) /\ DOMAIN s = MatchFields /\ s.state = "match" /\ s.stack = m.stack
  BY <1>4, <1>6, <1>8, WrittenRoom
<1>10. CASE m' = Jump(s) BY <1>9, <1>10, JumpRoom, SameRoomKept
<1>11. CASE m' = Jump(Discard(s))
  <2>1. PICK u : u = Discard(s) OBVIOUS
  <2>2. Room(u, G) /\ DOMAIN u = MatchFields BY <2>1, <1>5, <1>6, <1>9, DiscardRoom
  <2> QED BY <2>1, <2>2, <1>11, JumpRoom, SameRoomKept
<1> QED BY <1>8, <1>10, <1>11

\* The highest active register, when a group is closed, is the last of those
\* below it that are still open.
LEMMA ClosedRoom ==
  ASSUME NEW G \in Nat, Room(m, G), DOMAIN m = MatchFields, m.state = "match", Reg \in 1..G,
         NEW s, s = CloseRegister
  PROVE  Room(s, G)
<1>1. PICK r, B : r = Reg /\ B = {i \in 1..(r - 1) : m.active[i]} OBVIOUS
<1>2. PICK none, lo, hi : /\ none = (m.low = m.high \/ B = {})
                          /\ lo = IF none THEN NO_LOWEST_ACTIVE_REG ELSE m.low
                          /\ hi = IF none THEN NO_HIGHEST_ACTIVE_REG ELSE Max(B)
  OBVIOUS
<1>3. \E oe, en : s = [m EXCEPT !.old_end[r] = oe, !.end[r] = en, !.active[r] = FALSE,
                                !.low = lo, !.high = hi]
  BY <1>1, <1>2 DEF CloseRegister
<1>4. /\ s.size = m.size /\ s.avail = m.avail /\ s.stack = m.stack /\ s.ret = m.ret
      /\ s.low = lo /\ s.high = hi
  BY <1>3 DEF MatchFields
<1>5. lo \in Int /\ hi \in Int /\ 1 <= lo /\ (lo <= hi => hi <= G)
  <2>1. CASE none
    <3>1. lo = 257 /\ hi = 256 BY <2>1, <1>2 DEF NO_LOWEST_ACTIVE_REG, NO_HIGHEST_ACTIVE_REG
    <3> QED BY <3>1
  <2>2. CASE ~none
    <3>1. lo = m.low /\ hi = Max(B) /\ B # {} BY <2>2, <1>2
    <3>2. r \in 1..G BY <1>1
    <3>3. B \subseteq 0..G BY <1>1, <3>2
    <3>4. hi \in 0..G BY <3>1, <3>3, GreatestExists
    <3>5. m.low \in Int /\ 1 <= m.low BY DEF Room, Between
    <3> QED BY <3>1, <3>4, <3>5
  <2> QED BY <2>1, <2>2
<1>6. Between(s, G) BY <1>4, <1>5 DEF Between
<1> QED BY <1>4, <1>6, MovedRoom

LEMMA StopMemoryRoom ==
  ASSUME NEW S, NEW L, NEW G \in 0..255, RunsOn(m, S, L, G), Room(m, G), StopMemory,
         LowToHigh(m')
  PROVE  Room(m', G)
<1>1. DOMAIN m = MatchFields /\ IsBuffer(m.stack) /\ DOMAIN m.start = 1..G BY RunsShape
<1>2. Executes("stop_memory") /\ m.state = "match" BY DEF StopMemory, Executes
<1>3. Reg \in 1..G BY <1>2, RegIs
<1>4. PICK s, u : s = CloseRegister /\ u = RestoreOld(s) OBVIOUS
<1>5. Room(s, G)
  <2>1. G \in Nat OBVIOUS
  <2> QED BY <2>1, <1>1, <1>2, <1>3, <1>4, ClosedRoom
<1>6. SameRun(m, s) /\ s.state = "match" /\ DOMAIN s = MatchFields
  BY <1>1, <1>2, <1>4, ClosedIs DEF SameRun
<1>7. SameRun(m, u) /\ u.state = "match" /\ DOMAIN u = MatchFields
  BY <1>1, <1>4, <1>6, RestoreOldIs DEF SameRun
<1>8. Room(u, G) BY <1>4, <1>5, <1>6, RestoreOldRoom, SameRoomKept
<1>9. PICK place, v : /\ v = PushFailurePoint(u, place, s.d)
                      /\ \/ m' = Skip(s, 3)
                         \/ v.state = "done" /\ m' = v
                         \/ v.state # "done" /\ m' = Fail(v)
  <2>1. PICK target : target = JumpTarget(m.buf, m.p + 3) OBVIOUS
  <2>2. PICK place : place = target + 3 + Number(m.buf, target + 1) OBVIOUS
  <2>3. PICK v : v = PushFailurePoint(u, place, s.d) OBVIOUS
  <2> QED BY <1>4, <2>1, <2>2, <2>3 DEF StopMemory
<1>10. CASE m' = Skip(s, 3) BY <1>5, <1>6, <1>10, SkipRoom, SameRoomKept
<1>11. CASE (v.state = "done" /\ m' = v) \/ (v.state # "done" /\ m' = Fail(v))
  <2>1. DOMAIN v = MatchFields /\ (v.state = "done" \/ v.state = "match")
    BY <1>7, <1>9, PushIs
  <2>2. v.low = u.low /\ v.high = u.high BY <1>7, <1>9, PushedRegs
  <2>3. m'.low = v.low /\ m'.high = v.high
    <3>1. CASE m' = v BY <3>1
    <3>2. CASE m' = Fail(v) BY <3>2, <2>1 DEF Fail, MatchFields
    <3> QED BY <3>1, <3>2, <1>11
  <2>4. LowToHigh(u) BY <2>2, <2>3 DEF LowToHigh
  <2>5. IsBuffer(u.stack) BY <1>1, <1>7 DEF SameRun
  <2>6. Room(v, G) BY <2>4, <2>5, <1>1, <1>7, <1>8, <1>9, PushRoom
  <2>7. CASE m' = v BY <2>6, <2>7
  <2>8. CASE v.state # "done" /\ m' = Fail(v)
    <3>1. v.state \in {"match", "fail"} BY <2>1, <2>8
    <3> QED BY <3>1, <2>1, <2>6, <2>8, FailRoom, SameRoomKept
  <2> QED BY <1>11, <2>7, <2>8
<1> QED BY <1>9, <1>10, <1>11

-----------------------------------------------------------------------------
(***************************************************************************)
(* The room on the failure stack: failure, the end, and the search.        *)
(***************************************************************************)

LEMMA AcceptRoom ==
  ASSUME NEW s, NEW t, NEW G, Room(s, G), DOMAIN s = MatchFields,
         t = Accept(s) \/ t = Accept(RestoreBestRegs(s))
  PROVE  Room(t, G)
<1>1. \E d, st, en : t = [s EXCEPT !.d = d, !.start = st, !.end = en,
                                   !.state = "done", !.ret = "match"]
  <2>1. CASE t = Accept(s)
    <3>1. \E st, re : t = [s EXCEPT !.state = st, !.ret = re] /\ st = "done" /\ re = "match"
      BY <2>1 DEF Accept
    <3>2. t = [s EXCEPT !.d = s.d, !.start = s.start, !.end = s.end,
                        !.state = "done", !.ret = "match"]
      BY <3>1 DEF MatchFields
    <3> QED BY <3>2
  <2>2. CASE t = Accept(RestoreBestRegs(s))
    <3>1. PICK d, st, en : d = s.best.d /\ st = s.best.start /\ en = s.best.end OBVIOUS
    <3>2. PICK r : r = [s EXCEPT !.d = d, !.start = st, !.end = en] OBVIOUS
    <3>3. t = [r EXCEPT !.state = "done", !.ret = "match"]
      BY <2>2, <3>1, <3>2 DEF Accept, RestoreBestRegs
    <3> QED BY <3>2, <3>3
  <2> QED BY <2>1, <2>2
<1>2. /\ t.size = s.size /\ t.avail = s.avail /\ t.stack = s.stack
      /\ t.low = s.low /\ t.high = s.high /\ t.ret = "match"
  BY <1>1 DEF MatchFields
<1> QED BY <1>2, EndRoom

LEMMA TakeFailurePointRoom ==
  ASSUME NEW S, NEW L, NEW G \in Nat, RunsOn(m, S, L, G), Room(m, G), TakeFailurePoint
  PROVE  Room(m', G)
<1>1. DOMAIN m = MatchFields /\ IsBuffer(m.stack) BY RunsShape
<1>2. m.state = "fail" BY DEF TakeFailurePoint
<1>3. CASE m.stack = <<>> /\ m.best # <<>>
  <2>1. m' = Accept(RestoreBestRegs(m)) BY <1>3 DEF TakeFailurePoint
  <2> QED BY <2>1, <1>1, AcceptRoom
<1>4. CASE m.stack = <<>> /\ m.best = <<>>
  <2>1. m' = [m EXCEPT !.state = "done", !.ret = "no match"] BY <1>4 DEF TakeFailurePoint
  <2>2. /\ m'.size = m.size /\ m'.avail = m.avail /\ m'.stack = m.stack
        /\ m'.low = m.low /\ m'.high = m.high /\ m'.ret = "no match"
    BY <2>1, <1>1 DEF MatchFields
  <2> QED BY <2>2, EndRoom
<1>5. CASE m.stack # <<>>
  <2>1. PICK s : s = PopFailurePoint(m) OBVIOUS
  <2>2. Room(s, G) /\ DOMAIN s = MatchFields BY <2>1, <1>1, <1>2, <1>5, PopRoom
  <2>3. s.state = "fail" BY <2>1, <1>1, <1>2, PopIs
  <2>4. m' = [s EXCEPT !.state = IF FailsAgain(s) THEN "fail" ELSE "match"]
    BY <1>5, <2>1 DEF TakeFailurePoint
  <2>5. PICK st : m' = [s EXCEPT !.state = st] BY <2>4
  <2>6. SameRoom(s, m') BY <2>2, <2>3, <2>5 DEF SameRoom, MatchFields
  <2> QED BY <2>2, <2>6, SameRoomKept
<1> QED BY <1>3, <1>4, <1>5

LEMMA EndOfPatternRoom ==
  ASSUME NEW S, NEW L, NEW G, RunsOn(m, S, L, G), Room(m, G), EndOfPattern
  PROVE  Room(m', G)
<1>1. DOMAIN m = MatchFields BY RunsShape
<1>2. m.state = "match" BY DEF EndOfPattern
<1>3. PICK save : save = [d |-> m.d, start |-> m.start, end |-> m.end] OBVIOUS
<1>4. \/ m' = Accept(m) \/ m' = Fail(m)
      \/ m.best # <<>> /\ m' = Accept(RestoreBestRegs(m))
      \/ m' = Fail([m EXCEPT !.best = save])
  BY <1>3 DEF EndOfPattern
<1>5. CASE m' = Accept(m) \/ m' = Accept(RestoreBestRegs(m)) BY <1>1, <1>5, AcceptRoom
<1>6. CASE m' = Fail(m) BY <1>1, <1>2, <1>6, FailRoom, SameRoomKept
<1>7. CASE m' = Fail([m EXCEPT !.best = save])
  <2>1. PICK s : s = [m EXCEPT !.best = save] OBVIOUS
  <2>2. SameRoom(m, s) /\ s.state = "match" BY <2>1, <1>1, <1>2 DEF SameRoom, MatchFields
  <2>3. Room(s, G) /\ DOMAIN s = MatchFields BY <2>2, SameRoomKept DEF SameRoom
  <2>4. m' = Fail(s) BY <2>1, <1>7
  <2> QED BY <2>2, <2>3, <2>4, FailRoom, SameRoomKept
<1> QED BY <1>4, <1>5, <1>6, <1>7

LEMMA SearchRoom ==
  ASSUME NEW S, NEW L, NEW G \in Nat, RunsOn(m, S, L, G), Room(m, G), Advance \/ Found
  PROVE  Room(m', G)
<1>1. DOMAIN m = MatchFields /\ DOMAIN m.start = 1..G BY RunsShape
<1>2. PICK g : g = Cardinality(Groups) OBVIOUS
<1>3. \/ m' = [m EXCEPT !.state = "returned"]
      \/ \E pos : m' = MatchInit(m.buf, g, pos)
  BY <1>2 DEF Advance, Found
<1>4. CASE m' = [m EXCEPT !.state = "returned"]
  <2>1. SameRoom(m, m') BY <1>1, <1>4 DEF SameRoom, MatchFields
  <2> QED BY <2>1, SameRoomKept
<1>5. CASE \E pos : m' = MatchInit(m.buf, g, pos)
  <2>1. Cardinality(1..G) = IF 1 > G THEN 0 ELSE G - 1 + 1 BY FS_Interval
  <2>2. Cardinality(1..G) = G BY <2>1
  <2>3. g = G BY <2>2, <1>1, <1>2 DEF Groups
  <2> QED BY <2>3, <1>5, InitRoom
<1> QED BY <1>3, <1>4, <1>5

LEMMA MatchRoom ==
  ASSUME NEW S, NEW L, NEW G \in 0..255, RunsOn(m, S, L, G), Room(m, G), MatchStep,
         LowToHigh(m), LowToHigh(m')
  PROVE  Room(m', G)
<1>1. G \in Nat /\ DOMAIN m = MatchFields BY RunsShape
<1>2. CASE NoOp \/ ExactN \/ MatchOneChar \/ Place \/ Duplicate BY <1>1, <1>2, StraightRoom
<1>3. CASE StartMemory BY <1>3, StartMemoryRoom
<1>4. CASE StopMemory BY <1>4, StopMemoryRoom
<1>5. CASE OnFailureJump BY <1>5, OnFailureJumpRoom
<1>6. CASE MaybePopJump \/ PopFailureJump BY <1>1, <1>6, LoopEndRoom
<1>7. CASE DummyFailureJump \/ PushDummyFailure BY <1>7, DummyRoom
<1>8. CASE UnconditionalJump \/ JumpN \/ SetNumberAt BY <1>1, <1>8, CountersRoom
<1>9. CASE SucceedN BY <1>9, SucceedNRoom
<1>10. CASE TakeFailurePoint BY <1>1, <1>10, TakeFailurePointRoom
<1>11. CASE EndOfPattern BY <1>11, EndOfPatternRoom
<1>12. CASE Advance \/ Found BY <1>1, <1>12, SearchRoom
<1> QED BY <1>2, <1>3, <1>4, <1>5, <1>6, <1>7, <1>8, <1>9, <1>10, <1>11, <1>12 DEF MatchStep

-----------------------------------------------------------------------------
(***************************************************************************)
(* The room on the failure stack: objects.                                 *)
(***************************************************************************)

\* As many groups as a failure point can save the registers of.
FewGroups == comp.regnum <= 255

RoomHolds == OverflowIsDeep /\ (m.state # "unused" => Room(m, comp.regnum))

LEMMA UnusedRoom ==
  /\ Unused.state = "unused" /\ Unused.ret # "error"
  /\ Unused.avail <= Unused.size
<1>1. PICK s : s = MatchInit(<<>>, 0, 0) OBVIOUS
<1>2. s.ret = "none" /\ s.avail = 0 /\ s.size = 5 /\ DOMAIN s = MatchFields
  BY <1>1 DEF MatchInit, INIT_FAILURE_ALLOC, MatchFields
<1>3. Unused = [s EXCEPT !.state = "unused"] BY <1>1 DEF Unused
<1>4. Unused.state = "unused" /\ Unused.ret = "none" /\ Unused.avail = 0 /\ Unused.size = 5
  BY <1>2, <1>3 DEF MatchFields
<1> QED BY <1>4

LEMMA RoomInit == ObjectsInit => RoomHolds
<1> SUFFICES ASSUME ObjectsInit PROVE RoomHolds OBVIOUS
<1>1. m = Unused BY DEF ObjectsInit, Constructed
<1> QED BY <1>1, UnusedRoom DEF RoomHolds, OverflowIsDeep

LEMMA RoomNext ==
  /\ CompilerHolds /\ RunHolds /\ RoomHolds /\ FewGroups /\ InOrder /\ InOrder'
  /\ [ObjectsNext]_regexpVars
  => RoomHolds'
<1> SUFFICES ASSUME CompilerHolds, RunHolds, RoomHolds, FewGroups, InOrder, InOrder',
                    [ObjectsNext]_regexpVars
             PROVE  RoomHolds'
  OBVIOUS
<1>1. PICK G : G = comp.regnum OBVIOUS
<1>2. G \in 0..255
  <2>1. G \in Nat BY <1>1 DEF CompilerHolds, Sound, Placed, Shape
  <2> QED BY <2>1, <1>1 DEF FewGroups
<1>3. CASE Compile
  <2>1. comp.state # "done"
    BY <1>3 DEF Compile, CompileStep, Literal, Anchor, AnyChar, Repetition, OpenBracket,
                BracketItem, OpenGroup, CloseGroup, Alternative, Interval, Backslash, Finish,
                Fetch
  <2>2. m.state = "unused" /\ m' = m BY <1>3, <2>1 DEF Compile, RunHolds
  <2> QED BY <2>2 DEF RoomHolds, OverflowIsDeep
<1>4. ASSUME NEW pat \in Seq(Symbols), Construct(pat) PROVE RoomHolds'
  <2>1. m' = Unused BY <1>4 DEF Construct
  <2> QED BY <2>1, UnusedRoom DEF RoomHolds, OverflowIsDeep
<1>5. ASSUME NEW s \in Seq(Range(ASCII)), Match(s) PROVE RoomHolds'
  <2>1. comp' = comp BY <1>5 DEF Match
  <2>2. PICK f : f = IF m.state = "unused" THEN Compiled ELSE m.buf OBVIOUS
  <2>3. m' = MatchInit(f, G, 0) BY <1>1, <1>5, <2>2 DEF Match
  <2>4. Room(m', G) BY <1>2, <2>3, InitRoom
  <2>5. m'.ret = "none" BY <2>3 DEF MatchInit
  <2> QED BY <1>1, <2>1, <2>4, <2>5 DEF RoomHolds, OverflowIsDeep, Room
<1>6. CASE Run
  <2>1. MatchStep /\ comp' = comp BY <1>6 DEF Run
  <2>2. m.state \in {"match", "fail", "done"} BY <2>1, MatchFrame
  <2>3. PICK S, L : RunsOn(m, S, L, G) BY <1>1, <2>2 DEF RunHolds
  <2>4. Room(m, G) BY <1>1, <2>2 DEF RoomHolds
  <2>5. LowToHigh(m) /\ LowToHigh(m') BY DEF InOrder
  <2>6. Room(m', G) BY <1>2, <2>1, <2>3, <2>4, <2>5, MatchRoom
  <2>7. OverflowIsDeep'
    <3>1. IsBuffer(m'.stack)
      <4>1. RunsOn(m', S, L, G) BY <2>1, <2>3, MatchRuns
      <4> QED BY <4>1 DEF RunsOn, RunShape
    <3>2. Len(m'.stack) \in Nat BY <3>1, BufferLen
    <3> QED BY <2>6, <3>2, MatchAssumption DEF Room, OverflowIsDeep
  <2> QED BY <1>1, <2>1, <2>6, <2>7 DEF RoomHolds
<1>7. CASE UNCHANGED regexpVars
  <2>1. comp' = comp /\ m' = m BY <1>7 DEF regexpVars
  <2> QED BY <2>1 DEF RoomHolds, OverflowIsDeep
<1> QED BY <1>3, <1>4, <1>5, <1>6, <1>7 DEF ObjectsNext, RegexpStep

\* What the comment on re_max_failures says, of every pattern of fewer than
\* 3584 bytes of code and no more than 255 groups and whatever strings it is
\* matched with, as long as the active registers are counted right: the
\* failure stack gives up only when it holds that many points, and never
\* holds more than it has room for.
THEOREM OverflowsOnlyWhenDeep ==
  Objects /\ [](ShortCode /\ FewGroups /\ InOrder) => []OverflowIsDeep
<1>1. RoomHolds => OverflowIsDeep BY DEF RoomHolds
<1> QED BY <1>1, RunAlways, RoomInit, RoomNext, PTL DEF Objects
=============================================================================
