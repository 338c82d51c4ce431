---------------------------- MODULE RegexpProofs ----------------------------
(***************************************************************************)
(* Theorems about Regexp, for patterns and strings of any length and any   *)
(* number of matches: regex_compile loses none of the addresses it keeps   *)
(* while it inserts code before and behind them, and an object whose       *)
(* pattern was rejected matches nothing anywhere.                          *)
(***************************************************************************)
EXTENDS Regexp, TLAPS, SequenceTheorems, WellFoundedInduction

-----------------------------------------------------------------------------
(***************************************************************************)
(* Buffers.  What a byte is does not matter here, so a buffer is a         *)
(* sequence of whatever is in it.                                          *)
(***************************************************************************)

IsBuffer(f) == f \in Seq(Range(f))

\* The first n bytes of f are those of g.
Agree(f, g, n) == \A i \in 1..n : g[i] = f[i]

LEMMA BufferOf ==
  ASSUME NEW S, NEW f \in Seq(S)
  PROVE  IsBuffer(f)
<1>1. Len(f) \in Nat /\ DOMAIN f = 1..Len(f) /\ f = [i \in 1..Len(f) |-> f[i]] OBVIOUS
<1>2. \A i \in 1..Len(f) : f[i] \in Range(f) BY <1>1 DEF Range
<1>3. f \in [1..Len(f) -> Range(f)] BY <1>1, <1>2
<1> QED BY <1>1, <1>3 DEF IsBuffer

LEMMA BufferLen ==
  ASSUME NEW f, IsBuffer(f)
  PROVE  Len(f) \in Nat /\ DOMAIN f = 1..Len(f)
BY DEF IsBuffer

LEMMA Wider ==
  ASSUME NEW S, NEW T, S \subseteq T, NEW f \in Seq(S)
  PROVE  f \in Seq(T)
<1>1. Len(f) \in Nat /\ f \in [1..Len(f) -> S] OBVIOUS
<1>2. f \in [1..Len(f) -> T] BY <1>1
<1> QED BY <1>1, <1>2

\* What is written behind a buffer leaves it as it is.
LEMMA BufferCat ==
  ASSUME NEW f, NEW g, IsBuffer(f), IsBuffer(g)
  PROVE  /\ IsBuffer(f \o g) /\ Len(f \o g) = Len(f) + Len(g)
         /\ Agree(f, f \o g, Len(f))
         /\ \A i \in 1..Len(g) : (f \o g)[Len(f) + i] = g[i]
<1> DEFINE U == Range(f) \cup Range(g)
<1>1. f \in Seq(U) /\ g \in Seq(U) BY Wider DEF IsBuffer
<1> HIDE DEF U
<1>2. /\ f \o g \in Seq(U) /\ Len(f \o g) = Len(f) + Len(g)
      /\ \A i \in 1..(Len(f) + Len(g)) : (f \o g)[i] = IF i <= Len(f) THEN f[i] ELSE g[i - Len(f)]
  BY <1>1, ConcatProperties
<1>3. IsBuffer(f \o g) BY <1>2, BufferOf
<1>4. Len(f) \in Nat /\ Len(g) \in Nat BY BufferLen
<1>5. Agree(f, f \o g, Len(f)) BY <1>2, <1>4 DEF Agree
<1>6. ASSUME NEW i \in 1..Len(g) PROVE (f \o g)[Len(f) + i] = g[i]
  <2>1. /\ Len(f) + i \in 1..(Len(f) + Len(g)) /\ ~(Len(f) + i <= Len(f))
        /\ Len(f) + i - Len(f) = i
    BY <1>4
  <2> QED BY <1>2, <2>1
<1> QED BY <1>2, <1>3, <1>5, <1>6

LEMMA BufferAppend ==
  ASSUME NEW f, NEW x, IsBuffer(f)
  PROVE  /\ IsBuffer(Append(f, x)) /\ Len(Append(f, x)) = Len(f) + 1
         /\ Agree(f, Append(f, x), Len(f)) /\ Append(f, x)[Len(f) + 1] = x
<1> DEFINE U == Range(f) \cup {x}
<1>1. f \in Seq(U) /\ x \in U BY Wider DEF IsBuffer
<1> HIDE DEF U
<1>2. /\ Append(f, x) \in Seq(U) /\ Len(Append(f, x)) = Len(f) + 1
      /\ \A i \in 1..Len(f) : Append(f, x)[i] = f[i]
      /\ Append(f, x)[Len(f) + 1] = x
  BY <1>1, AppendProperties
<1> QED BY <1>2, BufferOf DEF Agree

LEMMA BufferPart ==
  ASSUME NEW f, IsBuffer(f), NEW k \in Nat, NEW n \in Nat, 1 <= k, k <= n + 1, n <= Len(f)
  PROVE  /\ IsBuffer(SubSeq(f, k, n)) /\ Len(SubSeq(f, k, n)) = n + 1 - k
         /\ \A i \in 1..(n + 1 - k) : SubSeq(f, k, n)[i] = f[k + i - 1]
<1>1. Len(f) \in Nat /\ f \in Seq(Range(f)) BY BufferLen DEF IsBuffer
<1>2. \A i \in k..n : f[i] \in Range(f) BY <1>1
<1>3. /\ SubSeq(f, k, n) \in Seq(Range(f))
      /\ Len(SubSeq(f, k, n)) = IF k <= n THEN n - k + 1 ELSE 0
      /\ \A i \in 1..(n - k + 1) : SubSeq(f, k, n)[i] = f[k + i - 1]
  BY <1>2, SubSeqProperties
<1>4. n - k + 1 = n + 1 - k /\ (~(k <= n) => n + 1 - k = 0) OBVIOUS
<1>5. IsBuffer(SubSeq(f, k, n)) BY <1>3, BufferOf
<1> QED BY <1>3, <1>4, <1>5

LEMMA BufferOf1 ==
  ASSUME NEW x
  PROVE  IsBuffer(<<x>>) /\ Len(<<x>>) = 1 /\ <<x>>[1] = x
<1>1. <<x>> \in Seq({x}) OBVIOUS
<1> QED BY <1>1, BufferOf

LEMMA BufferOf2 ==
  ASSUME NEW x, NEW y
  PROVE  IsBuffer(<<x, y>>) /\ Len(<<x, y>>) = 2 /\ <<x, y>>[1] = x /\ <<x, y>>[2] = y
<1>1. <<x, y>> \in Seq({x, y}) OBVIOUS
<1> QED BY <1>1, BufferOf

LEMMA BufferOf3 ==
  ASSUME NEW x, NEW y, NEW z
  PROVE  /\ IsBuffer(<<x, y, z>>) /\ Len(<<x, y, z>>) = 3
         /\ <<x, y, z>>[1] = x /\ <<x, y, z>>[2] = y /\ <<x, y, z>>[3] = z
<1>1. <<x, y, z>> \in Seq({x, y, z}) OBVIOUS
<1> QED BY <1>1, BufferOf

\* Bytes that are inserted leave those before them where they are.
LEMMA InsertKeeps ==
  ASSUME NEW buf, NEW bytes, IsBuffer(buf), IsBuffer(bytes),
         NEW loc \in Nat, 1 <= loc, loc <= Len(buf) + 1
  PROVE  /\ IsBuffer(Insert(buf, loc, bytes))
         /\ Len(Insert(buf, loc, bytes)) = Len(buf) + Len(bytes)
         /\ Agree(buf, Insert(buf, loc, bytes), loc - 1)
<1> DEFINE head == SubSeq(buf, 1, loc - 1)
           tail == SubSeq(buf, loc, Len(buf))
<1>1. Len(buf) \in Nat /\ Len(bytes) \in Nat /\ loc - 1 \in Nat BY BufferLen
<1>2. /\ IsBuffer(head) /\ Len(head) = loc - 1
      /\ \A i \in 1..(loc - 1) : head[i] = buf[i]
  <2>1. /\ IsBuffer(head) /\ Len(head) = (loc - 1) + 1 - 1
        /\ \A i \in 1..((loc - 1) + 1 - 1) : head[i] = buf[1 + i - 1]
    BY <1>1, BufferPart
  <2>2. (loc - 1) + 1 - 1 = loc - 1 /\ \A i \in 1..(loc - 1) : 1 + i - 1 = i BY <1>1
  <2> QED BY <2>1, <2>2
<1>3. IsBuffer(tail) /\ Len(tail) = Len(buf) + 1 - loc
  BY <1>1, BufferPart
<1> HIDE DEF head, tail
<1>4. /\ IsBuffer(head \o bytes) /\ Len(head \o bytes) = loc - 1 + Len(bytes)
      /\ Agree(head, head \o bytes, loc - 1)
  BY <1>2, BufferCat
<1>5. /\ IsBuffer((head \o bytes) \o tail)
      /\ Len((head \o bytes) \o tail) = (loc - 1 + Len(bytes)) + (Len(buf) + 1 - loc)
      /\ Agree(head \o bytes, (head \o bytes) \o tail, loc - 1 + Len(bytes))
  BY <1>3, <1>4, BufferCat
<1>6. (loc - 1 + Len(bytes)) + (Len(buf) + 1 - loc) = Len(buf) + Len(bytes) BY <1>1
<1>7. Agree(buf, (head \o bytes) \o tail, loc - 1)
  BY <1>1, <1>2, <1>4, <1>5 DEF Agree
<1>8. Insert(buf, loc, bytes) = (head \o bytes) \o tail BY DEF Insert, head, tail
<1> QED BY <1>5, <1>6, <1>7, <1>8

\* A byte that is overwritten leaves the others as they are.
Write(buf, loc, v) == [buf EXCEPT ![loc] = v]

LEMMA WriteKeeps ==
  ASSUME NEW buf, IsBuffer(buf), NEW loc, NEW v
  PROVE  /\ IsBuffer(Write(buf, loc, v)) /\ Len(Write(buf, loc, v)) = Len(buf)
         /\ \A i \in 1..Len(buf) : Write(buf, loc, v)[i] = IF i = loc THEN v ELSE buf[i]
<1> DEFINE new == Write(buf, loc, v)
           U == Range(buf) \cup {v}
<1>1. Len(buf) \in Nat /\ DOMAIN buf = 1..Len(buf) BY BufferLen
<1>2. \A i \in 1..Len(buf) : new[i] = IF i = loc THEN v ELSE buf[i] BY <1>1 DEF Write
<1>3. \A i \in 1..Len(buf) : buf[i] \in Range(buf) BY <1>1 DEF Range
<1>4. new \in [1..Len(buf) -> U] BY <1>1, <1>2, <1>3 DEF Write
<1> HIDE DEF new, U
<1>5. new \in Seq(U) /\ Len(new) = Len(buf) BY <1>1, <1>4
<1>6. IsBuffer(new) BY <1>5, BufferOf
<1> QED BY <1>2, <1>5, <1>6 DEF new

LEMMA StoreKeeps ==
  ASSUME NEW buf, IsBuffer(buf), NEW op, NEW to, NEW loc \in 1..Len(buf)
  PROVE  /\ IsBuffer(StoreJump(buf, op, loc, to))
         /\ Len(StoreJump(buf, op, loc, to)) = Len(buf)
         /\ \A i \in 1..Len(buf) :
               i < loc \/ loc + 2 < i => StoreJump(buf, op, loc, to)[i] = buf[i]
         /\ StoreJump(buf, op, loc, to)[loc] = Op[op]
<1> DEFINE x == Bytes(to - loc - 3)[1]
           y == Bytes(to - loc - 3)[2]
           l2 == loc + 1
           l3 == loc + 1 + 1
           one == Write(buf, loc, Op[op])
           two == Write(one, l2, x)
           three == Write(two, l3, y)
<1>1. StoreJump(buf, op, loc, to) = three
  BY DEF StoreJump, StoreOp1, StoreNumber, Write
<1>2. Len(buf) \in Nat /\ l2 = loc + 1 /\ l3 = loc + 2 BY BufferLen
<1> HIDE DEF x, y, l2, l3
<1>3. /\ IsBuffer(one) /\ Len(one) = Len(buf)
      /\ \A i \in 1..Len(buf) : one[i] = IF i = loc THEN Op[op] ELSE buf[i]
  BY WriteKeeps
<1> HIDE DEF one
<1>4. /\ IsBuffer(two) /\ Len(two) = Len(one)
      /\ \A i \in 1..Len(one) : two[i] = IF i = l2 THEN x ELSE one[i]
  BY <1>3, WriteKeeps
<1> HIDE DEF two
<1>5. /\ IsBuffer(three) /\ Len(three) = Len(two)
      /\ \A i \in 1..Len(two) : three[i] = IF i = l3 THEN y ELSE two[i]
  BY <1>4, WriteKeeps
<1> HIDE DEF three
<1>6. ASSUME NEW i \in 1..Len(buf), i < loc \/ loc + 2 < i PROVE three[i] = buf[i]
  <2>1. i # loc /\ i # l2 /\ i # l3 BY <1>2, <1>6
  <2> QED BY <2>1, <1>3, <1>4, <1>5
<1>7. three[loc] = Op[op]
  <2>1. loc # l2 /\ loc # l3 BY <1>2
  <2> QED BY <2>1, <1>3, <1>4, <1>5
<1>8. Len(three) = Len(buf) BY <1>3, <1>4, <1>5
<1> QED BY <1>1, <1>5, <1>6, <1>7, <1>8

\* The code of a jump, and of an op with two numbers.
LEMMA OpIsBuffer ==
  ASSUME NEW op, NEW m1, NEW m2
  PROVE  /\ IsBuffer(<<Op[op]>> \o Bytes(m1)) /\ Len(<<Op[op]>> \o Bytes(m1)) = 3
         /\ IsBuffer(<<Op[op]>> \o Bytes(m1) \o Bytes(m2))
         /\ Len(<<Op[op]>> \o Bytes(m1) \o Bytes(m2)) = 5
<1>1. IsBuffer(<<Op[op]>>) /\ Len(<<Op[op]>>) = 1 BY BufferOf1
<1>2. /\ IsBuffer(Bytes(m1)) /\ Len(Bytes(m1)) = 2
      /\ IsBuffer(Bytes(m2)) /\ Len(Bytes(m2)) = 2
  BY BufferOf2 DEF Bytes
<1>3. IsBuffer(<<Op[op]>> \o Bytes(m1)) /\ Len(<<Op[op]>> \o Bytes(m1)) = 1 + 2
  <2> DEFINE code == <<Op[op]>>
  <2>1. IsBuffer(code) /\ Len(code) = 1 BY <1>1
  <2> HIDE DEF code
  <2>2. IsBuffer(code \o Bytes(m1)) /\ Len(code \o Bytes(m1)) = Len(code) + Len(Bytes(m1))
    <3>1. IsBuffer(code) /\ IsBuffer(Bytes(m1)) BY <2>1, <1>2
    <3> QED BY <3>1, BufferCat
  <2> QED BY <2>1, <2>2, <1>2 DEF code
<1>4. /\ IsBuffer((<<Op[op]>> \o Bytes(m1)) \o Bytes(m2))
      /\ Len((<<Op[op]>> \o Bytes(m1)) \o Bytes(m2)) = (1 + 2) + 2
  <2> DEFINE jump == <<Op[op]>> \o Bytes(m1)
  <2>1. IsBuffer(jump) /\ Len(jump) = 1 + 2 BY <1>3
  <2> HIDE DEF jump
  <2>2. IsBuffer(jump \o Bytes(m2)) /\ Len(jump \o Bytes(m2)) = Len(jump) + Len(Bytes(m2))
    <3>1. IsBuffer(jump) /\ IsBuffer(Bytes(m2)) BY <2>1, <1>2
    <3> QED BY <3>1, BufferCat
  <2> QED BY <2>1, <2>2, <1>2 DEF jump
<1> QED BY <1>3, <1>4

LEMMA InsertOpKeeps ==
  ASSUME NEW buf, IsBuffer(buf), NEW op, NEW to, NEW n,
         NEW loc \in Nat, 1 <= loc, loc <= Len(buf) + 1
  PROVE  /\ IsBuffer(InsertJump(buf, op, loc, to))
         /\ Len(InsertJump(buf, op, loc, to)) = Len(buf) + 3
         /\ Agree(buf, InsertJump(buf, op, loc, to), loc - 1)
         /\ IsBuffer(InsertOp2(buf, loc, op, to, n))
         /\ Len(InsertOp2(buf, loc, op, to, n)) = Len(buf) + 5
         /\ Agree(buf, InsertOp2(buf, loc, op, to, n), loc - 1)
<1>1. /\ IsBuffer(InsertJump(buf, op, loc, to))
      /\ Len(InsertJump(buf, op, loc, to)) = Len(buf) + 3
      /\ Agree(buf, InsertJump(buf, op, loc, to), loc - 1)
  <2> DEFINE code == <<Op[op]>> \o Bytes(to - loc - 3)
  <2>1. IsBuffer(code) /\ Len(code) = 3 BY OpIsBuffer
  <2>2. InsertJump(buf, op, loc, to) = Insert(buf, loc, code) BY DEF InsertJump, InsertOp1
  <2> HIDE DEF code
  <2> QED BY <2>1, <2>2, InsertKeeps
<1>2. /\ IsBuffer(InsertOp2(buf, loc, op, to, n))
      /\ Len(InsertOp2(buf, loc, op, to, n)) = Len(buf) + 5
      /\ Agree(buf, InsertOp2(buf, loc, op, to, n), loc - 1)
  <2> DEFINE code == <<Op[op]>> \o Bytes(to) \o Bytes(n)
  <2>1. IsBuffer(code) /\ Len(code) = 5 BY OpIsBuffer
  <2>2. InsertOp2(buf, loc, op, to, n) = Insert(buf, loc, code) BY DEF InsertOp2
  <2> HIDE DEF code
  <2> QED BY <2>1, <2>2, InsertKeeps
<1> QED BY <1>1, <1>2

-----------------------------------------------------------------------------
(***************************************************************************)
(* The invariant of regex_compile.                                         *)
(***************************************************************************)

CompFields == {"state", "p", "buf", "pending", "laststart", "begalt", "fixup", "stack",
               "regnum", "bracket", "ret"}
Group == [begalt : Nat, fixup : Nat, laststart : Nat, regnum : Nat]

Shape(s) ==
    /\ DOMAIN s = CompFields
    /\ IsBuffer(s.buf)
    /\ s.stack \in Seq(Group)
    /\ s.begalt \in Nat /\ s.fixup \in Nat /\ s.laststart \in Nat
    /\ s.pending \in Nat /\ s.regnum \in Nat

\* A group is inside of those that were opened before.
Nested(stack) ==
    \A k \in 1..Len(stack) : \A j \in 1..(k - 1) : stack[j].laststart + 3 <= stack[k].begalt

\* The parts of AddressesHold and RepeatsOneCharacter, of a state s.
GroupsHold(buf, stack) ==
    \A k \in 1..Len(stack) :
        AlternativesAt(buf, Inside(stack, k - 1), stack[k]) /\ GroupAt(buf, stack[k])
Here(s) == Inside(s.stack, Len(s.stack))
LevelHolds(s) == AlternativesAt(s.buf, Here(s), s) /\ s.begalt <= b(s)
LastHolds(s) ==
    s.laststart # 0 =>
        /\ s.begalt <= s.laststart
        /\ s.laststart <= IF s.state = "loop" THEN Len(s.buf) ELSE b(s)
CountHolds(s) ==
    s.pending # 0 =>
        /\ s.begalt < s.pending
        /\ s.buf[s.pending - 1] = Op.exactn
        /\ s.buf[s.pending] \in 1..255
        /\ s.pending + s.buf[s.pending] < b(s)
Aims(s) == s.state = "loop" /\ AtEnd(s) => s.laststart = s.pending - 1
Alone(s) ==
    s.state = "loop" /\ AtEnd(s) /\ At(s.p) \in {"*", "+", "?", "{"} => s.buf[s.pending] = 1

Placed(s) ==
    /\ Shape(s) /\ Nested(s.stack) /\ GroupsHold(s.buf, s.stack)
    /\ LevelHolds(s) /\ LastHolds(s) /\ CountHolds(s) /\ Aims(s)
Sound(s) == Placed(s) /\ Alone(s)

\* The same of a state that is not inside a bracket expression.
Outside(s) == Sound(s) /\ s.state # "bracket"

LEMMA SoundSaysIt == Sound(comp) => AddressesHold /\ RepeatsOneCharacter
<1> SUFFICES ASSUME Sound(comp) PROVE AddressesHold /\ RepeatsOneCharacter OBVIOUS
<1>1. DOMAIN comp.stack = 1..Len(comp.stack) BY DEF Sound, Placed, Shape
<1>2. AddressesHold
  BY <1>1, Zenon DEF AddressesHold, Sound, Placed, GroupsHold, LevelHolds, LastHolds, CountHolds,
                     Here
<1>3. RepeatsOneCharacter BY Zenon DEF RepeatsOneCharacter, Sound, Placed, Aims, Alone
<1> QED BY <1>2, <1>3

LEMMA InsideIsAddress ==
  ASSUME NEW stack \in Seq(Group), NEW k \in 0..Len(stack)
  PROVE  Inside(stack, k) \in Nat /\ 1 <= Inside(stack, k)
<1>1. CASE k = 0 BY <1>1 DEF Inside
<1>2. CASE k # 0
  <2>1. k \in 1..Len(stack) BY <1>2
  <2>2. stack[k] \in Group BY <2>1
  <2>3. stack[k].laststart \in Nat BY <2>2 DEF Group
  <2> QED BY <1>2, <2>3 DEF Inside
<1> QED BY <1>1, <1>2

\* What is written inside the group that was opened last does not touch
\* what is remembered of the open groups.
LEMMA GroupsKept ==
  ASSUME NEW s, NEW new, Shape(s), Nested(s.stack), GroupsHold(s.buf, s.stack),
         IsBuffer(new), Len(s.buf) <= Len(new), Agree(s.buf, new, Here(s) - 1)
  PROVE  GroupsHold(new, s.stack)
<1> DEFINE n == Len(s.stack)
<1>1. n \in Nat /\ s.stack \in Seq(Group) /\ Len(s.buf) \in Nat /\ Len(new) \in Nat
  BY BufferLen DEF Shape
<1> SUFFICES ASSUME NEW k \in 1..n
             PROVE  AlternativesAt(new, Inside(s.stack, k - 1), s.stack[k]) /\ GroupAt(new, s.stack[k])
  BY DEF GroupsHold
<1> DEFINE g == s.stack[k]  h == s.stack[n]  first == Inside(s.stack, k - 1)
<1>2. n \in 1..n /\ k - 1 \in 0..n /\ n # 0 BY <1>1
<1>3. /\ AlternativesAt(s.buf, first, g) /\ GroupAt(s.buf, g)
      /\ GroupAt(s.buf, h)
  BY <1>2 DEF GroupsHold
<1>4. first \in Nat /\ 1 <= first BY <1>1, <1>2, InsideIsAddress
<1>5. g \in Group /\ h \in Group BY <1>1, <1>2
<1>6. Here(s) = h.laststart + 3 BY <1>2 DEF Here, Inside
<1>7. k = n \/ g.laststart + 3 <= h.begalt
  <2>1. k = n \/ k \in 1..(n - 1) BY <1>1
  <2> QED BY <2>1, <1>2 DEF Nested
<1> HIDE DEF n, g, h, first
<1>8. g.laststart + 2 <= Here(s) - 1 /\ Here(s) - 1 \in Nat
  <2>1. g.laststart \in Nat /\ h.laststart \in Nat /\ h.begalt \in Nat BY <1>5 DEF Group
  <2>2. h.begalt <= h.laststart BY <1>3 DEF GroupAt
  <2>3. k = n => g = h BY DEF g, h
  <2> QED BY <2>1, <2>2, <2>3, <1>6, <1>7
<1>9. /\ g.begalt \in Nat /\ g.fixup \in Nat /\ g.laststart \in Nat BY <1>5 DEF Group
<1>10. GroupAt(new, g)
  <2>1. /\ g.begalt <= g.laststart /\ g.laststart + 2 <= Len(s.buf) /\ first <= g.begalt
        /\ s.buf[g.laststart] = Op.start_memory /\ s.buf[g.laststart + 1] = g.regnum
    BY <1>3 DEF GroupAt, AlternativesAt
  <2>2. g.laststart \in 1..(Here(s) - 1) /\ g.laststart + 1 \in 1..(Here(s) - 1)
    BY <2>1, <1>4, <1>8, <1>9
  <2>3. new[g.laststart] = s.buf[g.laststart] /\ new[g.laststart + 1] = s.buf[g.laststart + 1]
    BY <2>2 DEF Agree
  <2>4. g.laststart + 2 <= Len(new) BY <2>1, <1>1, <1>9
  <2> QED BY <2>1, <2>3, <2>4 DEF GroupAt
<1>11. AlternativesAt(new, first, g)
  <2>1. first <= g.begalt /\ g.begalt <= g.laststart BY <1>3 DEF AlternativesAt, GroupAt
  <2>2. CASE g.fixup = 0 BY <2>1, <2>2 DEF AlternativesAt
  <2>3. CASE g.fixup # 0
    <3>1. /\ first <= g.fixup /\ g.begalt = g.fixup + 3
          /\ s.buf[g.fixup] \in {0, Op.jump_past_alt}
      BY <1>3, <2>3 DEF AlternativesAt
    <3>2. g.fixup \in 1..(Here(s) - 1) BY <3>1, <2>1, <1>4, <1>8, <1>9
    <3>3. new[g.fixup] = s.buf[g.fixup] BY <3>2 DEF Agree
    <3> QED BY <2>1, <3>1, <3>3 DEF AlternativesAt
  <2> QED BY <2>2, <2>3
<1> QED BY <1>10, <1>11 DEF g, first

\* A state that differs from a placed one in nothing that is remembered.
LEMMA Unmoved ==
  ASSUME NEW s, NEW t, Placed(s), DOMAIN t = CompFields,
         t.buf = s.buf, t.stack = s.stack, t.begalt = s.begalt, t.fixup = s.fixup,
         t.laststart = s.laststart, t.pending = s.pending, t.regnum = s.regnum,
         t.state = s.state \/ t.state # "loop"
  PROVE  Placed(t)
<1>1. Shape(t) BY DEF Placed, Shape
<1>2. LevelHolds(t) BY DEF Placed, LevelHolds, Here, AlternativesAt, b
<1>3. CountHolds(t) BY DEF Placed, CountHolds, b
<1>4. Aims(t) BY DEF Placed, Aims, AtEnd, b
<1>5. Len(s.buf) \in Nat /\ s.laststart \in Nat BY BufferLen DEF Placed, Shape
<1>6. LastHolds(t) BY <1>5 DEF Placed, LastHolds, b
<1> QED BY <1>1, <1>2, <1>3, <1>4, <1>6 DEF Placed

\* What is remembered of the alternatives survives everything that is
\* written behind the beginning of the last one.
LEMMA LevelKept ==
  ASSUME NEW s, NEW t, Shape(s), Shape(t), LevelHolds(s),
         t.stack = s.stack, t.begalt = s.begalt, t.fixup = s.fixup,
         Len(s.buf) <= Len(t.buf), Agree(s.buf, t.buf, s.begalt - 1)
  PROVE  LevelHolds(t) /\ Agree(s.buf, t.buf, Here(s) - 1)
<1>1. /\ Len(s.buf) \in Nat /\ Len(t.buf) \in Nat /\ s.begalt \in Nat /\ s.fixup \in Nat
      /\ Len(s.stack) \in Nat
  BY BufferLen DEF Shape
<1>2. Here(s) \in Nat /\ 1 <= Here(s) /\ Here(t) = Here(s)
  BY <1>1, InsideIsAddress DEF Here, Shape
<1>3. Here(s) <= s.begalt /\ s.begalt <= Len(s.buf) + 1
  BY DEF LevelHolds, AlternativesAt, b
<1>4. Agree(s.buf, t.buf, Here(s) - 1)
  <2>1. \A i \in 1..(Here(s) - 1) : i \in 1..(s.begalt - 1) BY <1>1, <1>2, <1>3
  <2> QED BY <2>1 DEF Agree
<1>5. s.fixup # 0 => t.buf[s.fixup] = s.buf[s.fixup]
  <2> SUFFICES ASSUME s.fixup # 0 PROVE t.buf[s.fixup] = s.buf[s.fixup] OBVIOUS
  <2>1. Here(s) <= s.fixup /\ s.begalt = s.fixup + 3 BY DEF LevelHolds, AlternativesAt
  <2>2. s.fixup \in 1..(s.begalt - 1) BY <2>1, <1>1, <1>2
  <2> QED BY <2>2 DEF Agree
<1>6. t.begalt <= b(t) BY <1>1, <1>3 DEF b
<1>7. AlternativesAt(t.buf, Here(t), t) BY <1>2, <1>5 DEF LevelHolds, AlternativesAt
<1> QED BY <1>4, <1>6, <1>7 DEF LevelHolds

LEMMA Grown ==
  ASSUME NEW s, NEW t, Placed(s), Shape(t),
         t.stack = s.stack, t.begalt = s.begalt, t.fixup = s.fixup,
         Len(s.buf) <= Len(t.buf), Agree(s.buf, t.buf, s.begalt - 1),
         LastHolds(t), CountHolds(t), Aims(t)
  PROVE  Placed(t)
<1>1. LevelHolds(t) /\ Agree(s.buf, t.buf, Here(s) - 1) BY LevelKept DEF Placed
<1>2. GroupsHold(t.buf, t.stack)
  <2>1. GroupsHold(t.buf, s.stack) BY <1>1, GroupsKept DEF Placed, Shape
  <2> QED BY <2>1
<1> QED BY <1>1, <1>2 DEF Placed

\* Where a count stands that has as many characters behind it.
LEMMA CountIsInside ==
  ASSUME NEW first \in Nat, NEW place \in Nat, NEW count \in 1..255, NEW n \in Nat,
         1 <= first, first < place, place + count < n + 1
  PROVE  /\ place \in 1..n /\ place - 1 \in 1..n /\ place - 1 # place
         /\ first <= place - 1 /\ place + 1 <= n
OBVIOUS

\* Code is written behind what there is, and is perhaps what a repetition
\* would repeat.
LEMMA Pushed ==
  ASSUME NEW s, NEW t, Placed(s), Shape(t),
         t.stack = s.stack, t.begalt = s.begalt, t.fixup = s.fixup, t.pending = s.pending,
         Len(s.buf) < Len(t.buf), Agree(s.buf, t.buf, Len(s.buf)),
         t.laststart \in {s.laststart, b(s)}
  PROVE  Placed(t) /\ ~AtEnd(t)
<1>1. /\ Len(s.buf) \in Nat /\ Len(t.buf) \in Nat /\ s.begalt \in Nat /\ s.pending \in Nat
      /\ s.laststart \in Nat
  BY BufferLen DEF Placed, Shape
<1>2. s.begalt <= Len(s.buf) + 1 BY DEF Placed, LevelHolds, b
<1>3. Agree(s.buf, t.buf, s.begalt - 1)
  <2>1. \A i \in 1..(s.begalt - 1) : i \in 1..Len(s.buf) BY <1>1, <1>2
  <2> QED BY <2>1 DEF Agree
<1>4. LastHolds(t)
  <2>1. s.laststart # 0 => s.begalt <= s.laststart /\ s.laststart <= Len(s.buf) + 1
    BY <1>1 DEF Placed, LastHolds, b
  <2> QED BY <2>1, <1>1, <1>2 DEF LastHolds, b
<1>5. ASSUME t.pending # 0
      PROVE  /\ t.begalt < t.pending /\ t.buf[t.pending - 1] = Op.exactn
             /\ t.buf[t.pending] \in 1..255
             /\ t.pending + t.buf[t.pending] < b(s)
  <2> DEFINE place == s.pending
             count == s.buf[place]
  <2>1. /\ s.begalt < place /\ s.buf[place - 1] = Op.exactn
        /\ count \in 1..255 /\ place + count < b(s)
    BY <1>5 DEF Placed, CountHolds
  <2>2. 1 <= s.begalt
    <3>1. 1 <= Here(s) /\ Here(s) \in Nat BY InsideIsAddress DEF Here, Placed, Shape
    <3>2. Here(s) <= s.begalt BY DEF Placed, LevelHolds, AlternativesAt
    <3> QED BY <3>1, <3>2, <1>1
  <2>3. place \in Nat /\ b(s) = Len(s.buf) + 1 BY <1>1 DEF b
  <2> HIDE DEF place, count
  <2>4. place \in 1..Len(s.buf) /\ place - 1 \in 1..Len(s.buf)
    <3>1. count \in 1..255 /\ s.begalt < place /\ place + count < Len(s.buf) + 1
      BY <2>1, <2>3
    <3> QED BY <3>1, <2>2, <2>3, <1>1, CountIsInside
  <2>5. t.buf[place] = count /\ t.buf[place - 1] = Op.exactn
    BY <2>1, <2>4 DEF Agree, count
  <2> QED BY <2>1, <2>5 DEF place
<1>6. b(s) < b(t) /\ b(s) \in Nat /\ b(t) \in Nat BY <1>1 DEF b
<1>7. CountHolds(t) /\ ~AtEnd(t)
  <2> SUFFICES ASSUME t.pending # 0 PROVE CountHolds(t) /\ ~AtEnd(t)
    BY DEF CountHolds, AtEnd
  <2> DEFINE count == t.buf[t.pending]
  <2>1. /\ t.begalt < t.pending /\ t.buf[t.pending - 1] = Op.exactn
        /\ count \in 1..255 /\ t.pending + count < b(s)
    BY <1>5
  <2>2. t.pending \in Nat BY <1>1
  <2> HIDE DEF count
  <2>3. t.pending + count < b(t) /\ t.pending + count + 1 # b(t) BY <2>1, <2>2, <1>6
  <2> QED BY <2>1, <2>3 DEF CountHolds, AtEnd, count
<1>8. Aims(t) BY <1>7 DEF Aims
<1> QED BY <1>1, <1>3, <1>4, <1>7, <1>8, Grown

-----------------------------------------------------------------------------
(***************************************************************************)
(* What the cases of the switch make of the state.                         *)
(***************************************************************************)

\* A new exactn is written.
Started(buf) == buf \o <<Op.exactn, 0>>

\* A character joins the exactn that ends here, unless it is to be repeated.
LEMMA CharacterJoins ==
  ASSUME NEW s, NEW t, NEW c, Placed(s), s.state = "loop", DOMAIN t = CompFields,
         s.pending # 0, s.pending + s.buf[s.pending] + 1 = b(s), s.buf[s.pending] # 255,
         t.stack = s.stack, t.begalt = s.begalt, t.fixup = s.fixup, t.pending = s.pending,
         t.laststart = s.laststart, t.regnum = s.regnum, t.state = s.state,
         t.buf = Join(s.buf, s.pending, c)
  PROVE  Placed(t)
<1> DEFINE place == s.pending
           count == s.buf[place]
           one == Write(s.buf, place, count + 1)
<1>1. Len(s.buf) \in Nat /\ place \in Nat /\ s.begalt \in Nat /\ IsBuffer(s.buf)
  BY BufferLen DEF Placed, Shape
<1>2. /\ s.begalt < place /\ s.buf[place - 1] = Op.exactn
      /\ count \in 1..255 /\ count # 255 /\ place + count + 1 = Len(s.buf) + 1
  BY DEF Placed, CountHolds, b
<1>3. t.buf = Append(one, Ord[c]) BY DEF Join, Write
<1> HIDE DEF place, count
<1>4. /\ IsBuffer(one) /\ Len(one) = Len(s.buf)
      /\ \A i \in 1..Len(s.buf) : one[i] = IF i = place THEN count + 1 ELSE s.buf[i]
  BY <1>1, WriteKeeps
<1> HIDE DEF one
<1>5. /\ IsBuffer(t.buf) /\ Len(t.buf) = Len(s.buf) + 1
      /\ \A i \in 1..Len(s.buf) : t.buf[i] = one[i]
  <2>1. IsBuffer(t.buf) /\ Len(t.buf) = Len(one) + 1 /\ Agree(one, t.buf, Len(one))
    <3>1. IsBuffer(one) BY <1>4
    <3>2. /\ IsBuffer(Append(one, Ord[c])) /\ Len(Append(one, Ord[c])) = Len(one) + 1
          /\ Agree(one, Append(one, Ord[c]), Len(one))
      BY <3>1, BufferAppend
    <3> QED BY <3>2, <1>3
  <2> QED BY <2>1, <1>4 DEF Agree
<1>6. 1 <= s.begalt
  <2>1. 1 <= Here(s) /\ Here(s) \in Nat BY InsideIsAddress DEF Here, Placed, Shape
  <2>2. Here(s) <= s.begalt BY DEF Placed, LevelHolds, AlternativesAt
  <2> QED BY <2>1, <2>2, <1>1
<1>7. place \in 1..Len(s.buf) /\ place - 1 \in 1..Len(s.buf) /\ place - 1 # place
  <2>1. s.begalt < place /\ 1 <= count /\ count \in Nat /\ place + count + 1 = Len(s.buf) + 1
    BY <1>2
  <2> QED BY <2>1, <1>1, <1>6
<1>8. t.buf[place] = count + 1 /\ t.buf[place - 1] = Op.exactn
  BY <1>2, <1>4, <1>5, <1>7
<1>9. Agree(s.buf, t.buf, s.begalt - 1)
  <2>1. s.begalt < place BY <1>2
  <2>2. \A i \in 1..(s.begalt - 1) : i \in 1..Len(s.buf) /\ i # place BY <2>1, <1>1, <1>7
  <2> QED BY <2>2, <1>4, <1>5 DEF Agree
<1>10. t.pending = place /\ s.pending = place /\ s.buf[place] = count BY DEF place, count
<1>11. Shape(t) BY <1>5 DEF Placed, Shape
<1>12. CountHolds(t)
  <2>1. count + 1 \in 1..255 /\ place + (count + 1) < Len(t.buf) + 1
    <3> DEFINE n == Len(s.buf)  k == Len(t.buf)
    <3>1. count \in 1..255 /\ count # 255 /\ place + count + 1 = n + 1 BY <1>2
    <3>2. k = n + 1 /\ n \in Nat /\ place \in Nat BY <1>1, <1>5
    <3> HIDE DEF n, k
    <3>3. count + 1 \in 1..255 BY <3>1
    <3>4. place + (count + 1) < k + 1 BY <3>1, <3>2
    <3> QED BY <3>3, <3>4 DEF k
  <2>2. b(t) = Len(t.buf) + 1 BY DEF b
  <2>3. t.buf[t.pending] = count + 1 /\ t.buf[t.pending - 1] = Op.exactn BY <1>8, <1>10
  <2>4. t.begalt < t.pending BY <1>2, <1>10
  <2> QED BY <2>1, <2>2, <2>3, <2>4, <1>10 DEF CountHolds
<1>13. s.laststart = place - 1
  BY <1>2, <1>10, <1>7 DEF Placed, Aims, AtEnd, b
<1>14. LastHolds(t)
  <2>1. s.begalt < place BY <1>2
  <2>2. place \in 1..Len(s.buf) /\ Len(t.buf) = Len(s.buf) + 1 BY <1>5, <1>7
  <2>3. s.begalt <= place - 1 /\ place - 1 <= Len(t.buf) BY <2>1, <2>2, <1>1
  <2> QED BY <2>3, <1>13 DEF LastHolds
<1>15. Aims(t) BY <1>10, <1>13 DEF Aims
<1>16. Len(s.buf) <= Len(t.buf) BY <1>1, <1>5
<1> QED BY <1>9, <1>11, <1>12, <1>14, <1>15, <1>16, Grown

\* Or it starts an exactn, with a count of one.
LEMMA CharacterStarts ==
  ASSUME NEW s, NEW t, NEW c, Placed(s), s.state = "loop", DOMAIN t = CompFields,
         t.stack = s.stack, t.begalt = s.begalt, t.fixup = s.fixup, t.pending = b(s) + 1,
         t.laststart = b(s), t.regnum = s.regnum, t.state = s.state,
         t.buf = Join(Started(s.buf), b(s) + 1, c)
  PROVE  Placed(t) /\ t.buf[t.pending] = 1
<1> DEFINE n == Len(s.buf)
           last == n + 2
           two == Started(s.buf)
           one == Write(two, last, 1)
<1>1. n \in Nat /\ s.begalt \in Nat /\ IsBuffer(s.buf) BY BufferLen DEF Placed, Shape
<1>2. last = n + 2 /\ b(s) = n + 1 /\ b(s) + 1 = last BY <1>1 DEF b
<1>3. /\ IsBuffer(two) /\ Len(two) = n + 2 /\ Agree(s.buf, two, n)
      /\ two[n + 1] = Op.exactn /\ two[n + 2] = 0
  <2>1. /\ IsBuffer(<<Op.exactn, 0>>) /\ Len(<<Op.exactn, 0>>) = 2
        /\ <<Op.exactn, 0>>[1] = Op.exactn /\ <<Op.exactn, 0>>[2] = 0
    BY BufferOf2
  <2>2. two = s.buf \o <<Op.exactn, 0>> BY DEF Started
  <2> QED BY <2>1, <2>2, <1>1, BufferCat
<1>4. t.buf = Append(one, Ord[c])
  <2>1. two[last] = 0 BY <1>3
  <2>2. t.buf = Append(Write(two, last, two[last] + 1), Ord[c]) BY <1>2 DEF Join, Write
  <2>3. two[last] + 1 = 1 BY <2>1
  <2> QED BY <2>2, <2>3
<1> HIDE DEF n, two, last
<1>5. /\ IsBuffer(one) /\ Len(one) = Len(two)
      /\ \A i \in 1..Len(two) : one[i] = IF i = last THEN 1 ELSE two[i]
  BY <1>3, WriteKeeps
<1> HIDE DEF one
<1>6. /\ IsBuffer(t.buf) /\ Len(t.buf) = n + 3 /\ Agree(one, t.buf, n + 2)
  <2>1. IsBuffer(t.buf) /\ Len(t.buf) = Len(one) + 1 /\ Agree(one, t.buf, Len(one))
    <3>1. IsBuffer(one) BY <1>5
    <3>2. /\ IsBuffer(Append(one, Ord[c])) /\ Len(Append(one, Ord[c])) = Len(one) + 1
          /\ Agree(one, Append(one, Ord[c]), Len(one))
      BY <3>1, BufferAppend
    <3> QED BY <3>2, <1>4
  <2>2. Len(one) = n + 2 /\ (n + 2) + 1 = n + 3 BY <1>1, <1>3, <1>5
  <2> QED BY <2>1, <2>2
<1>7. t.buf[n + 1] = Op.exactn /\ t.buf[last] = 1
  <2>1. n + 1 \in 1..(n + 2) /\ last \in 1..(n + 2) /\ n + 1 # last BY <1>1, <1>2
  <2>2. t.buf[n + 1] = one[n + 1] /\ t.buf[last] = one[last] BY <2>1, <1>6 DEF Agree
  <2> QED BY <2>1, <2>2, <1>3, <1>5
<1>8. Agree(s.buf, t.buf, n)
  <2>1. \A i \in 1..n : i \in 1..(n + 2) /\ i # last BY <1>1, <1>2
  <2> QED BY <2>1, <1>3, <1>5, <1>6 DEF Agree
<1>9. s.begalt <= n + 1 BY <1>2 DEF Placed, LevelHolds
<1>10. Agree(s.buf, t.buf, s.begalt - 1)
  <2>1. \A i \in 1..(s.begalt - 1) : i \in 1..n BY <1>1, <1>9
  <2> QED BY <2>1, <1>8 DEF Agree
<1>11. t.pending = last /\ t.laststart = n + 1 /\ last - 1 = n + 1 BY <1>1, <1>2
<1>12. Shape(t)
  <2>1. last \in Nat /\ n + 1 \in Nat BY <1>1, <1>2
  <2> QED BY <2>1, <1>6, <1>11 DEF Placed, Shape
<1>13. CountHolds(t)
  <2>1. s.begalt < last /\ last + 1 < Len(t.buf) + 1 /\ 1 \in 1..255 BY <1>1, <1>2, <1>6, <1>9
  <2> QED BY <2>1, <1>7, <1>11 DEF CountHolds, b
<1>14. LastHolds(t)
  <2>1. n + 1 <= Len(t.buf) BY <1>1, <1>6
  <2> QED BY <2>1, <1>9, <1>11 DEF LastHolds
<1>15. Aims(t) BY <1>11 DEF Aims
<1>16. Len(s.buf) <= Len(t.buf) BY <1>1, <1>6 DEF n
<1>17. Placed(t) BY <1>10, <1>12, <1>13, <1>14, <1>15, <1>16, Grown
<1> QED BY <1>7, <1>11, <1>17

LEMMA NormalCharSound ==
  ASSUME NEW s, NEW c, Placed(s), s.state = "loop"
  PROVE  Sound(NormalChar(s, c)) /\ NormalChar(s, c).state = "loop"
<1> DEFINE t == NormalChar(s, c)
           fresh == \/ s.pending = 0
                    \/ s.pending + s.buf[s.pending] + 1 # b(s)
                    \/ s.buf[s.pending] = 255
                    \/ At(s.p) \in {"*", "^", "+", "?", "{"}
<1>1. DOMAIN s = CompFields BY DEF Placed, Shape
<1>2. CASE fresh
  <2> DEFINE u == [Push(s, <<Op.exactn, 0>>) EXCEPT !.laststart = b(s), !.pending = b(s) + 1]
             new == Join(u.buf, u.pending, c)
  <2>1. t = [u EXCEPT !.buf = new] BY <1>2 DEF NormalChar
  <2>2. /\ DOMAIN u = CompFields /\ u.buf = Started(s.buf)
        /\ u.stack = s.stack /\ u.begalt = s.begalt /\ u.fixup = s.fixup
        /\ u.regnum = s.regnum /\ u.state = s.state
        /\ u.laststart = b(s) /\ u.pending = b(s) + 1
    BY <1>1 DEF Push, CompFields, Started
  <2> HIDE DEF u, t
  <2>3. new = Join(Started(s.buf), b(s) + 1, c) BY <2>2
  <2> HIDE DEF new
  <2>4. /\ DOMAIN t = CompFields /\ t.stack = s.stack /\ t.begalt = s.begalt
        /\ t.fixup = s.fixup /\ t.pending = b(s) + 1 /\ t.laststart = b(s)
        /\ t.regnum = s.regnum /\ t.state = s.state /\ t.buf = new
    BY <2>1, <2>2 DEF CompFields
  <2>5. Placed(t) /\ t.buf[t.pending] = 1 BY <2>3, <2>4, CharacterStarts
  <2>6. Alone(t) BY <2>5 DEF Alone
  <2> QED BY <2>4, <2>5, <2>6 DEF Sound, t
<1>3. CASE ~fresh
  <2> DEFINE new == Join(s.buf, s.pending, c)
  <2>1. t = [s EXCEPT !.buf = new] BY <1>3 DEF NormalChar
  <2>2. new = Join(s.buf, s.pending, c) OBVIOUS
  <2> HIDE DEF t, new
  <2>3. /\ DOMAIN t = CompFields /\ t.stack = s.stack /\ t.begalt = s.begalt
        /\ t.fixup = s.fixup /\ t.pending = s.pending /\ t.laststart = s.laststart
        /\ t.regnum = s.regnum /\ t.state = s.state /\ t.p = s.p /\ t.buf = new
    BY <2>1, <1>1 DEF CompFields
  <2>4. /\ s.pending # 0 /\ s.pending + s.buf[s.pending] + 1 = b(s)
        /\ s.buf[s.pending] # 255
    BY <1>3
  <2>5. Placed(t)
    <3>1. t.buf = Join(s.buf, s.pending, c) BY <2>2, <2>3
    <3>2. /\ DOMAIN t = CompFields /\ t.stack = s.stack /\ t.begalt = s.begalt
          /\ t.fixup = s.fixup /\ t.pending = s.pending /\ t.laststart = s.laststart
          /\ t.regnum = s.regnum /\ t.state = s.state
      BY <2>3
    <3> HIDE DEF fresh
    <3> QED BY <3>1, <3>2, <2>4, CharacterJoins
  <2>6. Alone(t)
    <3>1. At(s.p) \notin {"*", "^", "+", "?", "{"} BY <1>3
    <3>2. At(t.p) \notin {"*", "+", "?", "{"} BY <3>1, <2>3
    <3> QED BY <3>2 DEF Alone
  <2> QED BY <2>3, <2>5, <2>6 DEF Sound, t
<1> QED BY <1>2, <1>3

LEMMA PushSound ==
  ASSUME NEW s, NEW t, NEW bytes, Placed(s), IsBuffer(bytes), Len(bytes) # 0,
         DOMAIN t = CompFields, t.buf = s.buf \o bytes,
         t.stack = s.stack, t.begalt = s.begalt, t.fixup = s.fixup, t.pending = s.pending,
         t.regnum = s.regnum, t.laststart \in {s.laststart, b(s)}
  PROVE  Sound(t)
<1>1. IsBuffer(s.buf) /\ Len(s.buf) \in Nat /\ Len(bytes) \in Nat
  BY BufferLen DEF Placed, Shape
<1>2. /\ IsBuffer(t.buf) /\ Len(t.buf) = Len(s.buf) + Len(bytes)
      /\ Agree(s.buf, t.buf, Len(s.buf))
  BY <1>1, BufferCat
<1>3. Len(s.buf) < Len(t.buf) BY <1>1, <1>2
<1>4. t.laststart \in Nat BY <1>1 DEF Placed, Shape, b
<1>5. Shape(t) BY <1>2, <1>4 DEF Placed, Shape
<1>6. Placed(t) /\ ~AtEnd(t) BY <1>2, <1>3, <1>5, Pushed
<1> QED BY <1>6 DEF Sound, Alone

\* Code is inserted behind the beginning of the alternative, and there is
\* no exactn that a character might join.
LEMMA Inserted ==
  ASSUME NEW s, NEW t, Placed(s), Shape(t),
         t.stack = s.stack, t.begalt = s.begalt, t.fixup = s.fixup, t.pending = 0,
         Len(s.buf) <= Len(t.buf), Agree(s.buf, t.buf, s.begalt - 1),
         t.laststart # 0 => s.begalt <= t.laststart /\ t.laststart <= Len(t.buf)
  PROVE  Sound(t)
<1>1. Len(t.buf) \in Nat /\ t.laststart \in Nat BY BufferLen DEF Shape
<1>2. LastHolds(t) BY <1>1 DEF LastHolds, b
<1>3. CountHolds(t) /\ ~AtEnd(t) BY DEF CountHolds, AtEnd
<1>4. Aims(t) /\ Alone(t) BY <1>3 DEF Aims, Alone
<1>5. Placed(t) BY <1>2, <1>3, <1>4, Grown
<1> QED BY <1>4, <1>5 DEF Sound

LEMMA AgreeOn ==
  ASSUME NEW f, NEW g, NEW h, NEW n \in Int, NEW k \in Int, NEW l \in Int,
         n <= k, n <= l, Agree(f, g, k), Agree(g, h, l)
  PROVE  Agree(f, h, n)
<1>1. \A i \in 1..n : i \in 1..k /\ i \in 1..l OBVIOUS
<1> QED BY <1>1 DEF Agree

\* The jump at the end of an alternative is written into the place that was
\* left for it.
LEMMA JumpStored ==
  ASSUME NEW s, NEW t, NEW to, Placed(s), s.fixup # 0, DOMAIN t = CompFields,
         t.buf = StoreJump(s.buf, "jump_past_alt", s.fixup, to),
         t.stack = s.stack, t.begalt = s.begalt, t.fixup = s.fixup, t.pending = s.pending,
         t.regnum = s.regnum, t.laststart = s.laststart, t.state = s.state
  PROVE  Placed(t) /\ Len(t.buf) = Len(s.buf)
<1> DEFINE place == s.fixup
<1>1. /\ IsBuffer(s.buf) /\ Len(s.buf) \in Nat /\ place \in Nat /\ s.begalt \in Nat
      /\ s.pending \in Nat
  BY BufferLen DEF Placed, Shape
<1>2. Here(s) \in Nat /\ 1 <= Here(s) BY InsideIsAddress DEF Here, Placed, Shape
<1>3. Here(s) <= place /\ s.begalt = place + 3 /\ s.begalt <= Len(s.buf) + 1
  BY DEF Placed, LevelHolds, AlternativesAt, b
<1>4. place \in 1..Len(s.buf) BY <1>1, <1>2, <1>3
<1> HIDE DEF place
<1>5. /\ IsBuffer(t.buf) /\ Len(t.buf) = Len(s.buf)
      /\ \A i \in 1..Len(s.buf) : i < place \/ place + 2 < i => t.buf[i] = s.buf[i]
      /\ t.buf[place] = Op.jump_past_alt
  BY <1>1, <1>4, StoreKeeps DEF place
<1>6. Shape(t) BY <1>5 DEF Placed, Shape
<1>7. Agree(s.buf, t.buf, Here(s) - 1)
  <2>1. \A i \in 1..(Here(s) - 1) : i \in 1..Len(s.buf) /\ i < place BY <1>1, <1>2, <1>3
  <2> QED BY <2>1, <1>5 DEF Agree
<1>8. GroupsHold(t.buf, t.stack)
  <2>1. Len(s.buf) <= Len(t.buf) BY <1>1, <1>5
  <2>2. GroupsHold(t.buf, s.stack) BY <2>1, <1>5, <1>7, GroupsKept DEF Placed
  <2> QED BY <2>2
<1>9. LevelHolds(t)
  <2>1. Here(t) = Here(s) /\ b(t) = b(s) BY <1>5 DEF Here, b
  <2>2. t.buf[t.fixup] = Op.jump_past_alt BY <1>5 DEF place
  <2> QED BY <2>1, <2>2 DEF Placed, LevelHolds, AlternativesAt
<1>10. LastHolds(t)
  <2>1. b(t) = b(s) BY <1>5 DEF b
  <2> QED BY <2>1, <1>5 DEF Placed, LastHolds
<1>11. t.pending # 0 =>
          t.buf[s.pending] = s.buf[s.pending] /\ t.buf[s.pending - 1] = s.buf[s.pending - 1]
  <2> SUFFICES ASSUME t.pending # 0
               PROVE  /\ t.buf[s.pending] = s.buf[s.pending]
                      /\ t.buf[s.pending - 1] = s.buf[s.pending - 1]
    OBVIOUS
  <2> DEFINE count == s.buf[s.pending]
  <2>1. s.begalt < s.pending /\ count \in 1..255 /\ s.pending + count < Len(s.buf) + 1
    BY DEF Placed, CountHolds, b
  <2> HIDE DEF count
  <2>2. /\ s.pending \in 1..Len(s.buf) /\ place + 2 < s.pending
        /\ s.pending - 1 \in 1..Len(s.buf) /\ place + 2 < s.pending - 1
    <3>1. 1 <= s.begalt BY <1>1, <1>3, <1>4
    <3>2. s.pending \in 1..Len(s.buf) /\ s.pending - 1 \in 1..Len(s.buf)
      BY <3>1, <2>1, <1>1, CountIsInside
    <3>3. s.begalt < s.pending /\ s.begalt = place + 3 BY <2>1, <1>3
    <3> QED BY <3>2, <3>3, <1>1
  <2> QED BY <2>2, <1>5
<1>12. CountHolds(t)
  <2>1. b(t) = b(s) BY <1>5 DEF b
  <2> QED BY <2>1, <1>11 DEF Placed, CountHolds
<1>13. Aims(t)
  <2>1. AtEnd(t) => AtEnd(s) BY <1>5, <1>11 DEF AtEnd, b
  <2> QED BY <2>1 DEF Placed, Aims
<1>14. Nested(t.stack) BY DEF Placed
<1> QED BY <1>5, <1>6, <1>8, <1>9, <1>10, <1>12, <1>13, <1>14 DEF Placed

\* The pattern is read on, up to symbol i.
Ahead(s, i) == [s EXCEPT !.p = i]

LEMMA AheadPlaced ==
  ASSUME NEW s, NEW i, Placed(s)
  PROVE  /\ Placed(Ahead(s, i)) /\ DOMAIN Ahead(s, i) = CompFields
         /\ Ahead(s, i).buf = s.buf /\ Ahead(s, i).stack = s.stack
         /\ Ahead(s, i).begalt = s.begalt /\ Ahead(s, i).fixup = s.fixup
         /\ Ahead(s, i).laststart = s.laststart /\ Ahead(s, i).pending = s.pending
         /\ Ahead(s, i).regnum = s.regnum /\ Ahead(s, i).state = s.state
<1> DEFINE t == Ahead(s, i)
<1>1. DOMAIN s = CompFields BY DEF Placed, Shape
<1>2. /\ DOMAIN t = CompFields /\ t.buf = s.buf /\ t.stack = s.stack
      /\ t.begalt = s.begalt /\ t.fixup = s.fixup /\ t.laststart = s.laststart
      /\ t.pending = s.pending /\ t.regnum = s.regnum /\ t.state = s.state
  BY <1>1 DEF Ahead, CompFields
<1> HIDE DEF t
<1>3. Placed(t) BY <1>2, Unmoved
<1> QED BY <1>2, <1>3 DEF t

LEMMA FetchedPlaced ==
  ASSUME Placed(comp)
  PROVE  /\ Placed(Fetched) /\ DOMAIN Fetched = CompFields
         /\ Fetched.buf = comp.buf /\ Fetched.stack = comp.stack
         /\ Fetched.begalt = comp.begalt /\ Fetched.fixup = comp.fixup
         /\ Fetched.laststart = comp.laststart /\ Fetched.pending = comp.pending
         /\ Fetched.regnum = comp.regnum /\ Fetched.state = comp.state
         /\ b(Fetched) = b(comp)
<1>1. Fetched = Ahead(comp, comp.p + 1) BY DEF Fetched, Ahead
<1> QED BY <1>1, AheadPlaced DEF b

LEMMA ReturnSound ==
  ASSUME NEW s, NEW code, Placed(s)
  PROVE  Sound(Return(s, code)) /\ Return(s, code).state = "done"
<1> DEFINE t == Return(s, code)
<1>1. DOMAIN s = CompFields BY DEF Placed, Shape
<1>2. /\ DOMAIN t = CompFields /\ t.buf = s.buf /\ t.stack = s.stack
      /\ t.begalt = s.begalt /\ t.fixup = s.fixup /\ t.laststart = s.laststart
      /\ t.pending = s.pending /\ t.regnum = s.regnum /\ t.state = "done"
  BY <1>1 DEF Return, CompFields
<1> HIDE DEF t
<1>3. Placed(t) BY <1>2, Unmoved
<1>4. Alone(t) BY <1>2 DEF Alone
<1> QED BY <1>2, <1>3, <1>4 DEF Sound, t

LEMMA LiteralSound == Sound(comp) /\ Literal => Outside(comp')
<1> SUFFICES ASSUME Sound(comp), Literal PROVE Outside(comp') OBVIOUS
<1>1. Placed(Fetched) /\ Fetched.state = "loop" BY FetchedPlaced DEF Sound, Literal, Fetch
<1> QED BY <1>1, NormalCharSound DEF Literal, Outside

\* An op of its own, which a repetition would repeat.
LEMMA OpSound ==
  ASSUME NEW s, NEW bytes, Placed(s), IsBuffer(bytes), Len(bytes) # 0
  PROVE  /\ Sound([Push(s, bytes) EXCEPT !.laststart = b(s)]) /\ Sound(Push(s, bytes))
         /\ [Push(s, bytes) EXCEPT !.laststart = b(s)].state = s.state
         /\ Push(s, bytes).state = s.state
<1> DEFINE t == [Push(s, bytes) EXCEPT !.laststart = b(s)]  u == Push(s, bytes)
<1>1. DOMAIN s = CompFields BY DEF Placed, Shape
<1>2. /\ DOMAIN t = CompFields /\ t.buf = s.buf \o bytes
      /\ t.stack = s.stack /\ t.begalt = s.begalt /\ t.fixup = s.fixup
      /\ t.pending = s.pending /\ t.regnum = s.regnum /\ t.laststart = b(s)
      /\ t.state = s.state
  BY <1>1 DEF Push, CompFields
<1>3. /\ DOMAIN u = CompFields /\ u.buf = s.buf \o bytes
      /\ u.stack = s.stack /\ u.begalt = s.begalt /\ u.fixup = s.fixup
      /\ u.pending = s.pending /\ u.regnum = s.regnum /\ u.laststart = s.laststart
      /\ u.state = s.state
  BY <1>1 DEF Push, CompFields
<1> HIDE DEF t, u
<1>4. Sound(t) BY <1>2, PushSound
<1>5. Sound(u) BY <1>3, PushSound
<1> QED BY <1>2, <1>3, <1>4, <1>5 DEF t, u

LEMMA AnchorSound == Sound(comp) /\ Anchor => Outside(comp')
<1> SUFFICES ASSUME Sound(comp), Anchor PROVE Outside(comp') OBVIOUS
<1>1. PICK byte : comp' = Push(Fetched, <<byte>>) BY DEF Anchor
<1>2. Placed(Fetched) /\ Fetched.state = "loop" BY FetchedPlaced DEF Sound, Anchor, Fetch
<1>3. IsBuffer(<<byte>>) /\ Len(<<byte>>) # 0 BY BufferOf1
<1> QED BY <1>1, <1>2, <1>3, OpSound DEF Outside

LEMMA AnyCharSound == Sound(comp) /\ AnyChar => Outside(comp')
<1> SUFFICES ASSUME Sound(comp), AnyChar PROVE Outside(comp') OBVIOUS
<1>1. Placed(Fetched) /\ b(Fetched) = b(comp) /\ Fetched.state = "loop"
  BY FetchedPlaced DEF Sound, AnyChar, Fetch
<1>2. IsBuffer(<<Op.anychar>>) /\ Len(<<Op.anychar>>) # 0 BY BufferOf1
<1>3. comp' = [Push(Fetched, <<Op.anychar>>) EXCEPT !.laststart = b(Fetched)]
  BY <1>1 DEF AnyChar
<1> QED BY <1>1, <1>2, <1>3, OpSound DEF Outside

LEMMA FirstAddress ==
  ASSUME NEW s, Placed(s)
  PROVE  /\ s.begalt \in Nat /\ 1 <= s.begalt /\ s.begalt <= Len(s.buf) + 1
         /\ Len(s.buf) \in Nat
<1>1. s.begalt \in Nat /\ Len(s.buf) \in Nat BY BufferLen DEF Placed, Shape
<1>2. 1 <= Here(s) /\ Here(s) \in Nat BY InsideIsAddress DEF Here, Placed, Shape
<1>3. Here(s) <= s.begalt /\ s.begalt <= Len(s.buf) + 1
  BY DEF Placed, LevelHolds, AlternativesAt, b
<1> QED BY <1>1, <1>2, <1>3

\* With nothing to repeat there is no exactn that ends here either.
LEMMA NothingToRepeat ==
  ASSUME NEW i, Sound(comp), comp.state = "loop", comp.laststart = 0
  PROVE  Outside(Ahead(comp, i))
<1> DEFINE t == Ahead(comp, i)
<1>1. /\ Placed(t) /\ t.pending = comp.pending /\ t.laststart = comp.laststart
      /\ t.begalt = comp.begalt /\ t.state = comp.state
  BY AheadPlaced DEF Sound
<1> HIDE DEF t
<1>2. ~AtEnd(t)
  <2> SUFFICES ASSUME AtEnd(t) PROVE FALSE OBVIOUS
  <2>1. t.pending # 0 /\ t.laststart = t.pending - 1 BY <1>1 DEF AtEnd, Placed, Aims
  <2>2. t.begalt < t.pending BY <2>1, <1>1 DEF Placed, CountHolds
  <2>3. t.begalt \in Nat /\ 1 <= t.begalt BY <1>1, FirstAddress
  <2>4. t.pending \in Nat BY <1>1 DEF Placed, Shape
  <2> QED BY <2>1, <2>2, <2>3, <2>4, <1>1
<1>3. Alone(t) BY <1>2 DEF Alone
<1> QED BY <1>1, <1>3 DEF Sound, Outside, t

\* The code of a repetition: the jump back, then the jumps to its exit and
\* over the first time around.
Looped(buf, start, to1, to2, both) ==
    IF both
    THEN InsertJump(InsertJump(buf, "on_failure_jump", start, to1),
                    "dummy_failure_jump", start, to2)
    ELSE InsertJump(buf, "on_failure_jump", start, to1)

LEMMA LoopedKeeps ==
  ASSUME NEW buf, IsBuffer(buf), NEW start \in Nat, 1 <= start, start <= Len(buf) + 1,
         NEW to1, NEW to2, NEW both
  PROVE  LET new == Looped(buf, start, to1, to2, both)
         IN  IsBuffer(new) /\ Len(buf) < Len(new) /\ Agree(buf, new, start - 1)
<1> DEFINE one == InsertJump(buf, "on_failure_jump", start, to1)
           two == InsertJump(one, "dummy_failure_jump", start, to2)
           new == Looped(buf, start, to1, to2, both)
<1>1. Len(buf) \in Nat BY BufferLen
<1>2. IsBuffer(one) /\ Len(one) = Len(buf) + 3 /\ Agree(buf, one, start - 1)
  BY InsertOpKeeps
<1> HIDE DEF one
<1>3. start <= Len(one) + 1 BY <1>1, <1>2
<1>4. IsBuffer(two) /\ Len(two) = Len(one) + 3 /\ Agree(one, two, start - 1)
  BY <1>2, <1>3, InsertOpKeeps
<1> HIDE DEF two
<1>5. new = IF both THEN two ELSE one BY DEF Looped, one, two
<1> HIDE DEF new
<1>6. Agree(buf, two, start - 1) BY <1>2, <1>4, AgreeOn
<1>7. Len(buf) < Len(one) /\ Len(buf) < Len(two) BY <1>1, <1>2, <1>4
<1>8. IsBuffer(new) /\ Len(buf) < Len(new) /\ Agree(buf, new, start - 1)
  BY <1>2, <1>4, <1>5, <1>6, <1>7
<1> QED BY <1>8 DEF new

LEMMA RepetitionSound == Sound(comp) /\ Repetition => Outside(comp')
<1> SUFFICES ASSUME Sound(comp), Repetition PROVE Outside(comp') OBVIOUS
<1> DEFINE end   == Min({i \in comp.p..(Len(pattern) + 1) : At(i) \notin {"*", "+", "?"}})
           ops   == {pattern[i] : i \in comp.p..(end - 1)}
           start == comp.laststart
           s     == [comp EXCEPT !.p = end]
           code  == <<Op.maybe_pop_jump>> \o Bytes(start - 3 - b(s) - 3)
           back  == IF ops # {"?"} THEN Push(s, code) ELSE s
           loop  == [back EXCEPT !.buf = InsertJump(@, "on_failure_jump", start, b(back) + 3),
                                 !.pending = 0]
           both  == [loop EXCEPT !.buf = InsertJump(@, "dummy_failure_jump",
                                                        start, start + 6)]
<1>1. comp' = IF start = 0 THEN s ELSE IF ops # {"+"} THEN loop ELSE both
  BY DEF Repetition
<1>2. comp.state = "loop" BY DEF Repetition, Fetch
<1>3. Placed(comp) BY DEF Sound
<1>4. /\ Placed(s) /\ DOMAIN s = CompFields /\ s.buf = comp.buf /\ s.stack = comp.stack
      /\ s.begalt = comp.begalt /\ s.fixup = comp.fixup /\ s.laststart = start
      /\ s.regnum = comp.regnum /\ s.state = "loop"
  <2>1. s = Ahead(comp, end) BY DEF Ahead
  <2> HIDE DEF end, s
  <2> QED BY <2>1, <1>2, <1>3, AheadPlaced
<1>5. CASE start = 0
  <2>1. comp' = Ahead(comp, end) BY <1>1, <1>5 DEF Ahead
  <2> HIDE DEF end
  <2> QED BY <2>1, <1>2, <1>5, NothingToRepeat
<1>6. CASE start # 0
  <2>1. IsBuffer(code) /\ Len(code) = 3 BY OpIsBuffer
  <2> HIDE DEF end, ops, s, code, start
  <2>2. IsBuffer(s.buf) /\ start \in Nat BY <1>4 DEF Placed, Shape
  <2>3. /\ start # 0 /\ s.begalt \in Nat /\ 1 <= s.begalt /\ s.begalt <= start
        /\ start <= Len(s.buf) /\ Len(s.buf) \in Nat
    <3>1. s.begalt <= start /\ start <= Len(s.buf)
      BY <1>4, <1>6 DEF Placed, LastHolds
    <3> QED BY <3>1, <1>4, <1>6, FirstAddress
  <2>4. /\ IsBuffer(back.buf) /\ Len(s.buf) <= Len(back.buf)
        /\ Agree(s.buf, back.buf, Len(s.buf))
    <3>1. CASE ops # {"?"}
      <4>1. back.buf = s.buf \o code BY <3>1, <1>4 DEF Push, CompFields
      <4>2. /\ IsBuffer(s.buf \o code) /\ Len(s.buf \o code) = Len(s.buf) + Len(code)
            /\ Agree(s.buf, s.buf \o code, Len(s.buf))
        <5>1. IsBuffer(s.buf) /\ IsBuffer(code) BY <2>1, <2>2
        <5> QED BY <5>1, BufferCat
      <4>3. Len(s.buf) <= Len(s.buf) + Len(code) BY <2>1, <2>3
      <4> QED BY <4>1, <4>2, <4>3
    <3>2. CASE ~(ops # {"?"})
      <4>1. back = s BY <3>2
      <4> QED BY <4>1, <2>2, <2>3 DEF Agree
    <3> QED BY <3>1, <3>2
  <2>5. /\ DOMAIN back = CompFields /\ back.stack = s.stack /\ back.begalt = s.begalt
        /\ back.fixup = s.fixup /\ back.laststart = start /\ back.regnum = s.regnum
        /\ back.state = "loop"
    BY <1>4 DEF Push, CompFields
  <2> HIDE DEF back
  <2> DEFINE t == comp'
             new == Looped(back.buf, start, b(back) + 3, start + 6, ops = {"+"})
  <2>6. /\ DOMAIN t = CompFields /\ t.stack = s.stack /\ t.begalt = s.begalt
        /\ t.fixup = s.fixup /\ t.laststart = start /\ t.regnum = s.regnum
        /\ t.pending = 0 /\ t.buf = new /\ t.state = "loop"
    <3>1. /\ DOMAIN loop = CompFields /\ loop.stack = s.stack /\ loop.begalt = s.begalt
          /\ loop.fixup = s.fixup /\ loop.laststart = start /\ loop.regnum = s.regnum
          /\ loop.pending = 0 /\ loop.state = "loop"
          /\ loop.buf = InsertJump(back.buf, "on_failure_jump", start, b(back) + 3)
      BY <2>5 DEF CompFields
    <3>2. CASE ops # {"+"}
      <4>1. t = loop BY <1>1, <1>6, <3>2
      <4>2. new = InsertJump(back.buf, "on_failure_jump", start, b(back) + 3)
        BY <3>2 DEF Looped
      <4> HIDE DEF loop, new
      <4> QED BY <3>1, <4>1, <4>2
    <3>3. CASE ~(ops # {"+"})
      <4>1. t = both BY <1>1, <1>6, <3>3
      <4>2. new = InsertJump(InsertJump(back.buf, "on_failure_jump", start, b(back) + 3),
                             "dummy_failure_jump", start, start + 6)
        BY <3>3 DEF Looped
      <4> HIDE DEF loop, new
      <4>3. /\ DOMAIN both = CompFields /\ both.stack = s.stack /\ both.begalt = s.begalt
            /\ both.fixup = s.fixup /\ both.laststart = start /\ both.regnum = s.regnum
            /\ both.pending = 0 /\ both.state = "loop"
            /\ both.buf = InsertJump(loop.buf, "dummy_failure_jump", start, start + 6)
        BY <3>1 DEF CompFields
      <4> QED BY <3>1, <4>1, <4>2, <4>3
    <3> QED BY <3>2, <3>3
  <2>7. Len(back.buf) \in Nat /\ start <= Len(back.buf) + 1 /\ 1 <= start
    <3>1. Len(back.buf) \in Nat BY <2>4, BufferLen
    <3> QED BY <3>1, <2>2, <2>3, <2>4
  <2>8. IsBuffer(new) /\ Len(back.buf) < Len(new) /\ Agree(back.buf, new, start - 1)
    <3> DEFINE to1 == b(back) + 3  to2 == start + 6  plus == ops = {"+"}
    <3>1. new = Looped(back.buf, start, to1, to2, plus) OBVIOUS
    <3> HIDE DEF to1, to2, plus, new
    <3> QED BY <3>1, <2>2, <2>4, <2>7, LoopedKeeps
  <2> HIDE DEF new, t
  <2>9. Len(new) \in Nat BY <2>8, BufferLen
  <2>10. Agree(s.buf, new, s.begalt - 1)
    <3>1. s.begalt - 1 \in Int /\ start - 1 \in Int BY <2>2, <2>3
    <3>2. s.begalt - 1 <= Len(s.buf) /\ s.begalt - 1 <= start - 1 BY <2>2, <2>3
    <3> QED BY <3>1, <3>2, <2>3, <2>4, <2>8, AgreeOn
  <2>11. Len(s.buf) <= Len(new) /\ start <= Len(new) BY <2>2, <2>3, <2>4, <2>7, <2>8, <2>9
  <2>12. Shape(t) BY <1>4, <2>2, <2>6, <2>8 DEF Placed, Shape
  <2>13. Sound(t) BY <1>4, <2>3, <2>6, <2>10, <2>11, <2>12, Inserted
  <2> QED BY <2>6, <2>13 DEF Outside, t
<1> QED BY <1>5, <1>6

-----------------------------------------------------------------------------
(***************************************************************************)
(* Bracket expressions: what is read of one is a set of characters, so its *)
(* bitmap has a length.                                                    *)
(***************************************************************************)

BracketHolds(s) ==
    s.state = "bracket" =>
        /\ DOMAIN s.bracket = {"hat", "p1", "chars", "class"}
        /\ s.bracket.chars \subseteq Range(ASCII)

LEMMA CharactersAreCounted == DOMAIN ASCII = 1..95
BY DEF ASCII

LEMMA OrdIsCode ==
  ASSUME NEW c \in Range(ASCII)
  PROVE  Ord[c] \in 32..126
<1>1. DOMAIN ASCII = 1..95 BY CharactersAreCounted
<1> DEFINE n == CHOOSE i \in DOMAIN ASCII : ASCII[i] = c
<1>2. \E i \in DOMAIN ASCII : ASCII[i] = c BY DEF Range
<1>3. n \in DOMAIN ASCII BY <1>2
<1>4. Ord[c] = 31 + n BY DEF Ord
<1> HIDE DEF n
<1> QED BY <1>1, <1>3, <1>4

LEMMA GreatestExists ==
  ASSUME NEW top \in Nat, NEW T, T \subseteq 0..top, T # {}
  PROVE  Max(T) \in T
<1> DEFINE R == OpToRel(<, Nat)
           below == {top - n : n \in T}
<1>1. IsWellFoundedOn(R, Nat) BY NatLessThanWellFounded
<1>2. \A x, y \in Nat : y < x => <<y, x>> \in R BY Zenon DEF OpToRel
<1>3. below \subseteq Nat
  <2> SUFFICES ASSUME NEW n \in T PROVE top - n \in Nat OBVIOUS
  <2> QED OBVIOUS
<1> HIDE DEF R
<1>4. PICK x \in below : \A y \in below : <<y, x>> \notin R
  <2>1. below # {} OBVIOUS
  <2> QED BY <2>1, <1>1, <1>3, WFMin
<1>5. \A y \in below : ~(y < x) BY <1>2, <1>3, <1>4
<1>6. PICK n \in T : x = top - n BY <1>4
<1>7. \A k \in T : n >= k
  <2> SUFFICES ASSUME NEW k \in T PROVE n >= k OBVIOUS
  <2>1. ~(top - k < top - n) BY <1>5, <1>6
  <2> QED BY <2>1
<1>8. \E i \in T : \A k \in T : i >= k BY <1>7
<1> QED BY <1>8, Zenon DEF Max

LEMMA BitmapIsBuffer ==
  ASSUME NEW chars, chars \subseteq Range(ASCII)
  PROVE  IsBuffer(Bitmap(chars))
<1> DEFINE codes == {Ord[c] : c \in chars}
           size  == IF codes = {} THEN 0 ELSE Max(codes) \div 8 + 1
           bits  == [k \in 1..size |->
                       MapThenSumSet(LAMBDA c : 2 ^ (c % 8), {c \in codes : c \div 8 = k - 1})]
<1>1. codes \subseteq 0..126
  <2> SUFFICES ASSUME NEW c \in chars PROVE Ord[c] \in 0..126 OBVIOUS
  <2>1. Ord[c] \in 32..126 BY OrdIsCode
  <2> QED BY <2>1
<1>2. Bitmap(chars) = <<size>> \o bits BY DEF Bitmap
<1> HIDE DEF codes
<1>3. size \in Nat
  <2>1. CASE codes = {} BY <2>1
  <2>2. CASE codes # {}
    <3>1. Max(codes) \in 0..126 BY <1>1, <2>2, GreatestExists
    <3>2. Max(codes) \div 8 \in Nat BY <3>1
    <3> QED BY <2>2, <3>2
  <2> QED BY <2>1, <2>2
<1> HIDE DEF size
<1>4. DOMAIN bits = 1..size /\ bits = [i \in 1..size |-> bits[i]] OBVIOUS
<1> HIDE DEF bits
<1>5. \A i \in 1..size : bits[i] \in Range(bits) BY <1>4 DEF Range
<1>6. bits \in [1..size -> Range(bits)] BY <1>4, <1>5
<1>7. IsBuffer(bits) BY <1>3, <1>6 DEF IsBuffer
<1>8. IsBuffer(<<size>>) BY BufferOf1
<1>9. IsBuffer(<<size>> \o bits) BY <1>7, <1>8, BufferCat
<1> QED BY <1>2, <1>9

\* A state inside a bracket expression, with nothing compiled meanwhile.
LEMMA ReadingSound ==
  ASSUME NEW s, NEW t, Placed(s), DOMAIN t = CompFields, t.state = "bracket",
         t.buf = s.buf, t.stack = s.stack, t.begalt = s.begalt, t.fixup = s.fixup,
         t.laststart = s.laststart, t.pending = s.pending, t.regnum = s.regnum
  PROVE  Sound(t)
<1>1. Placed(t) BY Unmoved
<1>2. Alone(t) BY DEF Alone
<1> QED BY <1>1, <1>2 DEF Sound

LEMMA OpenBracketSound ==
  Sound(comp) /\ OpenBracket => Sound(comp') /\ BracketHolds(comp')
<1> SUFFICES ASSUME Sound(comp), OpenBracket PROVE Sound(comp') /\ BracketHolds(comp') OBVIOUS
<1> DEFINE t == comp'
<1>1. Placed(comp) /\ DOMAIN comp = CompFields BY DEF Sound, Placed, Shape
<1>2. CASE comp.p = Len(pattern)
  <2>1. t = Return(Fetched, "REG_EBRACK") BY <1>2 DEF OpenBracket
  <2>2. Placed(Fetched) BY <1>1, FetchedPlaced
  <2>3. DOMAIN Fetched = CompFields BY <1>1, FetchedPlaced
  <2>4. t.state = "done" BY <2>1, <2>3 DEF Return, CompFields
  <2>5. BracketHolds(t) BY <2>4 DEF BracketHolds
  <2> QED BY <2>1, <2>2, <2>5, ReturnSound
<1>3. CASE comp.p # Len(pattern)
  <2>1. PICK hat, p1 :
           t = [comp EXCEPT !.state = "bracket", !.p = p1, !.laststart = b(comp),
                            !.bracket = [hat |-> hat, p1 |-> p1, chars |-> {},
                                         class |-> FALSE]]
    BY <1>3 DEF OpenBracket
  <2> HIDE DEF t
  <2>2. /\ DOMAIN t = CompFields /\ t.state = "bracket" /\ t.buf = comp.buf
        /\ t.stack = comp.stack /\ t.begalt = comp.begalt /\ t.fixup = comp.fixup
        /\ t.laststart = b(comp) /\ t.pending = comp.pending /\ t.regnum = comp.regnum
        /\ DOMAIN t.bracket = {"hat", "p1", "chars", "class"} /\ t.bracket.chars = {}
    BY <1>1, <2>1 DEF CompFields
  <2>3. comp.begalt <= Len(comp.buf) + 1 /\ Len(comp.buf) \in Nat /\ comp.begalt \in Nat
    BY <1>1, FirstAddress
  <2>4. Shape(t) BY <1>1, <2>2, <2>3 DEF Placed, Shape, b
  <2>5. LastHolds(t) BY <2>2, <2>3 DEF LastHolds, b
  <2>6. CountHolds(t) BY <1>1, <2>2 DEF Placed, CountHolds, b
  <2>7. Aims(t) /\ Alone(t) BY <2>2 DEF Aims, Alone
  <2>8. Agree(comp.buf, t.buf, comp.begalt - 1) BY <2>2 DEF Agree
  <2>9. Len(comp.buf) <= Len(t.buf) BY <2>2, <2>3
  <2>10. Placed(t) BY <1>1, <2>2, <2>4, <2>5, <2>6, <2>7, <2>8, <2>9, Grown
  <2>11. BracketHolds(t) BY <2>2 DEF BracketHolds
  <2> QED BY <2>7, <2>10, <2>11 DEF Sound, t
<1> QED BY <1>2, <1>3

\* The two ways a bracket expression goes on: with more characters, which
\* may come after the symbols of a range.
MoreChars(s, i, chars) == [s EXCEPT !.p = i, !.bracket.chars = @ \cup chars]

LEMMA MoreCharsSound ==
  ASSUME NEW s, NEW i, NEW chars, Placed(s), s.state = "bracket", BracketHolds(s),
         chars \subseteq Range(ASCII)
  PROVE  LET t == MoreChars(s, i, chars)
         IN  /\ Sound(t) /\ t.state = "bracket" /\ BracketHolds(t)
             /\ \A x : Sound([t EXCEPT !.bracket.class = x])
                       /\ BracketHolds([t EXCEPT !.bracket.class = x])
<1> DEFINE t == MoreChars(s, i, chars)
           new == [s.bracket EXCEPT !.chars = @ \cup chars]
<1>1. DOMAIN s = CompFields BY DEF Placed, Shape
<1>2. /\ DOMAIN s.bracket = {"hat", "p1", "chars", "class"}
      /\ s.bracket.chars \subseteq Range(ASCII)
  BY DEF BracketHolds
<1>3. /\ DOMAIN new = {"hat", "p1", "chars", "class"}
      /\ new.chars \subseteq Range(ASCII)
  BY <1>2
<1>4. t = [s EXCEPT !.p = i, !.bracket = new] BY DEF MoreChars
<1> HIDE DEF t, new
<1>5. /\ DOMAIN t = CompFields /\ t.state = "bracket" /\ t.buf = s.buf
      /\ t.stack = s.stack /\ t.begalt = s.begalt /\ t.fixup = s.fixup
      /\ t.laststart = s.laststart /\ t.pending = s.pending /\ t.regnum = s.regnum
      /\ t.bracket = new
  BY <1>1, <1>4 DEF CompFields
<1>6. Sound(t) BY <1>5, ReadingSound
<1>7. BracketHolds(t) BY <1>3, <1>5 DEF BracketHolds
<1>8. ASSUME NEW x
      PROVE  Sound([t EXCEPT !.bracket.class = x]) /\ BracketHolds([t EXCEPT !.bracket.class = x])
  <2> DEFINE u == [t EXCEPT !.bracket.class = x]
             newer == [new EXCEPT !.class = x]
  <2>1. DOMAIN newer = {"hat", "p1", "chars", "class"} /\ newer.chars = new.chars
    BY <1>3
  <2>2. u = [t EXCEPT !.bracket = newer] BY <1>5
  <2> HIDE DEF u, newer
  <2>3. /\ DOMAIN u = CompFields /\ u.state = "bracket" /\ u.buf = s.buf
        /\ u.stack = s.stack /\ u.begalt = s.begalt /\ u.fixup = s.fixup
        /\ u.laststart = s.laststart /\ u.pending = s.pending /\ u.regnum = s.regnum
        /\ u.bracket = newer
    BY <1>5, <2>2 DEF CompFields
  <2>4. Sound(u) BY <2>3, ReadingSound
  <2>5. BracketHolds(u) BY <1>3, <2>1, <2>3 DEF BracketHolds
  <2> QED BY <2>4, <2>5 DEF u
<1> QED BY <1>5, <1>6, <1>7, <1>8 DEF t

LEMMA RangeSound ==
  ASSUME NEW s, Placed(s), s.state = "bracket", BracketHolds(s)
  PROVE  Sound(CompileRange(s)) /\ BracketHolds(CompileRange(s))
<1> DEFINE chars == CharsFrom(At(s.p - 2), At(s.p))
<1>1. chars \subseteq Range(ASCII) BY DEF CharsFrom
<1>2. \/ CompileRange(s) = Return(s, "REG_ERANGE")
      \/ CompileRange(s) = MoreChars(s, s.p + 1, chars)
  BY DEF CompileRange, MoreChars
<1> HIDE DEF chars
<1>3. Sound(Return(s, "REG_ERANGE")) BY ReturnSound
<1>4. BracketHolds(Return(s, "REG_ERANGE"))
  <2>1. DOMAIN s = CompFields BY DEF Placed, Shape
  <2>2. Return(s, "REG_ERANGE").state = "done" BY <2>1 DEF Return, CompFields
  <2> QED BY <2>2 DEF BracketHolds
<1>5. /\ Sound(MoreChars(s, s.p + 1, chars))
      /\ BracketHolds(MoreChars(s, s.p + 1, chars))
  BY <1>1, MoreCharsSound
<1> QED BY <1>2, <1>3, <1>4, <1>5

LEMMA ClassesAreCharacters ==
  \A c \in DOMAIN CharClass : CharClass[c] \subseteq Range(ASCII)
<1>1. " " \in Range(ASCII)
  <2>1. ASCII[1] = " " BY DEF ASCII
  <2>2. 1 \in DOMAIN ASCII BY CharactersAreCounted
  <2> QED BY <2>1, <2>2 DEF Range
<1>2. Letters \subseteq Range(ASCII) /\ Digits \subseteq Range(ASCII)
  BY DEF Letters, Digits, CharsFrom
<1> QED BY <1>1, <1>2 DEF CharClass

LEMMA BracketItemSound ==
  ASSUME pattern \in Seq(Symbols), Sound(comp), BracketHolds(comp), BracketItem
  PROVE  Sound(comp') /\ BracketHolds(comp')
<1> DEFINE c    == At(comp.p)
           next == At(comp.p + 1)
           s    == Fetched
           s2   == [s EXCEPT !.p = @ + 1]
           t    == comp'
           byte == IF comp.bracket.hat THEN Op.charset_not ELSE Op.charset
           code == <<byte>> \o Bitmap(comp.bracket.chars)
           end  == [Push(s, code) EXCEPT !.state = "loop", !.bracket = <<>>]
           class == [MoreChars(s, s.p, CharClass[c]) EXCEPT !.bracket.class = TRUE]
           char == [MoreChars(s, s.p, {c}) EXCEPT !.bracket.class = FALSE]
<1>1. comp.state = "bracket" BY DEF BracketItem
<1>2. Placed(comp) /\ DOMAIN comp = CompFields BY DEF Sound, Placed, Shape
<1>3. s = Ahead(comp, comp.p + 1) BY DEF Fetched, Ahead
<1>4. Placed(s) /\ DOMAIN s = CompFields /\ s.state = "bracket" /\ s.bracket = comp.bracket
  <2>1. Placed(s) /\ DOMAIN s = CompFields /\ s.state = "bracket" BY <1>1, <1>2, FetchedPlaced
  <2>2. s.bracket = comp.bracket BY <1>2 DEF Fetched, CompFields
  <2> QED BY <2>1, <2>2
<1>5. \/ t \in {Return(comp, "REG_EBRACK"), Return(s, "REG_ERANGE")}
      \/ t = end
      \/ c \in DOMAIN CharClass /\ t = class
      \/ t = CompileRange(s) \/ t = CompileRange(s2)
      \/ c # "NUL" /\ c \notin DOMAIN CharClass /\ t = char
  <2>1. CASE c = "NUL"
    <3>1. t = Return(comp, "REG_EBRACK") BY <2>1 DEF BracketItem
    <3> QED BY <3>1
  <2>2. CASE c # "NUL" /\ c = "]" /\ comp.p # comp.bracket.p1
    <3>1. t = end BY <2>2 DEF BracketItem
    <3> QED BY <3>1
  <2>3. CASE c # "NUL" /\ ~(c = "]" /\ comp.p # comp.bracket.p1)
    <3>1. \/ t = Return(s, "REG_ERANGE")
          \/ /\ c \in DOMAIN CharClass
             /\ t = [s EXCEPT !.bracket.chars = @ \cup CharClass[c], !.bracket.class = TRUE]
          \/ t = CompileRange(s) \/ t = CompileRange(s2)
          \/ /\ c \notin DOMAIN CharClass
             /\ t = [s EXCEPT !.bracket.chars = @ \cup {c}, !.bracket.class = FALSE]
      BY <2>3 DEF BracketItem
    <3>2. [s EXCEPT !.bracket.chars = @ \cup CharClass[c], !.bracket.class = TRUE] = class
      BY DEF MoreChars
    <3>3. [s EXCEPT !.bracket.chars = @ \cup {c}, !.bracket.class = FALSE] = char
      BY DEF MoreChars
    <3> HIDE DEF class, char, s2
    <3> QED BY <2>3, <3>1, <3>2, <3>3
  <2> QED BY <2>1, <2>2, <2>3
<1>6. BracketHolds(s) BY <1>1, <1>4 DEF BracketHolds
<1> HIDE DEF s
<1>7. ASSUME t \in {Return(comp, "REG_EBRACK"), Return(s, "REG_ERANGE")}
      PROVE  Sound(t) /\ BracketHolds(t)
  <2>1. Sound(t) BY <1>2, <1>4, <1>7, ReturnSound
  <2>2. t.state = "done" BY <1>2, <1>4, <1>7 DEF Return, CompFields
  <2> QED BY <2>1, <2>2 DEF BracketHolds
<1>8. ASSUME t = end PROVE Sound(t) /\ BracketHolds(t)
  <2>1. IsBuffer(code) /\ Len(code) # 0
    <3>1. IsBuffer(Bitmap(comp.bracket.chars))
      BY <1>1, BitmapIsBuffer DEF BracketHolds
    <3>2. IsBuffer(<<byte>>) /\ Len(<<byte>>) = 1 BY BufferOf1
    <3>3. IsBuffer(code) /\ Len(code) = 1 + Len(Bitmap(comp.bracket.chars))
      BY <3>1, <3>2, BufferCat
    <3>4. Len(Bitmap(comp.bracket.chars)) \in Nat BY <3>1, BufferLen
    <3> QED BY <3>3, <3>4
  <2> HIDE DEF code, t
  <2>2. /\ DOMAIN t = CompFields /\ t.buf = s.buf \o code
        /\ t.stack = s.stack /\ t.begalt = s.begalt /\ t.fixup = s.fixup
        /\ t.pending = s.pending /\ t.regnum = s.regnum /\ t.laststart = s.laststart
        /\ t.state = "loop"
    BY <1>4, <1>8 DEF Push, CompFields
  <2>3. Sound(t) BY <1>4, <2>1, <2>2, PushSound
  <2>4. BracketHolds(t) BY <2>2 DEF BracketHolds
  <2> QED BY <2>3, <2>4
<1>9. ASSUME c \in DOMAIN CharClass, t = class PROVE Sound(t) /\ BracketHolds(t)
  <2>1. CharClass[c] \subseteq Range(ASCII) BY <1>9, ClassesAreCharacters
  <2> QED BY <1>4, <1>6, <1>9, <2>1, MoreCharsSound
<1>10. Sound(CompileRange(s)) /\ BracketHolds(CompileRange(s)) BY <1>4, <1>6, RangeSound
<1>11. Sound(CompileRange(s2)) /\ BracketHolds(CompileRange(s2))
  <2>1. s2 = Ahead(s, s.p + 1) BY DEF Ahead
  <2>2. s2.bracket = s.bracket BY <1>4 DEF CompFields
  <2> HIDE DEF s2
  <2>3. Placed(s2) /\ s2.state = "bracket" BY <1>4, <2>1, AheadPlaced
  <2>4. BracketHolds(s2) BY <1>4, <1>6, <2>2, <2>3 DEF BracketHolds
  <2> QED BY <2>3, <2>4, RangeSound
<1>12. ASSUME c # "NUL", c \notin DOMAIN CharClass, t = char PROVE Sound(t) /\ BracketHolds(t)
  <2>1. c \in Symbols BY <1>12 DEF At
  <2>2. {c} \subseteq Range(ASCII) BY <2>1, <1>12 DEF Symbols
  <2> QED BY <1>4, <1>6, <1>12, <2>2, MoreCharsSound
<1> HIDE DEF t
<1>13. Sound(t) /\ BracketHolds(t) BY <1>5, <1>7, <1>8, <1>9, <1>10, <1>11, <1>12
<1> QED BY <1>13 DEF t

-----------------------------------------------------------------------------
(***************************************************************************)
(* Escapes, intervals, groups and alternatives.                            *)
(***************************************************************************)

LEMMA BackslashSound == Sound(comp) /\ Backslash => Outside(comp')
<1> SUFFICES ASSUME Sound(comp), Backslash PROVE Outside(comp') OBVIOUS
<1> DEFINE c   == At(comp.p + 1)
           s   == [comp EXCEPT !.p = @ + 2]
           reg == Ord[c] - Ord["0"]
           t   == comp'
           one == <<Escaped[c]>>
           two == <<Op.duplicate, reg>>
<1>1. comp.state = "loop" /\ Placed(comp) BY DEF Backslash, Fetch, Sound
<1>2. Placed(s) /\ s.state = "loop"
  <2>1. s = Ahead(comp, comp.p + 2) BY DEF Ahead
  <2> HIDE DEF s
  <2> QED BY <1>1, <2>1, AheadPlaced
<1>3. \/ t = Return(Fetched, "REG_EESCAPE") \/ t = Return(s, "REG_ESUBREG")
      \/ t = [Push(s, one) EXCEPT !.laststart = b(s)] \/ t = Push(s, one)
      \/ t = NormalChar(s, c)
      \/ t = [Push(s, two) EXCEPT !.laststart = b(s)]
  <2> DEFINE own  == DOMAIN Escaped \ {"w", "W"}
             end  == Return(Fetched, "REG_EESCAPE")
             word == [Push(s, one) EXCEPT !.laststart = b(s)]
             op   == Push(s, one)
             ref  == IF reg > comp.regnum THEN Return(s, "REG_ESUBREG")
                     ELSE IF GroupInCompileStack(comp.stack, reg) THEN NormalChar(s, c)
                     ELSE [Push(s, two) EXCEPT !.laststart = b(s)]
             char == NormalChar(s, c)
  <2>1. t = CASE c = "NUL" -> end [] c \in {"w", "W"} -> word [] c \in own -> op
              [] c \in Digits \ {"0"} -> ref [] OTHER -> char
    BY Zenon DEF Backslash
  <2>2. \/ ref = Return(s, "REG_ESUBREG") \/ ref = NormalChar(s, c)
        \/ ref = [Push(s, two) EXCEPT !.laststart = b(s)]
    BY Zenon
  <2> HIDE DEF own, end, word, op, ref, char, c, t
  <2>3. t \in {end, word, op, ref, char} BY <2>1
  <2> QED BY <2>2, <2>3 DEF end, word, op, char
<1>4. IsBuffer(one) /\ Len(one) # 0 /\ IsBuffer(two) /\ Len(two) # 0
  BY BufferOf1, BufferOf2
<1> HIDE DEF s, one, two, t
<1>5. Outside(Return(Fetched, "REG_EESCAPE")) BY <1>1, FetchedPlaced, ReturnSound DEF Outside
<1>6. Outside(Return(s, "REG_ESUBREG")) BY <1>2, ReturnSound DEF Outside
<1>7. Outside([Push(s, one) EXCEPT !.laststart = b(s)]) /\ Outside(Push(s, one))
  BY <1>2, <1>4, OpSound DEF Outside
<1>8. Outside([Push(s, two) EXCEPT !.laststart = b(s)]) BY <1>2, <1>4, OpSound DEF Outside
<1>9. Outside(NormalChar(s, c)) BY <1>2, NormalCharSound DEF Outside
<1>10. Outside(t) BY <1>3, <1>5, <1>6, <1>7, <1>8, <1>9
<1> QED BY <1>10 DEF t

LEMMA IntervalKeeps ==
  ASSUME NEW buf, IsBuffer(buf), NEW start \in Nat, 1 <= start, start <= Len(buf) + 1,
         NEW low, NEW high
  PROVE  LET new == IntervalCode(buf, start, low, high)
         IN  IsBuffer(new) /\ Len(buf) < Len(new) /\ Agree(buf, new, start - 1)
<1> DEFINE many == high > 1
           end  == Len(buf) + 1
           to1  == end + 5 + (IF many THEN 5 ELSE 0)
           to   == to1 - start - 3
           one  == InsertOp2(buf, start, "succeed_n", to, low)
           two  == InsertOp2(one, start, "set_number_at", 5, low)
           m1   == start + 5 - (Len(two) + 1) - 3
           m2   == high - 1
           tail == <<Op.jump_n>> \o Bytes(m1) \o Bytes(m2)
           loop == two \o <<Op.jump_n>> \o Bytes(m1) \o Bytes(m2)
           far  == Len(loop) + 1 - start
           whole == InsertOp2(loop, start, "set_number_at", far, m2)
           jump == InsertJump(buf, "jump", start, end + 3)
           new  == IntervalCode(buf, start, low, high)
<1>1. new \in {jump, whole, two}
  <2>1. two = InsertOp2(InsertJump2(buf, "succeed_n", start, to1, low),
                        start, "set_number_at", 5, low)
    BY DEF InsertJump2
  <2>2. new = IF high = 0 THEN jump ELSE IF many THEN whole ELSE two
    BY <2>1 DEF IntervalCode, InsertJump2
  <2> HIDE DEF jump, whole, two, many, new
  <2> QED BY <2>2
<1>2. Len(buf) \in Nat BY BufferLen
<1>3. IsBuffer(jump) /\ Len(jump) = Len(buf) + 3 /\ Agree(buf, jump, start - 1)
  <2> DEFINE place == end + 3
  <2>1. jump = InsertJump(buf, "jump", start, place) OBVIOUS
  <2> HIDE DEF place, jump
  <2> QED BY <2>1, InsertOpKeeps
<1> HIDE DEF to, m1, m2, jump, new
<1>4. IsBuffer(one) /\ Len(one) = Len(buf) + 5 /\ Agree(buf, one, start - 1)
  BY InsertOpKeeps
<1> HIDE DEF one
<1>5. start <= Len(one) + 1 /\ Len(one) \in Nat BY <1>2, <1>4
<1>6. IsBuffer(two) /\ Len(two) = Len(one) + 5 /\ Agree(one, two, start - 1)
  BY <1>4, <1>5, InsertOpKeeps
<1> HIDE DEF two
<1>7. IsBuffer(loop) /\ Len(two) <= Len(loop) /\ Agree(two, loop, Len(two))
  <2>1. /\ IsBuffer(<<Op.jump_n>>) /\ IsBuffer(Bytes(m1)) /\ IsBuffer(Bytes(m2))
        /\ Len(<<Op.jump_n>>) = 1 /\ Len(Bytes(m1)) = 2 /\ Len(Bytes(m2)) = 2
    BY BufferOf1, BufferOf2 DEF Bytes
  <2> DEFINE l1 == two \o <<Op.jump_n>>  l2 == l1 \o Bytes(m1)
  <2>2. Len(two) \in Nat BY <1>6, BufferLen
  <2>3. IsBuffer(l1) /\ Len(l1) = Len(two) + 1 /\ Agree(two, l1, Len(two))
    BY <1>6, <2>1, BufferCat
  <2>4. loop = l2 \o Bytes(m2) OBVIOUS
  <2> HIDE DEF l1, loop
  <2>5. IsBuffer(l2) /\ Len(l2) = Len(l1) + 2 /\ Agree(l1, l2, Len(l1))
    <3>1. IsBuffer(l1) /\ IsBuffer(Bytes(m1)) BY <2>1, <2>3
    <3>2. /\ IsBuffer(l1 \o Bytes(m1)) /\ Len(l1 \o Bytes(m1)) = Len(l1) + Len(Bytes(m1))
          /\ Agree(l1, l1 \o Bytes(m1), Len(l1))
      BY <3>1, BufferCat
    <3> QED BY <3>2, <2>1
  <2> HIDE DEF l2
  <2>6. IsBuffer(loop) /\ Len(loop) = Len(l2) + 2 /\ Agree(l2, loop, Len(l2))
    <3>1. IsBuffer(l2) /\ IsBuffer(Bytes(m2)) BY <2>1, <2>5
    <3>2. /\ IsBuffer(l2 \o Bytes(m2)) /\ Len(l2 \o Bytes(m2)) = Len(l2) + Len(Bytes(m2))
          /\ Agree(l2, l2 \o Bytes(m2), Len(l2))
      BY <3>1, BufferCat
    <3> QED BY <3>2, <2>1, <2>4
  <2>7. /\ Len(two) \in Int /\ Len(l1) \in Int /\ Len(l2) \in Int
        /\ Len(two) <= Len(l1) /\ Len(two) <= Len(l2) /\ Len(two) <= Len(loop)
    BY <2>2, <2>3, <2>5, <2>6
  <2>8. Agree(two, l2, Len(two)) BY <2>3, <2>5, <2>7, AgreeOn
  <2>9. Agree(two, loop, Len(two)) BY <2>6, <2>7, <2>8, AgreeOn
  <2> QED BY <2>6, <2>7, <2>9
<1> HIDE DEF loop, far
<1>8. start <= Len(loop) + 1 /\ Len(loop) \in Nat /\ Len(two) \in Nat /\ start <= Len(two) + 1
  <2>1. Len(loop) \in Nat BY <1>7, BufferLen
  <2> QED BY <2>1, <1>5, <1>6, <1>7
<1>9. IsBuffer(whole) /\ Len(whole) = Len(loop) + 5 /\ Agree(loop, whole, start - 1)
  BY <1>7, <1>8, InsertOpKeeps
<1> HIDE DEF whole
<1>10. Agree(buf, two, start - 1) BY <1>4, <1>6, AgreeOn
<1>11. Agree(buf, loop, start - 1)
  <2>1. start - 1 \in Int /\ Len(two) \in Int /\ start - 1 <= Len(two) BY <1>8
  <2> QED BY <2>1, <1>7, <1>10, AgreeOn
<1>12. Agree(buf, whole, start - 1) BY <1>9, <1>11, AgreeOn
<1>13. Len(buf) < Len(jump) /\ Len(buf) < Len(two) /\ Len(buf) < Len(whole)
  BY <1>2, <1>3, <1>4, <1>6, <1>7, <1>8, <1>9
<1>14. IsBuffer(new) /\ Len(buf) < Len(new) /\ Agree(buf, new, start - 1)
  BY <1>1, <1>3, <1>6, <1>9, <1>10, <1>12, <1>13
<1> QED BY <1>14 DEF new

LEMMA IntervalSound == Sound(comp) /\ Interval => Outside(comp')
<1> SUFFICES ASSUME Sound(comp), Interval PROVE Outside(comp') OBVIOUS
<1> DEFINE bounds == Bounds(comp.p + 1)
           start  == IF comp.laststart = 0 THEN b(comp) ELSE comp.laststart
           low    == bounds.low
           high   == bounds.high
           new    == IntervalCode(comp.buf, start, low, high)
           t      == comp'
<1>1. Placed(comp) /\ comp.state = "loop" /\ DOMAIN comp = CompFields
  BY DEF Interval, Fetch, Sound, Placed, Shape
<1>2. CASE ~bounds.valid
  <2>1. t = NormalChar(Fetched, "{") BY <1>2 DEF Interval
  <2>2. Placed(Fetched) /\ Fetched.state = "loop" BY <1>1, FetchedPlaced
  <2> QED BY <2>1, <2>2, NormalCharSound DEF Outside
<1>3. CASE bounds.valid
  <2>1. t = [comp EXCEPT !.p = bounds.p, !.laststart = start, !.pending = 0, !.buf = new]
    BY <1>3 DEF Interval
  <2> HIDE DEF bounds, t
  <2>2. IsBuffer(comp.buf) BY <1>1 DEF Placed, Shape
  <2>3. /\ start \in Nat /\ comp.begalt \in Nat /\ 1 <= comp.begalt
        /\ comp.begalt <= start /\ start <= Len(comp.buf) + 1 /\ Len(comp.buf) \in Nat
    <3>1. /\ comp.begalt \in Nat /\ 1 <= comp.begalt
          /\ comp.begalt <= Len(comp.buf) + 1 /\ Len(comp.buf) \in Nat
      BY <1>1, FirstAddress
    <3>2. CASE comp.laststart = 0 BY <3>1, <3>2 DEF b
    <3>3. CASE comp.laststart # 0
      <4>1. /\ comp.begalt <= comp.laststart /\ comp.laststart <= Len(comp.buf)
            /\ comp.laststart \in Nat
        BY <1>1, <3>3 DEF Placed, LastHolds, Shape
      <4> QED BY <3>1, <3>3, <4>1
    <3> QED BY <3>2, <3>3
  <2> HIDE DEF start, low, high
  <2>4. 1 <= start BY <2>3
  <2>5. IsBuffer(new) /\ Len(comp.buf) < Len(new) /\ Agree(comp.buf, new, start - 1)
    BY <2>2, <2>3, <2>4, IntervalKeeps
  <2> HIDE DEF new
  <2>6. /\ DOMAIN t = CompFields /\ t.buf = new /\ t.stack = comp.stack
        /\ t.begalt = comp.begalt /\ t.fixup = comp.fixup /\ t.laststart = start
        /\ t.pending = 0 /\ t.regnum = comp.regnum /\ t.state = "loop"
    BY <1>1, <2>1 DEF CompFields
  <2>7. Len(new) \in Nat BY <2>5, BufferLen
  <2>8. Agree(comp.buf, new, comp.begalt - 1)
    <3>1. \A i \in 1..(comp.begalt - 1) : i \in 1..(start - 1) BY <2>3
    <3> QED BY <3>1, <2>5 DEF Agree
  <2>9. Len(comp.buf) <= Len(new) /\ start <= Len(new) BY <2>3, <2>5, <2>7
  <2>10. Shape(t) BY <1>1, <2>3, <2>5, <2>6 DEF Placed, Shape
  <2>11. Sound(t) BY <1>1, <2>3, <2>6, <2>8, <2>9, <2>10, Inserted
  <2> QED BY <2>6, <2>11 DEF Outside, t
<1> QED BY <1>2, <1>3

\* The code of the open groups is in front of what is being compiled now.
LEMMA InsideAll ==
  ASSUME NEW s, Placed(s), NEW j \in 1..Len(s.stack)
  PROVE  s.stack[j].laststart + 3 <= Here(s) /\ s.stack[j] \in Group
<1> DEFINE n == Len(s.stack)
<1>1. n \in Nat /\ s.stack \in Seq(Group) BY DEF Placed, Shape
<1>2. n \in 1..n /\ n # 0 /\ (j = n \/ j \in 1..(n - 1)) BY <1>1
<1> DEFINE g == s.stack[j]  h == s.stack[n]
<1>3. g \in Group /\ h \in Group BY <1>1, <1>2
<1>4. GroupAt(s.buf, h) BY <1>2 DEF Placed, GroupsHold
<1>5. j = n \/ g.laststart + 3 <= h.begalt BY <1>2 DEF Placed, Nested
<1>6. Here(s) = h.laststart + 3 BY <1>2 DEF Here, Inside
<1>7. j = n => g = h OBVIOUS
<1> HIDE DEF n, g, h
<1>8. g.laststart \in Nat /\ h.laststart \in Nat /\ h.begalt \in Nat BY <1>3 DEF Group
<1>9. h.begalt <= h.laststart BY <1>4 DEF GroupAt
<1>10. g.laststart + 3 <= Here(s) BY <1>5, <1>6, <1>7, <1>8, <1>9
<1> QED BY <1>3, <1>10 DEF g

LEMMA OpenGroupSound == Sound(comp) /\ OpenGroup => Outside(comp')
<1> SUFFICES ASSUME Sound(comp), OpenGroup PROVE Outside(comp') OBVIOUS
<1> DEFINE s    == Fetched
           reg  == comp.regnum + 1
           code == <<Op.start_memory, reg, 0>>
           u    == Push(s, code)
           g    == [begalt |-> comp.begalt, fixup |-> comp.fixup,
                    laststart |-> b(comp), regnum |-> reg]
           new  == s.buf \o code
           stk  == Append(s.stack, g)
           n    == Len(s.stack)
           l    == Len(s.buf)
           t    == comp'
<1>1. /\ Placed(s) /\ DOMAIN s = CompFields /\ s.buf = comp.buf
      /\ s.stack = comp.stack /\ s.begalt = comp.begalt /\ s.fixup = comp.fixup
      /\ s.regnum = comp.regnum /\ b(s) = b(comp) /\ s.state = "loop"
  BY FetchedPlaced DEF Sound, OpenGroup, Fetch
<1>2. t = [u EXCEPT !.regnum = reg, !.stack = Append(@, g), !.fixup = 0, !.laststart = 0,
                    !.begalt = b(u), !.pending = 0]
  BY DEF OpenGroup
<1>3. /\ IsBuffer(code) /\ Len(code) = 3
      /\ code[1] = Op.start_memory /\ code[2] = reg
  BY BufferOf3
<1>4. /\ g.begalt = s.begalt /\ g.fixup = s.fixup /\ g.laststart = b(s) /\ g.regnum = reg
      /\ g = [begalt |-> s.begalt, fixup |-> s.fixup, laststart |-> b(s), regnum |-> reg]
  BY <1>1
<1> HIDE DEF s, code, g
<1>5. /\ IsBuffer(s.buf) /\ l \in Nat /\ s.regnum \in Nat /\ s.begalt \in Nat /\ s.fixup \in Nat
      /\ s.stack \in Seq(Group) /\ n \in Nat
  BY <1>1, BufferLen DEF Placed, Shape
<1>6. /\ IsBuffer(new) /\ Len(new) = l + 3 /\ Agree(s.buf, new, l)
      /\ new[l + 1] = Op.start_memory /\ new[l + 2] = reg
  <2>1. /\ IsBuffer(new) /\ Len(new) = l + Len(code) /\ Agree(s.buf, new, l)
        /\ \A i \in 1..Len(code) : new[l + i] = code[i]
    <3>1. IsBuffer(s.buf) /\ IsBuffer(code) BY <1>3, <1>5
    <3> QED BY <3>1, BufferCat
  <2> HIDE DEF new, l
  <2> QED BY <2>1, <1>3
<1>7. /\ DOMAIN u = CompFields /\ u.buf = new /\ u.stack = s.stack /\ u.state = "loop"
  BY <1>1 DEF Push, CompFields
<1>8. b(u) = l + 4 /\ b(s) = l + 1
  <2>1. b(u) = Len(new) + 1 BY <1>7 DEF b
  <2> QED BY <2>1, <1>5, <1>6 DEF b
<1> HIDE DEF u
<1>9. /\ DOMAIN t = CompFields /\ t.buf = new /\ t.stack = stk /\ t.regnum = reg
      /\ t.fixup = 0 /\ t.laststart = 0 /\ t.begalt = l + 4 /\ t.pending = 0
      /\ t.state = "loop"
  BY <1>2, <1>7, <1>8 DEF CompFields
<1> HIDE DEF t, new
<1>10. g \in Group /\ reg \in Nat
  <2>1. reg \in Nat /\ b(s) \in Nat BY <1>1, <1>5, <1>8
  <2> QED BY <2>1, <1>4, <1>5 DEF Group
<1>11. /\ stk \in Seq(Group) /\ Len(stk) = n + 1 /\ stk[n + 1] = g
       /\ \A k \in 1..n : stk[k] = s.stack[k]
  BY <1>5, <1>10, AppendProperties
<1> HIDE DEF stk
<1>12. Here(s) \in Nat /\ 1 <= Here(s) /\ Here(s) <= s.begalt /\ s.begalt <= l + 1
  <2>1. Here(s) \in Nat /\ 1 <= Here(s) BY <1>5, InsideIsAddress DEF Here
  <2> QED BY <2>1, <1>1, <1>8 DEF Placed, LevelHolds, AlternativesAt
<1>13. Shape(t) BY <1>5, <1>6, <1>9, <1>10, <1>11 DEF Shape
<1>14. Nested(stk)
  <2> SUFFICES ASSUME NEW k \in 1..(n + 1), NEW j \in 1..(k - 1)
               PROVE  stk[j].laststart + 3 <= stk[k].begalt
    BY <1>11 DEF Nested
  <2>1. CASE k = n + 1
    <3>1. j \in 1..n BY <2>1, <1>5
    <3>2. s.stack[j].laststart + 3 <= Here(s) /\ s.stack[j] \in Group BY <3>1, <1>1, InsideAll
    <3>3. s.stack[j].laststart \in Nat BY <3>2 DEF Group
    <3>4. stk[j] = s.stack[j] /\ stk[k] = g BY <2>1, <3>1, <1>11
    <3> DEFINE x == s.stack[j].laststart  h == Here(s)  a == s.begalt
    <3>5. x + 3 <= h /\ x \in Nat /\ h \in Nat /\ a \in Nat /\ h <= a
      BY <3>2, <3>3, <1>5, <1>12
    <3> HIDE DEF x, h, a
    <3>6. x + 3 <= a BY <3>5
    <3>7. stk[j].laststart = x /\ stk[k].begalt = a BY <3>4, <1>4 DEF x, a
    <3> QED BY <3>6, <3>7
  <2>2. CASE k # n + 1
    <3>1. k \in 1..n /\ j \in 1..n BY <2>2, <1>5
    <3>2. s.stack[j].laststart + 3 <= s.stack[k].begalt BY <3>1, <1>1 DEF Placed, Nested
    <3> QED BY <3>1, <3>2, <1>11
  <2> QED BY <2>1, <2>2
<1>15. \A k \in 0..n : Inside(stk, k) = Inside(s.stack, k)
  <2> SUFFICES ASSUME NEW k \in 0..n PROVE Inside(stk, k) = Inside(s.stack, k) OBVIOUS
  <2>1. CASE k = 0 BY <2>1 DEF Inside
  <2>2. CASE k # 0
    <3>1. k \in 1..n BY <2>2, <1>5
    <3> QED BY <3>1, <2>2, <1>11 DEF Inside
  <2> QED BY <2>1, <2>2
<1>16. GroupsHold(new, s.stack)
  <2>1. \A i \in 1..(Here(s) - 1) : i \in 1..l BY <1>5, <1>12
  <2>2. Agree(s.buf, new, Here(s) - 1) BY <2>1, <1>6 DEF Agree
  <2>3. Len(s.buf) <= Len(new) BY <1>5, <1>6
  <2> QED BY <2>2, <2>3, <1>1, <1>6, GroupsKept DEF Placed
<1>17. AlternativesAt(new, Here(s), g) /\ GroupAt(new, g)
  <2>1. GroupAt(new, g) BY <1>4, <1>5, <1>6, <1>8, <1>12 DEF GroupAt
  <2>2. Here(s) <= g.begalt BY <1>4, <1>12
  <2>3. ASSUME g.fixup # 0
        PROVE  /\ Here(s) <= g.fixup /\ g.begalt = g.fixup + 3
               /\ new[g.fixup] \in {0, Op.jump_past_alt}
    <3>1. /\ Here(s) <= s.fixup /\ s.begalt = s.fixup + 3
          /\ s.buf[s.fixup] \in {0, Op.jump_past_alt}
      BY <2>3, <1>1, <1>4 DEF Placed, LevelHolds, AlternativesAt
    <3>2. s.fixup \in 1..l BY <3>1, <1>5, <1>12
    <3>3. new[s.fixup] = s.buf[s.fixup] BY <3>2, <1>6 DEF Agree
    <3> QED BY <3>1, <3>3, <1>4
  <2>4. AlternativesAt(new, Here(s), g) BY <2>2, <2>3 DEF AlternativesAt
  <2> QED BY <2>1, <2>4
<1>18. GroupsHold(new, stk)
  <2> SUFFICES ASSUME NEW k \in 1..(n + 1)
               PROVE  AlternativesAt(new, Inside(stk, k - 1), stk[k]) /\ GroupAt(new, stk[k])
    BY <1>11 DEF GroupsHold
  <2>1. k - 1 \in 0..n /\ (k = n + 1 \/ k \in 1..n) BY <1>5
  <2>2. Inside(stk, k - 1) = Inside(s.stack, k - 1) BY <2>1, <1>15
  <2>3. CASE k = n + 1
    <3>1. stk[k] = g BY <2>3, <1>11
    <3>2. k - 1 = n BY <2>3, <1>5
    <3>3. Inside(stk, k - 1) = Here(s) BY <2>2, <3>2 DEF Here
    <3> QED BY <3>1, <3>3, <1>17
  <2>4. CASE k \in 1..n
    <3>1. stk[k] = s.stack[k] BY <2>4, <1>11
    <3>2. AlternativesAt(new, Inside(s.stack, k - 1), s.stack[k]) /\ GroupAt(new, s.stack[k])
      BY <2>4, <1>16 DEF GroupsHold
    <3> QED BY <2>2, <3>1, <3>2
  <2> QED BY <2>1, <2>3, <2>4
<1>19. LevelHolds(t)
  <2>1. Here(t) = l + 4
    <3>1. Here(t) = Inside(stk, n + 1) BY <1>9, <1>11 DEF Here
    <3>2. Inside(stk, n + 1) = g.laststart + 3 BY <1>5, <1>11 DEF Inside
    <3> QED BY <3>1, <3>2, <1>4, <1>5, <1>8
  <2>2. t.begalt <= b(t) BY <1>5, <1>6, <1>9 DEF b
  <2> QED BY <2>1, <2>2, <1>5, <1>9 DEF LevelHolds, AlternativesAt
<1>20. LastHolds(t) /\ CountHolds(t) /\ ~AtEnd(t) BY <1>9 DEF LastHolds, CountHolds, AtEnd
<1>21. Aims(t) /\ Alone(t) BY <1>20 DEF Aims, Alone
<1>22. Sound(t) BY <1>9, <1>13, <1>14, <1>18, <1>19, <1>20, <1>21 DEF Sound, Placed
<1> QED BY <1>9, <1>22 DEF Outside, t

LEMMA EndAlternativesPlaced ==
  ASSUME NEW s, Placed(s)
  PROVE  LET t == EndAlternatives(s)
         IN  /\ Placed(t) /\ DOMAIN t = CompFields /\ t.stack = s.stack
             /\ t.begalt = s.begalt /\ t.fixup = s.fixup /\ t.regnum = s.regnum
             /\ t.state = s.state
<1> DEFINE code == <<Op.push_dummy_failure>>
           u == Push(s, code)
           to == b(u) - 1
           t == [u EXCEPT !.buf = StoreJump(@, "jump_past_alt", u.fixup, to)]
<1>1. DOMAIN s = CompFields BY DEF Placed, Shape
<1>2. CASE s.fixup = 0 BY <1>1, <1>2 DEF EndAlternatives
<1>3. CASE s.fixup # 0
  <2>1. EndAlternatives(s) = t BY <1>3 DEF EndAlternatives
  <2>2. IsBuffer(code) /\ Len(code) # 0 BY BufferOf1
  <2>3. Placed(u) BY <2>2, OpSound DEF Sound
  <2>4. /\ DOMAIN u = CompFields /\ u.stack = s.stack /\ u.begalt = s.begalt
        /\ u.fixup = s.fixup /\ u.regnum = s.regnum /\ u.state = s.state
    BY <1>1 DEF Push, CompFields
  <2> HIDE DEF u, to
  <2>5. /\ DOMAIN t = CompFields /\ t.buf = StoreJump(u.buf, "jump_past_alt", u.fixup, to)
        /\ t.stack = u.stack /\ t.begalt = u.begalt /\ t.fixup = u.fixup
        /\ t.pending = u.pending /\ t.regnum = u.regnum /\ t.laststart = u.laststart
        /\ t.state = u.state
    BY <2>4 DEF CompFields
  <2> HIDE DEF t
  <2>6. Placed(t) BY <1>3, <2>3, <2>4, <2>5, JumpStored
  <2> QED BY <2>1, <2>4, <2>5, <2>6
<1> QED BY <1>2, <1>3

\* What the enclosing group goes on with is what was remembered for it.
LEMMA GroupClosed ==
  ASSUME NEW s, NEW t, Placed(s), s.stack # <<>>, DOMAIN t = CompFields,
         t.buf = s.buf, t.stack = Front(s.stack),
         t.begalt = Last(s.stack).begalt, t.fixup = Last(s.stack).fixup,
         t.laststart = 0, t.pending = 0, t.regnum = s.regnum
  PROVE  Placed(t) /\ Last(s.stack) \in Group /\ GroupAt(s.buf, Last(s.stack))
<1> DEFINE n == Len(s.stack)
           g == Last(s.stack)
           stk == Front(s.stack)
<1>1. /\ n \in Nat /\ s.stack \in Seq(Group) /\ IsBuffer(s.buf) /\ Len(s.buf) \in Nat
      /\ s.regnum \in Nat
  BY BufferLen DEF Placed, Shape
<1>2. n # 0 /\ n \in 1..n /\ n - 1 \in 0..n /\ n - 1 \in Nat
  <2>1. n # 0 BY <1>1
  <2> QED BY <2>1, <1>1
<1>3. g = s.stack[n] /\ g \in Group BY <1>1, <1>2 DEF Last
<1>4. /\ stk \in Seq(Group) /\ Len(stk) = n - 1
      /\ \A k \in 1..(n - 1) : stk[k] = s.stack[k]
  <2>1. stk = SubSeq(s.stack, 1, n - 1) BY DEF Front
  <2>2. \A i \in 1..(n - 1) : s.stack[i] \in Group BY <1>1
  <2>3. /\ SubSeq(s.stack, 1, n - 1) \in Seq(Group)
        /\ Len(SubSeq(s.stack, 1, n - 1)) = IF 1 <= n - 1 THEN n - 1 - 1 + 1 ELSE 0
        /\ \A i \in 1..(n - 1 - 1 + 1) : SubSeq(s.stack, 1, n - 1)[i] = s.stack[1 + i - 1]
    BY <1>2, <2>2, SubSeqProperties
  <2>4. (IF 1 <= n - 1 THEN n - 1 - 1 + 1 ELSE 0) = n - 1 BY <1>2
  <2>5. n - 1 - 1 + 1 = n - 1 /\ \A i \in 1..(n - 1) : 1 + i - 1 = i BY <1>2
  <2> HIDE DEF stk, n
  <2> QED BY <2>1, <2>3, <2>4, <2>5
<1> HIDE DEF stk
<1>5. \A k \in 0..(n - 1) : Inside(stk, k) = Inside(s.stack, k)
  <2> SUFFICES ASSUME NEW k \in 0..(n - 1) PROVE Inside(stk, k) = Inside(s.stack, k) OBVIOUS
  <2>1. CASE k = 0 BY <2>1 DEF Inside
  <2>2. CASE k # 0
    <3>1. k \in 1..(n - 1) BY <2>2, <1>2
    <3> QED BY <3>1, <2>2, <1>4 DEF Inside
  <2> QED BY <2>1, <2>2
<1>6. AlternativesAt(s.buf, Inside(s.stack, n - 1), g) /\ GroupAt(s.buf, g)
  BY <1>2, <1>3 DEF Placed, GroupsHold
<1> HIDE DEF g
<1>7. /\ t.buf = s.buf /\ t.stack = stk /\ t.begalt = g.begalt /\ t.fixup = g.fixup
  BY DEF g, stk
<1>8. g.begalt \in Nat /\ g.fixup \in Nat /\ g.laststart \in Nat BY <1>3 DEF Group
<1>9. Shape(t) BY <1>1, <1>4, <1>7, <1>8 DEF Shape
<1>10. Nested(stk)
  <2> SUFFICES ASSUME NEW k \in 1..(n - 1), NEW j \in 1..(k - 1)
               PROVE  stk[j].laststart + 3 <= stk[k].begalt
    BY <1>4 DEF Nested
  <2>1. k \in 1..n /\ j \in 1..(n - 1) BY <1>2
  <2>2. s.stack[j].laststart + 3 <= s.stack[k].begalt BY <2>1 DEF Placed, Nested
  <2> QED BY <2>1, <2>2, <1>4
<1>11. GroupsHold(s.buf, stk)
  <2> SUFFICES ASSUME NEW k \in 1..(n - 1)
               PROVE  AlternativesAt(s.buf, Inside(stk, k - 1), stk[k]) /\ GroupAt(s.buf, stk[k])
    BY <1>4 DEF GroupsHold
  <2>1. k \in 1..n /\ k - 1 \in 0..(n - 1) BY <1>2
  <2>2. /\ AlternativesAt(s.buf, Inside(s.stack, k - 1), s.stack[k])
        /\ GroupAt(s.buf, s.stack[k])
    BY <2>1 DEF Placed, GroupsHold
  <2>3. stk[k] = s.stack[k] /\ Inside(stk, k - 1) = Inside(s.stack, k - 1)
    BY <2>1, <1>4, <1>5
  <2> QED BY <2>2, <2>3
<1>12. LevelHolds(t)
  <2>1. Here(t) = Inside(s.stack, n - 1)
    <3>1. Here(t) = Inside(stk, n - 1) BY <1>4, <1>7 DEF Here
    <3>2. n - 1 \in 0..(n - 1) BY <1>2
    <3> QED BY <3>1, <3>2, <1>5
  <2>2. t.begalt <= b(t) BY <1>1, <1>6, <1>7, <1>8 DEF GroupAt, b
  <2>3. AlternativesAt(t.buf, Here(t), t) BY <2>1, <1>6, <1>7 DEF AlternativesAt
  <2> QED BY <2>2, <2>3 DEF LevelHolds
<1>13. LastHolds(t) /\ CountHolds(t) /\ Aims(t) BY DEF LastHolds, CountHolds, Aims, AtEnd
<1>14. Placed(t) BY <1>7, <1>9, <1>10, <1>11, <1>12, <1>13 DEF Placed
<1> QED BY <1>3, <1>6, <1>14 DEF g

LEMMA CloseGroupSound == Sound(comp) /\ CloseGroup => Outside(comp')
<1> SUFFICES ASSUME Sound(comp), CloseGroup PROVE Outside(comp') OBVIOUS
<1> DEFINE s     == EndAlternatives(Fetched)
           top   == CompileStackTop(s)
           inner == s.regnum - top.regnum
           t     == comp'
<1>1. Placed(Fetched) /\ Fetched.state = "loop"
  BY FetchedPlaced DEF CloseGroup, Fetch, Sound
<1>2. Placed(s) /\ DOMAIN s = CompFields /\ s.state = "loop"
  BY <1>1, EndAlternativesPlaced
<1>3. CASE s.stack = <<>>
  <2>1. t = NormalChar(s, ")") BY <1>3 DEF CloseGroup
  <2> QED BY <1>2, <2>1, NormalCharSound DEF Outside
<1>4. CASE s.stack # <<>>
  <2> DEFINE code == <<Op.stop_memory, top.regnum, inner>>
             place == top.laststart + 2
             one == Write(s.buf, place, inner)
             new == one \o code
             u == [s EXCEPT !.stack = Front(@), !.begalt = top.begalt, !.fixup = top.fixup,
                            !.laststart = 0, !.pending = 0]
  <2>1. t = [s EXCEPT !.stack = Front(@), !.begalt = top.begalt, !.fixup = top.fixup,
                      !.laststart = top.laststart, !.pending = 0, !.buf = new]
    BY <1>4 DEF CloseGroup, Write
  <2>2. top = Last(s.stack) BY DEF CompileStackTop
  <2>3. IsBuffer(code) /\ Len(code) = 3 BY BufferOf3
  <2> HIDE DEF s, code, t, top
  <2>4. /\ DOMAIN u = CompFields /\ u.buf = s.buf /\ u.stack = Front(s.stack)
        /\ u.begalt = top.begalt /\ u.fixup = top.fixup
        /\ u.laststart = 0 /\ u.pending = 0 /\ u.regnum = s.regnum
    BY <1>2 DEF CompFields
  <2> HIDE DEF u
  <2>5. Placed(u) /\ top \in Group /\ GroupAt(s.buf, top)
    BY <1>2, <1>4, <2>2, <2>4, GroupClosed
  <2>6. IsBuffer(s.buf) /\ Len(s.buf) \in Nat BY <1>2, BufferLen DEF Placed, Shape
  <2> HIDE DEF inner, place
  <2>7. /\ IsBuffer(one) /\ Len(one) = Len(s.buf)
        /\ \A i \in 1..Len(s.buf) : one[i] = IF i = place THEN inner ELSE s.buf[i]
    BY <2>6, WriteKeeps
  <2> HIDE DEF one
  <2>8. IsBuffer(new) /\ Len(new) = Len(one) + Len(code) /\ Agree(one, new, Len(one))
    <3>1. IsBuffer(one) /\ IsBuffer(code) BY <2>3, <2>7
    <3> QED BY <3>1, BufferCat
  <2> HIDE DEF new
  <2>9. /\ DOMAIN t = CompFields /\ t.buf = new /\ t.stack = u.stack
        /\ t.begalt = u.begalt /\ t.fixup = u.fixup /\ t.laststart = top.laststart
        /\ t.pending = 0 /\ t.regnum = s.regnum /\ t.state = "loop"
    BY <1>2, <2>1, <2>4 DEF CompFields
  <2>10. /\ top.begalt \in Nat /\ top.laststart \in Nat /\ top.begalt <= top.laststart
         /\ top.laststart + 2 <= Len(s.buf)
    BY <2>5 DEF Group, GroupAt
  <2>11. Agree(u.buf, new, u.begalt - 1)
    <3> SUFFICES ASSUME NEW i \in 1..(top.begalt - 1) PROVE new[i] = s.buf[i]
      BY <2>4 DEF Agree
    <3>1. i \in 1..Len(s.buf) /\ i # place BY <2>6, <2>10 DEF place
    <3> QED BY <3>1, <2>7, <2>8 DEF Agree
  <2>12. Len(u.buf) <= Len(new) /\ top.laststart <= Len(new)
    BY <2>3, <2>4, <2>6, <2>7, <2>8, <2>10
  <2>13. Shape(t)
    <3>1. s.regnum \in Nat BY <1>2 DEF Placed, Shape
    <3> QED BY <3>1, <2>5, <2>8, <2>9, <2>10 DEF Placed, Shape
  <2>14. Sound(t) BY <2>4, <2>5, <2>9, <2>10, <2>11, <2>12, <2>13, Inserted
  <2> QED BY <2>9, <2>14 DEF Outside, t
<1> QED BY <1>3, <1>4

\* Room is left for the jump at the end of an alternative, and the next one
\* begins behind it.
LEMMA AlternativeStarts ==
  ASSUME NEW s, NEW t, Placed(s), DOMAIN t = CompFields, t.buf = s.buf \o <<0, 0, 0>>,
         t.stack = s.stack, t.regnum = s.regnum, t.fixup = b(s), t.begalt = b(s) + 3,
         t.laststart = 0, t.pending = 0
  PROVE  Sound(t)
<1> DEFINE room == <<0, 0, 0>>
           l == Len(s.buf)
<1>1. /\ IsBuffer(s.buf) /\ l \in Nat /\ s.stack \in Seq(Group) /\ s.regnum \in Nat
      /\ b(s) = l + 1
  BY BufferLen DEF Placed, Shape, b
<1>2. IsBuffer(room) /\ Len(room) = 3 /\ room[1] = 0 BY BufferOf3
<1>3. t.buf = s.buf \o room OBVIOUS
<1> HIDE DEF room
<1>4. /\ IsBuffer(s.buf \o room) /\ Len(s.buf \o room) = l + Len(room)
      /\ Agree(s.buf, s.buf \o room, l)
      /\ \A i \in 1..Len(room) : (s.buf \o room)[l + i] = room[i]
  <2>1. IsBuffer(s.buf) /\ IsBuffer(room) BY <1>1, <1>2
  <2> QED BY <2>1, BufferCat
<1> HIDE DEF l
<1>5. /\ IsBuffer(t.buf) /\ Len(t.buf) = l + 3 /\ Agree(s.buf, t.buf, l)
      /\ t.buf[l + 1] = 0
  <2>1. 1 \in 1..Len(room) BY <1>2
  <2>2. (s.buf \o room)[l + 1] = room[1] BY <2>1, <1>4
  <2> HIDE DEF l
  <2>3. IsBuffer(t.buf) /\ Len(t.buf) = l + Len(room) /\ Agree(s.buf, t.buf, l)
    BY <1>3, <1>4
  <2> QED BY <2>2, <2>3, <1>2, <1>3
<1>6. Here(s) \in Nat /\ 1 <= Here(s) /\ Here(s) <= l + 1 /\ Here(t) = Here(s)
  <2>1. Here(s) \in Nat /\ 1 <= Here(s) BY <1>1, InsideIsAddress DEF Here
  <2>2. Here(s) <= s.begalt /\ s.begalt <= l + 1 /\ s.begalt \in Nat
    BY <1>1 DEF Placed, LevelHolds, AlternativesAt, Shape
  <2> QED BY <1>1, <2>1, <2>2 DEF Here
<1>7. Shape(t) BY <1>1, <1>5 DEF Shape
<1>8. GroupsHold(t.buf, t.stack)
  <2>1. \A i \in 1..(Here(s) - 1) : i \in 1..l BY <1>1, <1>6
  <2>2. Agree(s.buf, t.buf, Here(s) - 1) BY <2>1, <1>5 DEF Agree
  <2>3. Len(s.buf) <= Len(t.buf) BY <1>1, <1>5 DEF l
  <2>4. GroupsHold(t.buf, s.stack) BY <2>2, <2>3, <1>5, GroupsKept DEF Placed
  <2> QED BY <2>4
<1>9. LevelHolds(t)
  <2>1. t.begalt = l + 4 /\ t.fixup = l + 1 /\ b(t) = l + 4 BY <1>1, <1>5 DEF b
  <2>2. t.buf[t.fixup] = 0 BY <2>1, <1>5
  <2>3. /\ Here(t) <= t.begalt /\ Here(t) <= t.fixup /\ t.begalt = t.fixup + 3
        /\ t.begalt <= b(t)
    BY <2>1, <1>1, <1>6
  <2> QED BY <2>2, <2>3 DEF LevelHolds, AlternativesAt
<1>10. LastHolds(t) /\ CountHolds(t) /\ ~AtEnd(t) BY DEF LastHolds, CountHolds, AtEnd
<1>11. Aims(t) /\ Alone(t) BY <1>10 DEF Aims, Alone
<1>12. Nested(t.stack) BY DEF Placed
<1> QED BY <1>7, <1>8, <1>9, <1>10, <1>11, <1>12 DEF Sound, Placed

LEMMA AlternativeSound == Sound(comp) /\ Alternative => Outside(comp')
<1> SUFFICES ASSUME Sound(comp), Alternative PROVE Outside(comp') OBVIOUS
<1> DEFINE f   == Fetched
           far == b(comp) + 6
           s   == [f EXCEPT !.buf = InsertJump(@, "on_failure_jump", comp.begalt, far)]
           s0  == [s EXCEPT !.laststart = 0, !.pending = 0]
           t   == IF s.fixup = 0 THEN s
                  ELSE [s EXCEPT !.buf = StoreJump(@, "jump_past_alt", s.fixup, b(s))]
           t0  == [t EXCEPT !.laststart = 0, !.pending = 0]
           u   == Push(t, <<0, 0, 0>>)
           v   == comp'
<1>1. /\ Placed(f) /\ DOMAIN f = CompFields /\ f.buf = comp.buf /\ f.stack = comp.stack
      /\ f.begalt = comp.begalt /\ f.fixup = comp.fixup /\ f.regnum = comp.regnum
      /\ f.state = "loop"
  BY FetchedPlaced DEF Sound, Alternative, Fetch
<1>2. v = [u EXCEPT !.fixup = b(t), !.laststart = 0, !.begalt = b(u), !.pending = 0]
  BY DEF Alternative
<1>3. s = [f EXCEPT !.buf = InsertJump(@, "on_failure_jump", f.begalt, far)] BY <1>1
<1> DEFINE new == InsertJump(f.buf, "on_failure_jump", f.begalt, far)
<1> HIDE DEF f, far, s, t, u, v
<1>4. /\ f.begalt \in Nat /\ 1 <= f.begalt /\ f.begalt <= Len(f.buf) + 1
      /\ Len(f.buf) \in Nat /\ IsBuffer(f.buf)
  BY <1>1, FirstAddress DEF Placed, Shape
<1>5. IsBuffer(new) /\ Len(new) = Len(f.buf) + 3 /\ Agree(f.buf, new, f.begalt - 1)
  BY <1>4, InsertOpKeeps
<1>6. /\ DOMAIN s = CompFields /\ s.buf = new /\ s.stack = f.stack /\ s.begalt = f.begalt
      /\ s.fixup = f.fixup /\ s.regnum = f.regnum /\ s.state = "loop"
  BY <1>1, <1>3 DEF CompFields
<1> HIDE DEF new
<1>7. /\ DOMAIN s0 = CompFields /\ s0.buf = s.buf /\ s0.stack = s.stack
      /\ s0.begalt = s.begalt /\ s0.fixup = s.fixup /\ s0.regnum = s.regnum
      /\ s0.laststart = 0 /\ s0.pending = 0 /\ s0.state = s.state
  BY <1>6 DEF CompFields
<1> HIDE DEF s0
<1>8. Placed(s0)
  <2>1. Shape(s0) BY <1>1, <1>5, <1>6, <1>7 DEF Placed, Shape
  <2>2. Len(f.buf) <= Len(s0.buf) BY <1>4, <1>5, <1>6, <1>7
  <2>3. Agree(f.buf, s0.buf, f.begalt - 1) BY <1>5, <1>6, <1>7
  <2> QED BY <1>1, <1>6, <1>7, <2>1, <2>2, <2>3, Inserted DEF Sound
<1>9. /\ Placed(t0) /\ DOMAIN t = CompFields /\ t0.buf = t.buf /\ t0.stack = t.stack
      /\ t0.regnum = t.regnum /\ t.state = "loop"
  <2>1. CASE s.fixup = 0
    <3>1. t = s BY <2>1 DEF t
    <3>2. t0 = s0 BY <3>1 DEF s0
    <3> QED BY <3>1, <3>2, <1>6, <1>7, <1>8
  <2>2. CASE s.fixup # 0
    <3> DEFINE to == b(s)
               w == [s EXCEPT !.buf = StoreJump(@, "jump_past_alt", s.fixup, to)]
               w0 == [w EXCEPT !.laststart = 0, !.pending = 0]
    <3>1. t = w BY <2>2 DEF t
    <3> HIDE DEF to
    <3>2. /\ DOMAIN w = CompFields /\ w.buf = StoreJump(s.buf, "jump_past_alt", s.fixup, to)
          /\ w.stack = s.stack /\ w.begalt = s.begalt /\ w.fixup = s.fixup
          /\ w.regnum = s.regnum /\ w.state = s.state
      BY <1>6 DEF CompFields
    <3> HIDE DEF w
    <3>3. /\ DOMAIN w0 = CompFields /\ w0.buf = w.buf /\ w0.stack = w.stack
          /\ w0.begalt = w.begalt /\ w0.fixup = w.fixup /\ w0.regnum = w.regnum
          /\ w0.state = w.state /\ w0.laststart = 0 /\ w0.pending = 0
      BY <3>2 DEF CompFields
    <3>4. t0 = w0 BY <3>1
    <3> HIDE DEF w0, t0
    <3>5. w0.buf = StoreJump(s0.buf, "jump_past_alt", s0.fixup, to) BY <1>7, <3>2, <3>3
    <3>6. s0.fixup # 0 BY <2>2, <1>7
    <3>7. /\ w0.stack = s0.stack /\ w0.begalt = s0.begalt /\ w0.fixup = s0.fixup
          /\ w0.pending = s0.pending /\ w0.regnum = s0.regnum
          /\ w0.laststart = s0.laststart /\ w0.state = s0.state /\ DOMAIN w0 = CompFields
      BY <1>7, <3>2, <3>3
    <3>8. Placed(w0) BY <1>8, <3>5, <3>6, <3>7, JumpStored
    <3> QED BY <1>6, <3>1, <3>2, <3>3, <3>4, <3>8
  <2> QED BY <2>1, <2>2
<1>10. /\ DOMAIN u = CompFields /\ u.buf = t.buf \o <<0, 0, 0>> /\ u.stack = t.stack
       /\ u.regnum = t.regnum /\ u.state = "loop"
  BY <1>9 DEF u, Push, CompFields
<1>11. b(t0) = b(t) /\ b(u) = b(t) + 3
  <2>1. b(t0) = b(t) BY <1>9 DEF b
  <2>2. IsBuffer(t.buf)
    <3>1. IsBuffer(t0.buf) BY <1>9 DEF Placed, Shape
    <3> QED BY <3>1, <1>9
  <2>3. IsBuffer(<<0, 0, 0>>) /\ Len(<<0, 0, 0>>) = 3 BY BufferOf3
  <2>4. Len(t.buf \o <<0, 0, 0>>) = Len(t.buf) + Len(<<0, 0, 0>>) BY <2>2, <2>3, BufferCat
  <2>5. Len(t.buf) \in Nat BY <2>2, BufferLen
  <2>6. Len(u.buf) = Len(t.buf) + 3 BY <1>10, <2>3, <2>4
  <2> QED BY <2>1, <2>5, <2>6 DEF b
<1> HIDE DEF t0
<1>12. /\ DOMAIN v = CompFields /\ v.buf = t0.buf \o <<0, 0, 0>> /\ v.stack = t0.stack
       /\ v.regnum = t0.regnum /\ v.fixup = b(t0) /\ v.begalt = b(t0) + 3
       /\ v.laststart = 0 /\ v.pending = 0 /\ v.state = "loop"
  <2>1. /\ DOMAIN v = CompFields /\ v.buf = u.buf /\ v.stack = u.stack
        /\ v.regnum = u.regnum /\ v.fixup = b(t) /\ v.begalt = b(u)
        /\ v.laststart = 0 /\ v.pending = 0 /\ v.state = "loop"
    BY <1>2, <1>10 DEF CompFields
  <2>2. v.buf = t0.buf \o <<0, 0, 0>> BY <2>1, <1>9, <1>10
  <2> QED BY <2>1, <2>2, <1>9, <1>10, <1>11
<1>13. Sound(v) BY <1>9, <1>12, AlternativeStarts
<1> QED BY <1>12, <1>13 DEF Outside, v

LEMMA FinishSound == Sound(comp) /\ Finish => Outside(comp')
<1> SUFFICES ASSUME Sound(comp), Finish PROVE Outside(comp') OBVIOUS
<1> DEFINE to == b(comp)
           t == [comp EXCEPT !.buf = StoreJump(@, "jump_past_alt", comp.fixup, to)]
           code == IF comp.stack = <<>> THEN "REG_NOERROR" ELSE "REG_EPAREN"
<1>1. Placed(comp) /\ DOMAIN comp = CompFields BY DEF Sound, Placed, Shape
<1>2. CASE comp.fixup = 0
  <2>1. comp' = Return(comp, code) BY <1>2 DEF Finish
  <2> QED BY <1>1, <2>1, ReturnSound DEF Outside
<1>3. CASE comp.fixup # 0
  <2>1. comp' = Return(t, code) BY <1>3 DEF Finish
  <2> HIDE DEF to, code
  <2>2. /\ DOMAIN t = CompFields
        /\ t.buf = StoreJump(comp.buf, "jump_past_alt", comp.fixup, to)
        /\ t.stack = comp.stack /\ t.begalt = comp.begalt /\ t.fixup = comp.fixup
        /\ t.pending = comp.pending /\ t.regnum = comp.regnum
        /\ t.laststart = comp.laststart /\ t.state = comp.state
    BY <1>1 DEF CompFields
  <2> HIDE DEF t
  <2>3. Placed(t) BY <1>1, <1>3, <2>2, JumpStored
  <2> QED BY <2>1, <2>3, ReturnSound DEF Outside
<1> QED BY <1>2, <1>3

-----------------------------------------------------------------------------
(***************************************************************************)
(* The objects that compile.                                               *)
(***************************************************************************)

CompilerHolds == Sound(comp) /\ BracketHolds(comp) /\ pattern \in Seq(Symbols)

LEMMA CompileStepSound ==
  CompilerHolds /\ CompileStep => Sound(comp') /\ BracketHolds(comp')
<1> SUFFICES ASSUME CompilerHolds, CompileStep
             PROVE  Sound(comp') /\ BracketHolds(comp')
  OBVIOUS
<1>1. Sound(comp) /\ BracketHolds(comp) /\ pattern \in Seq(Symbols) BY DEF CompilerHolds
<1>2. CASE BracketItem BY <1>1, <1>2, BracketItemSound
<1>3. CASE OpenBracket BY <1>1, <1>3, OpenBracketSound
<1>4. CASE ~BracketItem /\ ~OpenBracket
  <2>1. \/ Literal \/ Anchor \/ AnyChar \/ Repetition \/ OpenGroup \/ CloseGroup
        \/ Alternative \/ Interval \/ Backslash \/ Finish
    BY <1>4 DEF CompileStep
  <2>2. Outside(comp')
    BY <1>1, <2>1, LiteralSound, AnchorSound, AnyCharSound, RepetitionSound, OpenGroupSound,
       CloseGroupSound, AlternativeSound, IntervalSound, BackslashSound, FinishSound
  <2> QED BY <2>2 DEF Outside, BracketHolds
<1> QED BY <1>2, <1>3, <1>4

\* The state that regex_compile begins with.
LEMMA InitSound == Sound(CompileInit) /\ BracketHolds(CompileInit)
<1> DEFINE s == CompileInit
<1>1. /\ DOMAIN s = CompFields /\ s.state = "loop" /\ s.buf = <<>> /\ s.stack = <<>>
      /\ s.begalt = 1 /\ s.fixup = 0 /\ s.laststart = 0 /\ s.pending = 0 /\ s.regnum = 0
  BY DEF CompileInit, CompFields
<1> HIDE DEF s
<1>2. Shape(s)
  <2>1. IsBuffer(<<>>) /\ <<>> \in Seq(Group) BY DEF IsBuffer
  <2> QED BY <1>1, <2>1 DEF Shape
<1>3. Len(s.buf) = 0 /\ Len(s.stack) = 0 BY <1>1
<1>4. Nested(s.stack) /\ GroupsHold(s.buf, s.stack) BY <1>3 DEF Nested, GroupsHold
<1>5. LevelHolds(s) BY <1>1, <1>3 DEF LevelHolds, AlternativesAt, Here, Inside, b
<1>6. LastHolds(s) /\ CountHolds(s) /\ ~AtEnd(s) BY <1>1 DEF LastHolds, CountHolds, AtEnd
<1>7. Aims(s) /\ Alone(s) BY <1>6 DEF Aims, Alone
<1>8. BracketHolds(s) BY <1>1 DEF BracketHolds
<1> QED BY <1>2, <1>4, <1>5, <1>6, <1>7, <1>8 DEF Sound, Placed, s

LEMMA CompilerInit == ObjectsInit => CompilerHolds
BY InitSound DEF ObjectsInit, Constructed, CompilerHolds

LEMMA CompilerNext == CompilerHolds /\ [ObjectsNext]_regexpVars => CompilerHolds'
<1> SUFFICES ASSUME CompilerHolds, [ObjectsNext]_regexpVars PROVE CompilerHolds' OBVIOUS
<1>1. CASE Compile
  <2>1. CompileStep /\ pattern' = pattern
    BY <1>1 DEF Compile, CompileStep, Literal, Anchor, AnyChar, Repetition, OpenBracket,
                BracketItem, OpenGroup, CloseGroup, Alternative, Interval, Backslash, Finish
  <2>2. Sound(comp') /\ BracketHolds(comp') BY <2>1, CompileStepSound
  <2>3. Sound(comp)' BY <2>1, <2>2 DEF Sound, Alone, At
  <2>4. BracketHolds(comp)' BY <2>2 DEF BracketHolds
  <2> QED BY <2>1, <2>3, <2>4 DEF CompilerHolds
<1>2. ASSUME NEW pat \in Seq(Symbols), Construct(pat) PROVE CompilerHolds'
  <2>1. comp' = CompileInit /\ pattern' \in Seq(Symbols) BY <1>2 DEF Construct
  <2>2. Placed(CompileInit) /\ BracketHolds(CompileInit) BY InitSound DEF Sound
  <2>3. CompileInit.pending = 0 BY DEF CompileInit
  <2>4. Alone(comp)' BY <2>1, <2>3 DEF Alone, AtEnd
  <2>5. Placed(comp)' /\ BracketHolds(comp)' BY <2>1, <2>2
  <2> QED BY <2>1, <2>4, <2>5 DEF CompilerHolds, Sound
<1>3. CASE UNCHANGED <<pattern, comp>>
  <2>1. Sound(comp)' BY <1>3 DEF CompilerHolds, Sound, Alone, At
  <2> QED BY <1>3, <2>1 DEF CompilerHolds
<1>4. \/ Compile \/ UNCHANGED <<pattern, comp>>
      \/ \E pat \in Seq(Symbols) : Construct(pat)
  BY DEF ObjectsNext, RegexpStep, Run, Match, regexpVars
<1> QED BY <1>1, <1>2, <1>3, <1>4

\* The addresses that regex_compile keeps while it inserts bytes into the
\* code stay those of what they were taken for, for every pattern: the
\* open groups, their alternatives and the places for their jumps, what a
\* repetition would repeat, and the count of the characters collected.
THEOREM AddressesAreKept == Objects => []AddressesHold
<1>1. Objects => []CompilerHolds BY CompilerInit, CompilerNext, PTL DEF Objects
<1>2. CompilerHolds => AddressesHold BY SoundSaysIt DEF CompilerHolds
<1> QED BY <1>1, <1>2, PTL

\* A repetition after a character is compiled for that character alone,
\* whatever the pattern has before it.
THEOREM CharactersRepeatAlone == Objects => []RepeatsOneCharacter
<1>1. Objects => []CompilerHolds BY CompilerInit, CompilerNext, PTL DEF Objects
<1>2. CompilerHolds => RepeatsOneCharacter BY SoundSaysIt DEF CompilerHolds
<1> QED BY <1>1, <1>2, PTL

-----------------------------------------------------------------------------
(***************************************************************************)
(* The objects whose pattern was rejected.                                 *)
(***************************************************************************)

LEMMA OpsAreCodes == \A i \in 1..29 : Op[Opcodes[i]] # Garbage
<1> SUFFICES ASSUME NEW i \in 1..29 PROVE Op[Opcodes[i]] # Garbage OBVIOUS
<1>1. DOMAIN Opcodes = 1..29 BY DEF Opcodes
<1> DEFINE o == Opcodes[i]
           n == CHOOSE k \in DOMAIN Opcodes : Opcodes[k] = o
<1>2. o \in Range(Opcodes) BY <1>1 DEF Range
<1>3. \E k \in DOMAIN Opcodes : Opcodes[k] = o BY <1>1
<1>4. n \in DOMAIN Opcodes BY <1>3
<1>5. Op[o] = n - 1 BY <1>2 DEF Op
<1> HIDE DEF n, o
<1> QED BY <1>1, <1>4, <1>5 DEF Garbage, o

LEMMA NoGarbageOp ==
  \A o \in {"no_op", "exactn", "anychar", "charset", "charset_not", "start_memory",
            "stop_memory", "duplicate", "begline", "endline", "begbuf", "endbuf", "jump",
            "jump_past_alt", "on_failure_jump", "maybe_pop_jump", "pop_failure_jump",
            "dummy_failure_jump", "push_dummy_failure", "succeed_n", "jump_n",
            "set_number_at", "wordchar", "notwordchar", "wordbeg", "wordend", "wordbound",
            "notwordbound"} : Op[o] # Garbage
<1>1. /\ Opcodes[1] = "no_op" /\ Opcodes[2] = "exactn" /\ Opcodes[3] = "anychar"
      /\ Opcodes[4] = "charset" /\ Opcodes[5] = "charset_not" /\ Opcodes[6] = "start_memory"
      /\ Opcodes[7] = "stop_memory" /\ Opcodes[8] = "duplicate" /\ Opcodes[9] = "begline"
      /\ Opcodes[10] = "endline" /\ Opcodes[11] = "begbuf" /\ Opcodes[12] = "endbuf"
      /\ Opcodes[13] = "jump" /\ Opcodes[14] = "jump_past_alt"
      /\ Opcodes[15] = "on_failure_jump" /\ Opcodes[17] = "pop_failure_jump"
      /\ Opcodes[18] = "maybe_pop_jump" /\ Opcodes[19] = "dummy_failure_jump"
      /\ Opcodes[20] = "push_dummy_failure" /\ Opcodes[21] = "succeed_n"
      /\ Opcodes[22] = "jump_n" /\ Opcodes[23] = "set_number_at" /\ Opcodes[24] = "wordchar"
      /\ Opcodes[25] = "notwordchar" /\ Opcodes[26] = "wordbeg" /\ Opcodes[27] = "wordend"
      /\ Opcodes[28] = "wordbound" /\ Opcodes[29] = "notwordbound"
  BY DEF Opcodes
<1> QED BY <1>1, OpsAreCodes

\* A match of an object that has no code: as it begins, accepted, returned.
Begun == MatchInit(<<>>, comp.regnum, 0)
Ended == [Accept(Begun) EXCEPT !.state = "returned"]

RejectedHolds ==
    /\ comp.regnum \in Nat
    /\ str \in Seq(Range(ASCII))
    /\ comp.state # "done" => m = Unused
    /\ comp.state = "done" /\ comp.ret # "REG_NOERROR" =>
          m \in {Unused, Begun, Accept(Begun), Ended}

\* The fields of those states that tell them apart.
LEMMA FieldsOfEmpty ==
  /\ Unused.state = "unused"
  /\ Begun.state = "match" /\ Begun.buf = <<>> /\ Begun.p = 1 /\ Begun.stack = <<>>
  /\ Begun.best = <<>>
  /\ Accept(Begun).state = "done" /\ Accept(Begun).ret = "match" /\ Accept(Begun).buf = <<>>
  /\ Ended.state = "returned" /\ Ended.ret = "match" /\ Ended.buf = <<>>
  /\ Ended.pos = 0 /\ Ended.d = 0
  /\ Ended.start = [r \in 1..comp.regnum |-> REG_UNSET_VALUE]
BY DEF Unused, Begun, Ended, Accept, MatchInit

\* Without code there is nothing to execute: the end of the pattern is
\* where it begins.
LEMMA EmptyRuns ==
  ASSUME MatchStep, m \in {Unused, Begun, Accept(Begun), Ended}
  PROVE  m' \in {Accept(Begun), Ended}
<1>1. CASE m = Begun
  <2>1. m.state = "match" /\ m.buf = <<>> /\ m.p = 1 /\ m.stack = <<>> /\ m.best = <<>>
    BY <1>1, FieldsOfEmpty
  <2>2. \A op : Executes(op) => Op[op] = Garbage BY <2>1 DEF Executes, Is, Byte
  <2>3. EndOfPattern
    BY <2>1, <2>2, NoGarbageOp, Zenon
    DEF MatchStep, NoOp, ExactN, MatchOneChar, Place, Duplicate, StartMemory, StopMemory,
        OnFailureJump, MaybePopJump, PopFailureJump, UnconditionalJump, DummyFailureJump,
        PushDummyFailure, SucceedN, JumpN, SetNumberAt, TakeFailurePoint, Advance, Found
  <2>4. m' = Accept(m) BY <2>1, <2>3 DEF EndOfPattern
  <2> QED BY <1>1, <2>4
<1>2. CASE m \in {Unused, Ended}
  <2>1. m.state \in {"unused", "returned"} BY <1>2, FieldsOfEmpty
  <2> QED
    BY <2>1 DEF MatchStep, NoOp, ExactN, MatchOneChar, Place, Duplicate, StartMemory, StopMemory,
        OnFailureJump, MaybePopJump, PopFailureJump, UnconditionalJump, DummyFailureJump,
        PushDummyFailure, SucceedN, JumpN, SetNumberAt, TakeFailurePoint, Advance, Found,
        EndOfPattern, Executes
<1>3. CASE m = Accept(Begun)
  <2>1. m.state = "done" /\ m.ret = "match" BY <1>3, FieldsOfEmpty
  <2>2. Found
    BY <2>1 DEF MatchStep, NoOp, ExactN, MatchOneChar, Place, Duplicate, StartMemory, StopMemory,
        OnFailureJump, MaybePopJump, PopFailureJump, UnconditionalJump, DummyFailureJump,
        PushDummyFailure, SucceedN, JumpN, SetNumberAt, TakeFailurePoint, Advance,
        EndOfPattern, Executes
  <2> QED BY <1>3, <2>2 DEF Found, Ended
<1> QED BY <1>1, <1>2, <1>3

LEMMA MatchFrame == MatchStep => str' = str /\ m.state \in {"match", "fail", "done"}
<1> SUFFICES ASSUME MatchStep PROVE str' = str /\ m.state \in {"match", "fail", "done"}
  OBVIOUS
<1>1. str' = str
  BY DEF MatchStep, NoOp, ExactN, MatchOneChar, Place, Duplicate, StartMemory, StopMemory,
        OnFailureJump, MaybePopJump, PopFailureJump, UnconditionalJump, DummyFailureJump,
        PushDummyFailure, SucceedN, JumpN, SetNumberAt, TakeFailurePoint, Advance, Found,
        EndOfPattern
<1>2. m.state \in {"match", "fail", "done"}
  BY DEF MatchStep, NoOp, ExactN, MatchOneChar, Place, Duplicate, StartMemory, StopMemory,
        OnFailureJump, MaybePopJump, PopFailureJump, UnconditionalJump, DummyFailureJump,
        PushDummyFailure, SucceedN, JumpN, SetNumberAt, TakeFailurePoint, Advance, Found,
        EndOfPattern, Executes
<1> QED BY <1>1, <1>2

LEMMA RejectedInit == ObjectsInit => RejectedHolds
<1> SUFFICES ASSUME ObjectsInit PROVE RejectedHolds OBVIOUS
<1>1. comp = CompileInit /\ str = <<>> /\ m = Unused BY DEF ObjectsInit, Constructed
<1>2. comp.regnum = 0 BY <1>1 DEF CompileInit
<1>3. <<>> \in Seq(Range(ASCII)) OBVIOUS
<1> QED BY <1>1, <1>2, <1>3 DEF RejectedHolds

LEMMA RejectedNext ==
  CompilerHolds /\ CompilerHolds' /\ RejectedHolds /\ [ObjectsNext]_regexpVars => RejectedHolds'
<1> SUFFICES ASSUME CompilerHolds, CompilerHolds', RejectedHolds, [ObjectsNext]_regexpVars
             PROVE  RejectedHolds'
  OBVIOUS
<1>1. comp'.regnum \in Nat BY DEF CompilerHolds, Sound, Placed, Shape
<1>2. CASE Compile
  <2>1. comp.state # "done"
    BY <1>2 DEF Compile, CompileStep, Literal, Anchor, AnyChar, Repetition, OpenBracket,
                BracketItem, OpenGroup, CloseGroup, Alternative, Interval, Backslash, Finish,
                Fetch
  <2>2. m' = Unused /\ str' = str BY <1>2, <2>1 DEF Compile, RejectedHolds
  <2>3. Unused' = Unused BY DEF Unused, MatchInit
  <2> QED BY <1>1, <2>2, <2>3 DEF RejectedHolds
<1>3. ASSUME NEW pat \in Seq(Symbols), Construct(pat) PROVE RejectedHolds'
  <2>1. m' = Unused /\ str' = <<>> BY <1>3 DEF Construct
  <2>2. Unused' = Unused BY DEF Unused, MatchInit
  <2>3. <<>> \in Seq(Range(ASCII)) OBVIOUS
  <2> QED BY <1>1, <2>1, <2>2, <2>3 DEF RejectedHolds
<1>4. ASSUME NEW s \in Seq(Range(ASCII)), Match(s) PROVE RejectedHolds'
  <2>1. comp.state = "done" /\ comp' = comp /\ str' = s BY <1>4 DEF Match, Idle
  <2>2. ASSUME comp.ret # "REG_NOERROR" PROVE m' = Begun
    <3>1. m \in {Unused, Begun, Accept(Begun), Ended} BY <2>1, <2>2 DEF RejectedHolds
    <3>2. (IF m.state = "unused" THEN Compiled ELSE m.buf) = <<>>
      <4>1. Compiled = <<>> BY <2>2 DEF Compiled
      <4>2. m = Unused => m.state = "unused" BY FieldsOfEmpty
      <4>3. m # Unused => m.buf = <<>> BY <3>1, FieldsOfEmpty
      <4> QED BY <4>1, <4>2, <4>3
    <3>3. m' = MatchInit(IF m.state = "unused" THEN Compiled ELSE m.buf, comp.regnum, 0)
      BY <1>4 DEF Match
    <3> QED BY <3>2, <3>3 DEF Begun
  <2>3. Begun' = Begun BY <2>1 DEF Begun, MatchInit
  <2> QED BY <1>1, <2>1, <2>2, <2>3 DEF RejectedHolds
<1>5. CASE Run
  <2>1. MatchStep /\ comp' = comp BY <1>5 DEF Run
  <2>2. str' = str /\ m.state \in {"match", "fail", "done"} BY <2>1, MatchFrame
  <2>3. comp.state = "done" BY <2>2, FieldsOfEmpty DEF RejectedHolds
  <2>4. Accept(Begun)' = Accept(Begun) /\ Ended' = Ended
    BY <2>1 DEF Begun, Ended, Accept, MatchInit
  <2>5. comp.ret # "REG_NOERROR" => m' \in {Accept(Begun), Ended}
    BY <2>1, <2>3, EmptyRuns DEF RejectedHolds
  <2> QED BY <1>1, <2>1, <2>2, <2>3, <2>4, <2>5 DEF RejectedHolds
<1>6. CASE UNCHANGED regexpVars
  <2>1. comp' = comp /\ str' = str /\ m' = m BY <1>6 DEF regexpVars
  <2>2. /\ Unused' = Unused /\ Begun' = Begun /\ Accept(Begun)' = Accept(Begun)
        /\ Ended' = Ended
    BY <2>1 DEF Unused, Begun, Ended, Accept, MatchInit
  <2> QED BY <2>1, <2>2 DEF RejectedHolds
<1> QED BY <1>2, <1>3, <1>4, <1>5, <1>6 DEF ObjectsNext, RegexpStep

\* An object whose pattern is no expression matches every string, at its
\* start and with no part of it: whatever was compiled before the error is
\* never run, in the first match as in any later one.
THEOREM RejectedMatchesNothing == Objects => []RejectedIsEmpty
<1>1. ASSUME RejectedHolds PROVE RejectedIsEmpty
  <2> SUFFICES ASSUME comp.ret # "REG_NOERROR", Returned
               PROVE  Succeeded /\ \A i \in 0..(nmatch - 1) : Part(i) = <<>>
    BY DEF RejectedIsEmpty
  <2>1. m.state = "returned" BY DEF Returned
  <2>2. m = Ended
    <3>1. comp.state = "done" BY <1>1, <2>1, FieldsOfEmpty DEF RejectedHolds
    <3>2. m \in {Unused, Begun, Accept(Begun), Ended} BY <1>1, <3>1 DEF RejectedHolds
    <3> QED BY <2>1, <3>2, FieldsOfEmpty
  <2>3. /\ m.ret = "match" /\ m.pos = 0 /\ m.d = 0
        /\ m.start = [r \in 1..comp.regnum |-> REG_UNSET_VALUE]
    BY <2>2, FieldsOfEmpty
  <2>4. ASSUME NEW i \in 0..(nmatch - 1) PROVE Part(i) = <<>>
    <3>1. CASE i = 0
      <4>1. matches[0] = <<0, 0>> BY <2>3, <3>1 DEF matches
      <4>2. SubSeq(str, 0 + 1, 0) = <<>>
        <5>1. str \in Seq(Range(ASCII)) BY <1>1 DEF RejectedHolds
        <5>2. /\ SubSeq(str, 1, 0) \in Seq(Range(ASCII)) /\ Len(SubSeq(str, 1, 0)) = 0
          BY <5>1, SubSeqProperties
        <5> QED BY <5>2, EmptySeq
      <4> QED BY <3>1, <4>1, <4>2 DEF Part
    <3>2. CASE i # 0
      <4>1. i \in Groups => m.start[i] = REG_UNSET_VALUE BY <2>3 DEF Groups
      <4>2. matches[i] = <<-1, -1>> BY <3>2, <4>1 DEF matches
      <4> QED BY <4>2 DEF Part
    <3> QED BY <3>1, <3>2
  <2> QED BY <2>1, <2>3, <2>4 DEF Succeeded, Returned
<1>2. Objects => []CompilerHolds BY CompilerInit, CompilerNext, PTL DEF Objects
<1>3. RejectedHolds => RejectedIsEmpty BY <1>1
<1> QED BY <1>2, <1>3, RejectedInit, RejectedNext, PTL DEF Objects
=============================================================================
