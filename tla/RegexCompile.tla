---------------------------- MODULE RegexCompile ----------------------------
(***************************************************************************)
(* regex_compile of hl/regex.c for the syntax of POSIX extended            *)
(* expressions, the only one class regexp asks for: one action per case of *)
(* its switch.  No character is translated, and the buffer never grows to  *)
(* the 65536 bytes where EXTEND_BUFFER gives up.                           *)
(*                                                                         *)
(* comp holds the locals of the function: p, the index of the next symbol  *)
(* of the pattern; buf, the bytes so far (b is the address after them);    *)
(* pending, laststart, begalt and fixup, the addresses of those names; the *)
(* stack of open groups; the bracket expression being read; the result.    *)
(***************************************************************************)
EXTENDS RegexCode, FiniteSetsExt

VARIABLES
    pattern,    \* the symbols of the pattern
    comp

RE_DUP_MAX == 32767

compVars == <<pattern, comp>>

CompileInit ==
    [state |-> "loop", p |-> 1, buf |-> <<>>, pending |-> 0, laststart |-> 0,
     begalt |-> 1, fixup |-> 0, stack |-> <<>>, regnum |-> 0,
     bracket |-> <<>>, ret |-> "REG_NOERROR"]

b(s) == Len(s.buf) + 1

(* *p: the pattern is a C string, so a NUL follows it. *)
At(i) == IF i \in DOMAIN pattern THEN pattern[i] ELSE "NUL"

Push(s, bytes) == [s EXCEPT !.buf = @ \o bytes]
Return(s, code) == [s EXCEPT !.state = "done", !.ret = code]

(* The loop goes on with the case of this symbol, which PATFETCH takes. *)
Fetch(c) ==
    /\ comp.state = "loop"
    /\ comp.p \in DOMAIN pattern
    /\ pattern[comp.p] = c

Fetched == [comp EXCEPT !.p = @ + 1]

-----------------------------------------------------------------------------

(* The exactn with its count at place takes another character. *)
Join(buf, place, c) == Append([buf EXCEPT ![place] = @ + 1], Ord[c])

(* Mistake: the character joins the exactn although it is to be repeated.  *)
NormalCharJoins(s, c) ==
    LET fresh == \/ s.pending = 0
                 \/ s.pending + s.buf[s.pending] + 1 # b(s)
                 \/ s.buf[s.pending] = 255
        t == IF fresh
             THEN [Push(s, <<Op.exactn, 0>>) EXCEPT !.laststart = b(s),
                                                    !.pending = b(s) + 1]
             ELSE s
    IN  [t EXCEPT !.buf = Join(@, t.pending, c)]

(* normal_char: the character joins the exactn being built, or starts one  *)
(* when there is none here, when it is full, or when an operator follows.  *)
NormalChar(s, c) ==
    LET fresh == \/ s.pending = 0
                 \/ s.pending + s.buf[s.pending] + 1 # b(s)
                 \/ s.buf[s.pending] = 255
                 \/ At(s.p) \in {"*", "^", "+", "?", "{"}
        t == IF fresh
             THEN [Push(s, <<Op.exactn, 0>>) EXCEPT !.laststart = b(s),
                                                    !.pending = b(s) + 1]
             ELSE s
    IN  [t EXCEPT !.buf = Join(@, t.pending, c)]

Specials == {"^", "$", "*", "+", "?", ".", "[", "(", ")", "|", "{", "\\"}

Literal ==
    /\ comp.p \in DOMAIN pattern /\ pattern[comp.p] \notin Specials
    /\ Fetch(pattern[comp.p])
    /\ comp' = NormalChar(Fetched, pattern[comp.p])
    /\ UNCHANGED pattern

(* ^ and $ are operators wherever they stand. *)
Anchor ==
    /\ \/ Fetch("^") /\ comp' = Push(Fetched, <<Op.begline>>)
       \/ Fetch("$") /\ comp' = Push(Fetched, <<Op.endline>>)
    /\ UNCHANGED pattern

AnyChar ==
    /\ Fetch(".")
    /\ comp' = [Push(Fetched, <<Op.anychar>>) EXCEPT !.laststart = b(comp)]
    /\ UNCHANGED pattern

(* *, + and ?: a run of them is one repetition.  It loops from laststart,  *)
(* and is ignored when there is nothing to repeat.                         *)
Repetition ==
    LET first == comp.p
        end   == Min({i \in first..(Len(pattern) + 1) : At(i) \notin {"*", "+", "?"}})
        ops   == {pattern[i] : i \in first..(end - 1)}
        start == comp.laststart
        s     == [comp EXCEPT !.p = end]
        back  == IF ops # {"?"}
                 THEN Push(s, <<Op.maybe_pop_jump>> \o Bytes(start - 3 - b(s) - 3))
                 ELSE s
        loop  == [back EXCEPT !.buf = InsertJump(@, "on_failure_jump", start, b(back) + 3),
                              !.pending = 0]
    IN  /\ \E c \in {"*", "+", "?"} : Fetch(c)
        /\ comp' = IF start = 0 THEN s
                   ELSE IF ops # {"+"} THEN loop
                   ELSE [loop EXCEPT !.buf = InsertJump(@, "dummy_failure_jump",
                                                        start, start + 6)]
        /\ UNCHANGED pattern

-----------------------------------------------------------------------------

(* The bitmap of a set of characters, without the zero bytes at its end. *)
Bitmap(chars) ==
    LET codes == {Ord[c] : c \in chars}
        size  == IF codes = {} THEN 0 ELSE Max(codes) \div 8 + 1
    IN  <<size>> \o [k \in 1..size |->
            MapThenSumSet(LAMBDA c : 2 ^ (c % 8), {c \in codes : c \div 8 = k - 1})]

OpenBracket ==
    LET hat == At(comp.p + 1) = "^"
        p1  == comp.p + (IF hat THEN 2 ELSE 1)
    IN  /\ Fetch("[")
        /\ comp' = IF comp.p = Len(pattern) THEN Return(Fetched, "REG_EBRACK")
                   ELSE [comp EXCEPT !.state = "bracket", !.p = p1,
                                     !.laststart = b(comp),
                                     !.bracket = [hat |-> hat, p1 |-> p1, chars |-> {},
                                                  class |-> FALSE]]
        /\ UNCHANGED pattern

(* compile_range, with p at the end of the range and its start two symbols *)
(* before.                                                                 *)
CompileRange(s) ==
    LET from == At(s.p - 2)
        to   == At(s.p)
    IN  IF to = "NUL" \/ Ord[from] > Ord[to] THEN Return(s, "REG_ERANGE")
        ELSE [s EXCEPT !.p = @ + 1, !.bracket.chars = @ \cup CharsFrom(from, to)]

(* One round of the loop over a bracket expression: its end, a range after *)
(* a class (an error), the two ways a range starts, a class, a character.  *)
BracketItem ==
    LET c    == At(comp.p)
        next == At(comp.p + 1)
        br   == comp.bracket
        s    == Fetched
        inRange == /\ c = "-" /\ next # "]"
                   /\ At(comp.p - 1) # "["
                   /\ ~(At(comp.p - 2) = "[" /\ At(comp.p - 1) = "^")
    IN  /\ comp.state = "bracket"
        /\ comp' = CASE c = "NUL" -> Return(comp, "REG_EBRACK")
                     [] c = "]" /\ comp.p # br.p1 ->
                            [Push(s, <<IF br.hat THEN Op.charset_not ELSE Op.charset>>
                                     \o Bitmap(br.chars)) EXCEPT !.state = "loop",
                                                                 !.bracket = <<>>]
                     [] OTHER ->
                            IF br.class /\ c = "-" /\ next # "]" THEN Return(s, "REG_ERANGE")
                            ELSE IF c \in DOMAIN CharClass
                                 THEN [s EXCEPT !.bracket.chars = @ \cup CharClass[c],
                                                !.bracket.class = TRUE]
                            ELSE IF inRange THEN CompileRange(s)
                            ELSE IF next = "-" /\ At(comp.p + 2) # "]"
                                 THEN CompileRange([s EXCEPT !.p = @ + 1])
                            ELSE [s EXCEPT !.bracket.chars = @ \cup {c},
                                           !.bracket.class = FALSE]
        /\ UNCHANGED pattern

-----------------------------------------------------------------------------

(* handle_open *)
OpenGroup ==
    LET reg == comp.regnum + 1
        s   == Push(Fetched, <<Op.start_memory, reg, 0>>)
    IN  /\ Fetch("(")
        /\ comp' = [s EXCEPT !.regnum = reg,
                             !.stack = Append(@, [begalt |-> comp.begalt, fixup |-> comp.fixup,
                                                  laststart |-> b(comp), regnum |-> reg]),
                             !.fixup = 0, !.laststart = 0, !.begalt = b(s), !.pending = 0]
        /\ UNCHANGED pattern

(* The last alternative of a group ends with a dummy failure point, to     *)
(* which the jump after the one before it leads.                           *)
EndAlternatives(s) ==
    IF s.fixup = 0 THEN s
    ELSE LET t == Push(s, <<Op.push_dummy_failure>>)
         IN  [t EXCEPT !.buf = StoreJump(@, "jump_past_alt", t.fixup, b(t) - 1)]

(* The group that was opened last: what the enclosing one goes on with. *)
CompileStackTop(s) == Last(s.stack)

(* handle_close: a parenthesis that closes nothing is an ordinary          *)
(* character, but what ends the alternatives has been pushed by then.      *)
CloseGroup ==
    LET s     == EndAlternatives(Fetched)
        top   == CompileStackTop(s)
        inner == s.regnum - top.regnum
    IN  /\ Fetch(")")
        /\ comp' = IF s.stack = <<>> THEN NormalChar(s, ")")
                   ELSE [s EXCEPT !.stack = Front(@), !.begalt = top.begalt,
                                  !.fixup = top.fixup, !.laststart = top.laststart,
                                  !.pending = 0,
                                  !.buf = [@ EXCEPT ![top.laststart + 2] = inner]
                                          \o <<Op.stop_memory, top.regnum, inner>>]
        /\ UNCHANGED pattern

(* Mistake: what the last alternative ended with may still be repeated. *)
AlternativeKeepsLast ==
    LET s == [Fetched EXCEPT !.buf = InsertJump(@, "on_failure_jump", comp.begalt, b(comp) + 6)]
        t == IF s.fixup = 0 THEN s
             ELSE [s EXCEPT !.buf = StoreJump(@, "jump_past_alt", s.fixup, b(s))]
        u == Push(t, <<0, 0, 0>>)
    IN  /\ Fetch("|")
        /\ comp' = [u EXCEPT !.fixup = b(t), !.begalt = b(u), !.pending = 0]
        /\ UNCHANGED pattern

(* handle_alt: room is left for the jump past the alternatives to come. *)
Alternative ==
    LET s == [Fetched EXCEPT !.buf = InsertJump(@, "on_failure_jump", comp.begalt, b(comp) + 6)]
        t == IF s.fixup = 0 THEN s
             ELSE [s EXCEPT !.buf = StoreJump(@, "jump_past_alt", s.fixup, b(s))]
        u == Push(t, <<0, 0, 0>>)
    IN  /\ Fetch("|")
        /\ comp' = [u EXCEPT !.fixup = b(t), !.laststart = 0, !.begalt = b(u), !.pending = 0]
        /\ UNCHANGED pattern

-----------------------------------------------------------------------------

(* GET_UNSIGNED_NUMBER from index i, with c the symbol fetched last: the   *)
(* number or -1, the index after what was fetched, and that symbol.        *)
GetUnsigned(i, c) ==
    LET end    == Min({j \in i..(Len(pattern) + 1) : At(j) \notin Digits})
        digits == SubSeq(pattern, i, end - 1)
    IN  [num |-> IF digits = <<>> THEN -1
                 ELSE FoldLeft(LAMBDA n, d : n * 10 + Ord[d] - Ord["0"], 0, digits),
         p   |-> IF end \in DOMAIN pattern THEN end + 1 ELSE end,
         c   |-> IF end \in DOMAIN pattern THEN pattern[end]
                 ELSE IF digits = <<>> THEN c ELSE Last(digits)]

(* The bounds of the interval whose brace ends at p, and where it ends. *)
Bounds(p) ==
    LET low  == GetUnsigned(p, "{")
        high == IF low.c = "," THEN GetUnsigned(low.p, ",") ELSE low
        max  == IF low.c = "," /\ high.num < 0 THEN RE_DUP_MAX ELSE high.num
    IN  [low |-> low.num, high |-> max, p |-> high.p,
         valid |-> /\ At(p) # "NUL"
                   /\ 0 <= low.num /\ low.num <= max /\ max <= RE_DUP_MAX
                   /\ high.c = "}"]

(* The code of an interval: a jump over what may occur no time, else       *)
(*    set_number_at <count of jump_n>, set_number_at <count of succeed_n>, *)
(*    succeed_n, the body, jump_n                                          *)
(* without the first and the last when it may occur once at the most.      *)
IntervalCode(buf, start, low, high) ==
    LET many == high > 1
        end  == Len(buf) + 1
        succeed == InsertOp2(InsertJump2(buf, "succeed_n", start,
                                         end + 5 + (IF many THEN 5 ELSE 0), low),
                             start, "set_number_at", 5, low)
        loop == succeed \o <<Op.jump_n>> \o Bytes(start + 5 - (Len(succeed) + 1) - 3)
                        \o Bytes(high - 1)
    IN  IF high = 0 THEN InsertJump(buf, "jump", start, end + 3)
        ELSE IF many THEN InsertOp2(loop, start, "set_number_at",
                                    Len(loop) + 1 - start, high - 1)
        ELSE succeed

(* handle_interval: one that is not valid is taken for its characters. *)
Interval ==
    LET bounds == Bounds(comp.p + 1)
        start  == IF comp.laststart = 0 THEN b(comp) ELSE comp.laststart
    IN  /\ Fetch("{")
        /\ comp' = IF ~bounds.valid THEN NormalChar(Fetched, "{")
                   ELSE [comp EXCEPT !.p = bounds.p, !.laststart = start, !.pending = 0,
                                     !.buf = IntervalCode(@, start, bounds.low, bounds.high)]
        /\ UNCHANGED pattern

-----------------------------------------------------------------------------

(* The characters that are an op of their own after a backslash. *)
Escaped == [c \in {"w", "W", "<", ">", "b", "B", "backquote", "'"} |->
              CASE c = "w" -> Op.wordchar  [] c = "W" -> Op.notwordchar
                [] c = "<" -> Op.wordbeg   [] c = ">" -> Op.wordend
                [] c = "b" -> Op.wordbound [] c = "B" -> Op.notwordbound
                [] c = "'" -> Op.endbuf    [] OTHER   -> Op.begbuf]

(* group_in_compile_stack: the group is still open. *)
GroupInCompileStack(stack, regnum) == \E g \in Range(stack) : g.regnum = regnum

(* A backslash: a character class, a boundary, a back reference (not to a  *)
(* group that is still open: that is a digit), or the character itself.    *)
Backslash ==
    LET c   == At(comp.p + 1)
        s   == [comp EXCEPT !.p = @ + 2]
        reg == Ord[c] - Ord["0"]
    IN  /\ Fetch("\\")
        /\ comp' = CASE c = "NUL" -> Return(Fetched, "REG_EESCAPE")
                     [] c \in {"w", "W"} ->
                            [Push(s, <<Escaped[c]>>) EXCEPT !.laststart = b(s)]
                     [] c \in DOMAIN Escaped \ {"w", "W"} -> Push(s, <<Escaped[c]>>)
                     [] c \in Digits \ {"0"} ->
                            IF reg > comp.regnum THEN Return(s, "REG_ESUBREG")
                            ELSE IF GroupInCompileStack(comp.stack, reg) THEN NormalChar(s, c)
                            ELSE [Push(s, <<Op.duplicate, reg>>) EXCEPT !.laststart = b(s)]
                     [] OTHER -> NormalChar(s, c)
        /\ UNCHANGED pattern

(* Through the pattern: used stays zero when a group is still open. *)
Finish ==
    LET s == IF comp.fixup = 0 THEN comp
             ELSE [comp EXCEPT !.buf = StoreJump(@, "jump_past_alt", comp.fixup, b(comp))]
    IN  /\ comp.state = "loop" /\ comp.p > Len(pattern)
        /\ comp' = Return(s, IF comp.stack = <<>> THEN "REG_NOERROR" ELSE "REG_EPAREN")
        /\ UNCHANGED pattern

CompileStep ==
    \/ Literal \/ Anchor \/ AnyChar \/ Repetition \/ OpenBracket \/ BracketItem
    \/ OpenGroup \/ CloseGroup \/ Alternative \/ Interval \/ Backslash \/ Finish

(* Mistake: what was compiled before the error is kept. *)
CompiledSoFar == comp.buf

(* regcomp: the compiled pattern, which has no byte after an error. *)
Compiled == IF comp.ret = "REG_NOERROR" THEN comp.buf ELSE <<>>
-----------------------------------------------------------------------------

(* Where the code inside the first k groups of the stack begins. *)
Inside(stack, k) == IF k = 0 THEN 1 ELSE stack[k].laststart + 3

(* The place left for the jump after an alternative is right before the    *)
(* next one, and waits for the jump or has it; the alternative begins      *)
(* inside its group.                                                       *)
AlternativesAt(buf, first, level) ==
    /\ first <= level.begalt
    /\ level.fixup # 0 =>
          /\ first <= level.fixup /\ level.begalt = level.fixup + 3
          /\ buf[level.fixup] \in {0, Op.jump_past_alt}

(* An open group's start_memory is in the code behind the alternative that *)
(* the group is in.                                                        *)
GroupAt(buf, g) ==
    /\ g.begalt <= g.laststart /\ g.laststart + 2 <= Len(buf)
    /\ buf[g.laststart] = Op.start_memory /\ buf[g.laststart + 1] = g.regnum

(* Nothing has been compiled behind the exactn that is being built. *)
AtEnd(s) == s.pending # 0 /\ s.pending + s.buf[s.pending] + 1 = b(s)

(* The addresses that regex_compile remembers stay those of what they were *)
(* taken for, although every repetition, interval and alternative inserts  *)
(* bytes into the code and so moves what is behind: the open groups, their *)
(* alternatives and the places for their jumps, what a repetition would    *)
(* repeat, and the count of the characters being collected, which fits its *)
(* byte.                                                                   *)
AddressesHold ==
    /\ \A k \in DOMAIN comp.stack :
          /\ AlternativesAt(comp.buf, Inside(comp.stack, k - 1), comp.stack[k])
          /\ GroupAt(comp.buf, comp.stack[k])
    /\ AlternativesAt(comp.buf, Inside(comp.stack, Len(comp.stack)), comp)
    /\ comp.begalt <= b(comp)
    /\ comp.laststart # 0 =>
          comp.begalt <= comp.laststart
          /\ comp.laststart <= IF comp.state = "loop" THEN Len(comp.buf) ELSE b(comp)
    /\ comp.pending # 0 =>
          /\ comp.begalt < comp.pending
          /\ comp.buf[comp.pending - 1] = Op.exactn
          /\ comp.buf[comp.pending] \in 1..255
          /\ comp.pending + comp.buf[comp.pending] < b(comp)

(* A repetition after a character repeats that character alone and not the *)
(* string it ends.                                                         *)
RepeatsOneCharacter ==
    comp.state = "loop" /\ AtEnd(comp) =>
        /\ comp.laststart = comp.pending - 1
        /\ At(comp.p) \in {"*", "+", "?", "{"} => comp.buf[comp.pending] = 1
=============================================================================
