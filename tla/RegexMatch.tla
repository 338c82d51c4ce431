----------------------------- MODULE RegexMatch -----------------------------
(***************************************************************************)
(* re_search_2 and re_match_2 of hl/regex.c: the backtracking matcher that *)
(* runs the compiled pattern, with one action per op code, and the search  *)
(* that starts it at each position.  The string is passed as string2 and   *)
(* string1 is null, as regexec calls it.                                   *)
(*                                                                         *)
(* m holds the locals: the buffer (ops rewrite it while they run), p and d *)
(* where the match is in the pattern and in the string, the failure stack, *)
(* the lowest and highest active register, the registers of each group and *)
(* the best match so far.  state is "match" or "fail" inside re_match_2.   *)
(***************************************************************************)
EXTENDS RegexCode, FiniteSetsExt

CONSTANTS
    re_max_failures,    \* the variable that limits the failure stack
    MatchNull(_, _, _)  \* group_match_null_string_p, which RegexNull models

ASSUME MatchAssumption == re_max_failures \in Nat

VARIABLES
    str,        \* the string, a sequence of characters
    m

INIT_FAILURE_ALLOC == 5
NO_HIGHEST_ACTIVE_REG == 256
NO_LOWEST_ACTIVE_REG == 257
REG_UNSET_VALUE == -1

Groups == DOMAIN m.start
pend == Len(m.buf) + 1
At_strings_end(d) == d = Len(str)
Char(d) == str[d + 1]
Reg == m.buf[m.p + 1]       \* the number of a group, the first argument of its ops

(* The locals at the start of re_match_2. *)
MatchInit(buf, nsub, pos) ==
    [state |-> "match", buf |-> buf, p |-> 1, d |-> pos, pos |-> pos,
     stack |-> <<>>, avail |-> 0, size |-> INIT_FAILURE_ALLOC,
     low |-> NO_LOWEST_ACTIVE_REG, high |-> NO_HIGHEST_ACTIVE_REG,
     start |-> [r \in 1..nsub |-> REG_UNSET_VALUE],
     end |-> [r \in 1..nsub |-> REG_UNSET_VALUE],
     old_start |-> [r \in 1..nsub |-> REG_UNSET_VALUE],
     old_end |-> [r \in 1..nsub |-> REG_UNSET_VALUE],
     null |-> [r \in 1..nsub |-> MATCH_NULL_UNSET_VALUE],
     active |-> [r \in 1..nsub |-> FALSE],
     matched |-> [r \in 1..nsub |-> FALSE],
     ever |-> [r \in 1..nsub |-> FALSE],
     best |-> <<>>, ret |-> "none"]

-----------------------------------------------------------------------------
(* The failure stack.  It is counted in items: three for each register     *)
(* that is saved and four more for each point.                             *)

MAX_FAILURE_ITEMS == 3 * Cardinality(Groups) + 4
NumFailureItems(s) == 3 * (s.high - s.low + 1) + 4

(* What the macros push and pop: no register at all when high is below low. *)
ItemsPushed(s) == 3 * Cardinality(s.low..s.high) + 4

(* i >= j for unsigned numbers: those that have wrapped are negative here. *)
AtLeast(i, j) == IF (i < 0) = (j < 0) THEN i >= j ELSE i < 0

(* By how much the stack grows for one point, in which it never doubles    *)
(* more than twelve times.                                                 *)
Doublings == {1, 2, 4, 8, 16, 32, 64, 128, 256, 512, 1024, 2048, 4096}
Fits(s) == {k \in Doublings : AtLeast(s.size * k - s.avail, NumFailureItems(s))}

(* Mistake: the limit counts items, not failure points. *)
GrownSizeOfItems(s) ==
    LET size == s.size * Min(Fits(s))
    IN  IF Fits(s) = {} \/ (size # s.size /\ size \div 2 > re_max_failures)
        THEN 0 ELSE size

(* What becomes of the size: doubled until the items fit, but not from a   *)
(* size that is over the limit (0: the stack cannot hold them).            *)
GrownSize(s) ==
    LET size == s.size * Min(Fits(s))
    IN  IF \/ Fits(s) = {}
           \/ size # s.size /\ size \div 2 > re_max_failures * MAX_FAILURE_ITEMS
        THEN 0 ELSE size

(* What a failure point saves of a register: its ends and its             *)
(* register_info_type.                                                     *)
Register(s, r) == <<s.start[r], s.end[r], s.null[r], s.active[r], s.matched[r], s.ever[r]>>

(* PUSH_FAILURE_POINT: where to go on, and the registers from low to high. *)
(* When they do not fit, re_match_2 returns -2.                            *)
PushFailurePoint(s, place, string) ==
    IF GrownSize(s) = 0 THEN [s EXCEPT !.state = "done", !.ret = "error"]
    ELSE [s EXCEPT !.size = GrownSize(s),
                   !.avail = @ + ItemsPushed(s),
                   !.stack = Append(@, [p |-> place, d |-> string, low |-> s.low, high |-> s.high,
                                        regs |-> [r \in s.low..s.high |-> Register(s, r)]])]

(* A dummy failure point has two null pointers. *)
NullPointer == 0
PushDummy(s) == PushFailurePoint(s, NullPointer, REG_UNSET_VALUE)

Discard(s) == [s EXCEPT !.stack = Front(@),
                        !.avail = @ - ItemsPushed(Last(s.stack))]

(* Mistake: the groups keep what they matched on the way that failed. *)
PopFailurePointOnly(s) ==
    LET f == Last(s.stack)
    IN  [Discard(s) EXCEPT !.p = f.p,
                           !.d = IF f.d = REG_UNSET_VALUE THEN @ ELSE f.d,
                           !.low = f.low, !.high = f.high]

(* POP_FAILURE_POINT into the locals; a dummy keeps the string's place. *)
PopFailurePoint(s) ==
    LET f == Last(s.stack)
        Saved(r, k, default) == IF r \in DOMAIN f.regs THEN f.regs[r][k] ELSE default
    IN  [Discard(s) EXCEPT
            !.p = f.p,
            !.d = IF f.d = REG_UNSET_VALUE THEN @ ELSE f.d,
            !.low = f.low, !.high = f.high,
            !.start   = [r \in Groups |-> Saved(r, 1, @[r])],
            !.end     = [r \in Groups |-> Saved(r, 2, @[r])],
            !.null    = [r \in Groups |-> Saved(r, 3, @[r])],
            !.active  = [r \in Groups |-> Saved(r, 4, @[r])],
            !.matched = [r \in Groups |-> Saved(r, 5, @[r])],
            !.ever    = [r \in Groups |-> Saved(r, 6, @[r])]]

-----------------------------------------------------------------------------

Executes(op) == m.state = "match" /\ Is(m.buf, m.p, op)

Fail(s) == [s EXCEPT !.state = "fail"]
Skip(s, n) == [s EXCEPT !.p = @ + n]
Jump(s) == [s EXCEPT !.p = @ + 3 + Number(s.buf, s.p + 1)]

(* A character has matched: d moves on and SET_REGS_MATCHED. *)
Consume(s, n) == [s EXCEPT !.d = @ + n,
                           !.matched = [r \in Groups |-> @[r] \/ r \in s.low..s.high],
                           !.ever = [r \in Groups |-> @[r] \/ r \in s.low..s.high]]

NoOp == /\ Executes("no_op")
        /\ m' = Skip(m, 1)
        /\ UNCHANGED str

ExactN ==
    LET n == m.buf[m.p + 1]
        matches == /\ m.d + n <= Len(str)
                   /\ \A i \in 0..(n - 1) : Ord[Char(m.d + i)] = m.buf[m.p + 2 + i]
    IN  /\ Executes("exactn")
        /\ m' = IF matches THEN Skip(Consume(m, n), n + 2) ELSE Fail(m)
        /\ UNCHANGED str

(* The ops that match one character, and how many bytes they take. *)
OneChar(c) ==
    CASE Executes("anychar")     -> TRUE
      [] Executes("charset")     -> InBitmap(m.buf, m.p + 1, Ord[c])
      [] Executes("charset_not") -> ~InBitmap(m.buf, m.p + 1, Ord[c])
      [] Executes("wordchar")    -> c \in WordChars
      [] Executes("notwordchar") -> c \notin WordChars
OneCharSize == IF Executes("charset") \/ Executes("charset_not")
               THEN 2 + m.buf[m.p + 1] ELSE 1

MatchOneChar ==
    /\ \E op \in {"anychar", "charset", "charset_not", "wordchar", "notwordchar"} : Executes(op)
    /\ m' = IF ~At_strings_end(m.d) /\ OneChar(Char(m.d))
            THEN Skip(Consume(m, 1), OneCharSize) ELSE Fail(m)
    /\ UNCHANGED str

(* The ops that test the place in the string.  There is no newline anchor. *)
WordChar(d) == d < Len(str) /\ Char(d) \in WordChars
AtWordBoundary(d) ==
    d = 0 \/ At_strings_end(d) \/ WordChar(d - 1) # WordChar(d)
PlaceIs(op) ==
    CASE op \in {"begline", "begbuf"} -> m.d = 0
      [] op \in {"endline", "endbuf"} -> At_strings_end(m.d)
      [] op = "wordbound"    -> AtWordBoundary(m.d)
      [] op = "notwordbound" -> ~AtWordBoundary(m.d)
      [] op = "wordbeg" -> WordChar(m.d) /\ (m.d = 0 \/ ~WordChar(m.d - 1))
      [] op = "wordend" -> m.d > 0 /\ WordChar(m.d - 1) /\ ~WordChar(m.d)

Place ==
    \E op \in {"begline", "endline", "begbuf", "endbuf", "wordbound", "notwordbound",
               "wordbeg", "wordend"} :
        /\ Executes(op)
        /\ m' = IF PlaceIs(op) THEN Skip(m, 1) ELSE Fail(m)
        /\ UNCHANGED str

(* A back reference compares with what the group matched last; it leaves   *)
(* the flags of the active groups alone.                                   *)
Duplicate ==
    LET n == m.end[Reg] - m.start[Reg]
        matches == /\ m.start[Reg] # REG_UNSET_VALUE /\ m.end[Reg] # REG_UNSET_VALUE
                   /\ m.d + n <= Len(str)
                   /\ \A i \in 0..(n - 1) : Char(m.d + i) = Char(m.start[Reg] + i)
    IN  /\ Executes("duplicate")
        /\ m' = IF matches THEN [m EXCEPT !.d = @ + n, !.p = @ + 2] ELSE Fail(m)
        /\ UNCHANGED str

-----------------------------------------------------------------------------
(* Groups. *)

(* What a register was before this time around, for a group that can match *)
(* the empty string: the place of now if it was not set.                   *)
Old(value) == IF m.null[Reg] # 0 /\ value = REG_UNSET_VALUE THEN m.d ELSE value

StartMemory ==
    LET answer == MatchNull(m.buf, m.p + 1, m.null)
        null == IF m.null[Reg] = MATCH_NULL_UNSET_VALUE
                THEN [answer.null EXCEPT ![Reg] = IF answer.ret THEN 1 ELSE 0]
                ELSE m.null
        old == IF null[Reg] # 0 /\ m.start[Reg] = REG_UNSET_VALUE THEN m.d ELSE m.start[Reg]
    IN  /\ Executes("start_memory")
        /\ m' = [m EXCEPT !.null = null,
                          !.old_start[Reg] = old, !.start[Reg] = m.d,
                          !.active[Reg] = TRUE, !.matched[Reg] = FALSE,
                          !.high = Reg,
                          !.low = IF @ = NO_LOWEST_ACTIVE_REG THEN Reg ELSE @,
                          !.p = @ + 3]
        /\ UNCHANGED str

(* The registers are closed, and the highest active one is looked for. *)
CloseRegister ==
    LET below == {r \in 1..(Reg - 1) : m.active[r]}
        none  == m.low = m.high \/ below = {}
    IN  [m EXCEPT !.old_end[Reg] = Old(m.end[Reg]), !.end[Reg] = m.d,
                  !.active[Reg] = FALSE,
                  !.low  = IF none THEN NO_LOWEST_ACTIVE_REG ELSE @,
                  !.high = IF none THEN NO_HIGHEST_ACTIVE_REG ELSE Max(below)]

(* The address after a jump that comes right after the group (q is the     *)
(* address after stop_memory), and whether it leads back to an             *)
(* on_failure_jump right before this group.                                *)
JumpTarget(buf, q) ==
    IF Byte(buf, q) = Op.jump_n THEN q + 5 + Number(buf, q + 1)
    ELSE q + 3 + Number(buf, q + 1)

LoopsBack(buf, q) ==
    /\ Byte(buf, q) \in {Op[o] : o \in {"jump_n", "pop_failure_jump", "maybe_pop_jump", "jump",
                                        "dummy_failure_jump"}}
    /\ Number(buf, q + 1) < 0
    /\ Is(buf, JumpTarget(buf, q), "on_failure_jump")
    /\ Is(buf, JumpTarget(buf, q) + 3, "start_memory")
    /\ Byte(buf, JumpTarget(buf, q) + 4) = Reg

(* Registers of a group that matched something before but not this time.   *)
(* The innermost group that is counted as inside is left out.              *)
RestoreOld(s) ==
    LET regs == Reg..(Reg + m.buf[m.p + 2] - 1)
    IN  IF ~s.ever[Reg] THEN s
        ELSE [s EXCEPT !.ever[Reg] = FALSE,
                       !.start = [r \in Groups |-> IF r \in regs THEN s.old_start[r] ELSE @[r]],
                       !.end = [r \in Groups |->
                                  IF r \in regs /\ s.old_end[r] >= s.old_start[r]
                                  THEN s.old_end[r] ELSE @[r]]]

(* Mistake: a loop whose body matched nothing goes on. *)
StopMemoryOnly ==
    /\ Executes("stop_memory")
    /\ m' = Skip(CloseRegister, 3)
    /\ UNCHANGED str

(* A time around a loop that matched nothing forces the exit: a failure    *)
(* point for what follows the loop, then failure.                          *)
StopMemory ==
    LET s == CloseRegister
        after == m.p + 3
        target == JumpTarget(m.buf, after)
        stuck == /\ ~m.matched[Reg] \/ Is(m.buf, m.p - 2, "start_memory")
                 /\ after < pend
                 /\ LoopsBack(m.buf, after)
        pushed == PushFailurePoint(RestoreOld(s), target + 3 + Number(m.buf, target + 1), s.d)
    IN  /\ Executes("stop_memory")
        /\ m' = IF ~stuck THEN Skip(s, 3)
                ELSE IF pushed.state = "done" THEN pushed
                ELSE Fail(pushed)
        /\ UNCHANGED str

-----------------------------------------------------------------------------
(* Loops and alternatives. *)

(* A failure point where the jump leads; right before a group its registers *)
(* are saved too, with those of the groups inside.                          *)
OnFailure(s) ==
    LET after == s.p + 3
        group == Min({i \in after..(pend + 1) : ~Is(s.buf, i, "no_op")})
        t == IF Is(s.buf, group, "start_memory")
             THEN [s EXCEPT !.high = s.buf[group + 1] + s.buf[group + 2],
                            !.low = IF @ = NO_LOWEST_ACTIVE_REG THEN s.buf[group + 1] ELSE @]
             ELSE s
    IN  [PushFailurePoint(t, after + Number(s.buf, s.p + 1), s.d) EXCEPT !.p = after]

OnFailureJump ==
    /\ Executes("on_failure_jump")
    /\ m' = OnFailure(m)
    /\ UNCHANGED str

(* Mistake: the character that follows a loop may be one that the loop     *)
(* takes.                                                                  *)
NeverBacktracksToMore(s) ==
    LET Skips(q) == q + 2 < pend /\ s.buf[q] \in {Op.start_memory, Op.stop_memory}
        next == Min({q \in (s.p + 3)..pend : (q - s.p) % 3 = 0 /\ ~Skips(q)})
    IN  next = pend \/ Is(s.buf, next, "exactn")

(* Whether what follows a loop cannot match what the loop starts with, or  *)
(* nothing follows.                                                        *)
NeverBacktracks(s) ==
    LET body == s.p + 3 + Number(s.buf, s.p + 1) + 3
        Skips(q) == q + 2 < pend /\ s.buf[q] \in {Op.start_memory, Op.stop_memory}
        next == Min({q \in (s.p + 3)..pend : (q - s.p) % 3 = 0 /\ ~Skips(q)})
        c == s.buf[next + 2]
    IN  \/ next = pend
        \/ /\ Is(s.buf, next, "exactn")
           /\ \/ Is(s.buf, body, "exactn") /\ s.buf[body + 2] # c
              \/ Is(s.buf, body, "charset") /\ ~InBitmap(s.buf, body + 1, c)
              \/ Is(s.buf, body, "charset_not") /\ InBitmap(s.buf, body + 1, c)

(* The end of a loop decides, in the buffer and for good, whether it drops *)
(* the failure point of the time around that has just matched.             *)
MaybePopJump ==
    LET op == IF NeverBacktracks(m) THEN "pop_failure_jump" ELSE "jump"
        s  == [m EXCEPT !.buf[m.p] = Op[op]]
    IN  /\ Executes("maybe_pop_jump")
        /\ m' = Jump(IF op = "jump" THEN s ELSE Discard(s))
        /\ UNCHANGED str

PopFailureJump ==
    /\ Executes("pop_failure_jump")
    /\ m' = Jump(Discard(m))
    /\ UNCHANGED str

UnconditionalJump ==
    /\ Executes("jump") \/ Executes("jump_past_alt")
    /\ m' = Jump(m)
    /\ UNCHANGED str

(* Mistake: the first time around a + leaves nothing to drop. *)
DummyFailureJumpOnly ==
    /\ Executes("dummy_failure_jump")
    /\ m' = Jump(m)
    /\ UNCHANGED str

DummyFailureJump ==
    /\ Executes("dummy_failure_jump")
    /\ m' = Jump(PushDummy(m))
    /\ UNCHANGED str

PushDummyFailure ==
    /\ Executes("push_dummy_failure")
    /\ m' = Skip(PushDummy(m), 1)
    /\ UNCHANGED str

(* Counts down in the buffer; at zero its counter becomes two no_ops. *)
SucceedN ==
    LET n == Number(m.buf, m.p + 3)
    IN  /\ Executes("succeed_n")
        /\ m' = IF n > 0 THEN [m EXCEPT !.buf = StoreNumber(@, m.p + 3, n - 1), !.p = @ + 5]
                ELSE OnFailure([m EXCEPT !.buf = StoreNumber(@, m.p + 3, Op.no_op)])
        /\ UNCHANGED str

JumpN ==
    LET n == Number(m.buf, m.p + 3)
    IN  /\ Executes("jump_n")
        /\ m' = IF n # 0 THEN Jump([m EXCEPT !.buf = StoreNumber(@, m.p + 3, n - 1)])
                ELSE Skip(m, 5)
        /\ UNCHANGED str

(* Mistake: the counter is taken to be one byte nearer. *)
SetNumberAtNearer ==
    /\ Executes("set_number_at")
    /\ m' = [m EXCEPT !.buf = StoreNumber(@, m.p + 2 + Number(@, m.p + 1), Number(@, m.p + 3)),
                      !.p = @ + 5]
    /\ UNCHANGED str

SetNumberAt ==
    /\ Executes("set_number_at")
    /\ m' = [m EXCEPT !.buf = StoreNumber(@, m.p + 3 + Number(@, m.p + 1), Number(@, m.p + 3)),
                      !.p = @ + 5]
    /\ UNCHANGED str

-----------------------------------------------------------------------------

(* Whether to go on at the place of a failure point fails again: a dummy,  *)
(* or a jump back to the start of its loop.                                *)
FailsAgain(s) ==
    \/ s.p = NullPointer
    \/ /\ Byte(s.buf, s.p) \in {Op.maybe_pop_jump, Op.pop_failure_jump, Op.jump}
       /\ Is(s.buf, s.p + 3 + Number(s.buf, s.p + 1), "on_failure_jump")
    \/ /\ Is(s.buf, s.p, "jump_n")
       /\ Is(s.buf, s.p + 3 + Number(s.buf, s.p + 1), "succeed_n")

(* Done: the length that matched, or the best one, or no match here. *)
Accept(s) == [s EXCEPT !.state = "done", !.ret = "match"]
RestoreBestRegs(s) == [s EXCEPT !.d = s.best.d, !.start = s.best.start, !.end = s.best.end]

TakeFailurePoint ==
    /\ m.state = "fail"
    /\ m' = IF m.stack # <<>>
            THEN [PopFailurePoint(m) EXCEPT
                    !.state = IF FailsAgain(PopFailurePoint(m)) THEN "fail" ELSE "match"]
            ELSE IF m.best # <<>> THEN Accept(RestoreBestRegs(m))
            ELSE [m EXCEPT !.state = "done", !.ret = "no match"]
    /\ UNCHANGED str

(* Mistake: the first match is taken for the longest. *)
EndOfPatternFirst ==
    /\ m.state = "match" /\ m.p = pend
    /\ m' = Accept(m)
    /\ UNCHANGED str

(* The end of the pattern: a match that leaves some of the string is kept  *)
(* if it is the longest yet, while there are others to try.                *)
EndOfPattern ==
    LET better == m.best = <<>> \/ m.d > m.best.d
        save == [d |-> m.d, start |-> m.start, end |-> m.end]
    IN  /\ m.state = "match" /\ m.p = pend
        /\ m' = IF At_strings_end(m.d) THEN Accept(m)
                ELSE IF m.stack # <<>>
                     THEN Fail(IF better THEN [m EXCEPT !.best = save] ELSE m)
                ELSE IF m.best # <<>> THEN Accept(RestoreBestRegs(m))
                ELSE Accept(m)
        /\ UNCHANGED str

(* re_search_2: no match at this position, so the next one is tried.  A    *)
(* pattern that begins with begbuf has only one more to try.               *)
Advance ==
    LET range == IF Is(m.buf, 1, "begbuf") THEN Min({1, Len(str)}) ELSE Len(str)
    IN  /\ m.state = "done" /\ m.ret = "no match"
        /\ m' = IF m.pos < range
                THEN MatchInit(m.buf, Cardinality(Groups), m.pos + 1)
                ELSE [m EXCEPT !.state = "returned"]
        /\ UNCHANGED str

(* re_search_2 returns the position of a match, or an error. *)
Found ==
    /\ m.state = "done" /\ m.ret # "no match"
    /\ m' = [m EXCEPT !.state = "returned"]
    /\ UNCHANGED str

MatchStep ==
    \/ NoOp \/ ExactN \/ MatchOneChar \/ Place \/ Duplicate
    \/ StartMemory \/ StopMemory
    \/ OnFailureJump \/ MaybePopJump \/ PopFailureJump \/ UnconditionalJump
    \/ DummyFailureJump \/ PushDummyFailure
    \/ SucceedN \/ JumpN \/ SetNumberAt
    \/ TakeFailurePoint \/ EndOfPattern \/ Advance \/ Found
=============================================================================
