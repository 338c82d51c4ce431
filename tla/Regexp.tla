------------------------------- MODULE Regexp -------------------------------
(***************************************************************************)
(* class regexp of hl/regexp.h: an object compiles its pattern once        *)
(* (regcomp, which ends in regex_compile) and then matches strings         *)
(* (regexec, a search with re_search_2), and gives the parts of the last   *)
(* string that its groups matched.  The buffer of compiled code belongs to *)
(* the object: what one match has written into it, the next one runs.      *)
(***************************************************************************)
EXTENDS RegexCompile, RegexMatch

regexpVars == <<pattern, comp, str, m>>

(* How many parts the object asks regexec for. *)
nmatch == 10

(* The object before its first match. *)
Unused == [MatchInit(<<>>, 0, 0) EXCEPT !.state = "unused"]

(* The constructor: regcomp prepares the buffer and begins to compile. *)
Constructed(pat) ==
    /\ pattern = pat
    /\ comp = CompileInit
    /\ str = <<>>
    /\ m = Unused

Construct(pat) ==
    /\ pattern' = pat
    /\ comp' = CompileInit
    /\ str' = <<>>
    /\ m' = Unused

Compile == CompileStep /\ UNCHANGED <<str, m>>

(* No match is under way. *)
Idle == comp.state = "done" /\ m.state \in {"unused", "returned"}

(* match(): regexec, whatever regcomp has returned. *)
Match(s) ==
    /\ Idle
    /\ str' = s
    /\ m' = MatchInit(IF m.state = "unused" THEN Compiled ELSE m.buf, comp.regnum, 0)
    /\ UNCHANGED <<pattern, comp>>

Run == MatchStep /\ UNCHANGED <<pattern, comp>>

RegexpStep == Compile \/ Run

-----------------------------------------------------------------------------

(* What match() has returned: an error of the matcher is no match. *)
Returned == m.state = "returned"
Succeeded == Returned /\ m.ret = "match"

(* The member matches after a match: the whole, then the registers, -1 for *)
(* what did not take part.                                                 *)
matches == [r \in 0..(nmatch - 1) |->
               IF r = 0 THEN <<m.pos, m.d>>
               ELSE IF r \in Groups /\ REG_UNSET_VALUE \notin {m.start[r], m.end[r]}
                    THEN <<m.start[r], m.end[r]>>
               ELSE <<-1, -1>>]

(* operator[]: the part of the string that group i matched, if it did. *)
Part(i) == IF matches[i][1] < 0 THEN <<>>
           ELSE SubSeq(str, matches[i][1] + 1, matches[i][2])
-----------------------------------------------------------------------------

(* Objects of any pattern, each matched against any strings. *)
Symbols == Range(ASCII) \cup DOMAIN CharClass
ObjectsInit == \E pat \in Seq(Symbols) : Constructed(pat)
ObjectsNext ==
    \/ RegexpStep
    \/ \E pat \in Seq(Symbols) : Construct(pat)
    \/ \E s \in Seq(Range(ASCII)) : Match(s)
Objects == ObjectsInit /\ [][ObjectsNext]_regexpVars

(* A pattern that is no expression: nobody looks at what regcomp returned, *)
(* and the object matches every string, at its start and with no part of   *)
(* it.  Code that was compiled before the error is never run.              *)
RejectedIsEmpty ==
    comp.ret # "REG_NOERROR" /\ Returned =>
        /\ Succeeded
        /\ \A i \in 0..(nmatch - 1) : Part(i) = <<>>

(* The assertion of POP_FAILURE_POINT, which is not compiled in: a loop    *)
(* that drops a failure point has one to drop.                             *)
PopsWhatWasPushed ==
    Executes("pop_failure_jump") \/ (Executes("maybe_pop_jump") /\ NeverBacktracks(m)) =>
        m.stack # <<>>

(* The default of re_match_2's switch, which aborts the program, is never  *)
(* reached: whatever the matcher has written into the code, what it comes  *)
(* to next is an op code, or the end of the code.                          *)
RunsOpCodes ==
    m.state = "match" => m.p = pend \/ Byte(m.buf, m.p) \in Range(Op)

(* The comment on re_max_failures: the failure stack gives up only when it *)
(* holds that many points, whatever number of registers each saves; and it *)
(* never holds more items than it has room for.                            *)
OverflowIsDeep ==
    /\ m.ret = "error" => Len(m.stack) >= re_max_failures
    /\ m.avail <= m.size
=============================================================================
