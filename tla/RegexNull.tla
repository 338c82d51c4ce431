----------------------------- MODULE RegexNull -----------------------------
(***************************************************************************)
(* The predicates of hl/regex.c that find out whether the code of a group  *)
(* can match the empty string, with what they leave undone: a loop counts  *)
(* as its body does when it is not inside an alternative, the byte after a *)
(* nested group's number is read as an op, and set_number_at falls into    *)
(* the default.                                                            *)
(*                                                                         *)
(* Each returns the answer, the address it has moved p to, and the flags   *)
(* match_null_string_p of the groups, which it may set on the way.         *)
(***************************************************************************)
EXTENDS RegexCode

Answer(ret, p, null) == [ret |-> ret, p |-> p, null |-> null]

RECURSIVE GroupMatchNull(_, _, _), GroupLoop(_, _, _), Alternatives(_, _, _, _),
          AltMatchNull(_, _, _, _), CommonOpMatchNull(_, _, _)

(* group_match_null_string_p, with p at the number of the group. *)
GroupMatchNull(buf, p, null) == GroupLoop(buf, p + 2, null)

GroupLoop(buf, p1, null) ==
    IF p1 > Len(buf) THEN Answer(FALSE, p1, null)
    ELSE IF Is(buf, p1, "stop_memory") THEN Answer(TRUE, p1 + 2, null)
    ELSE LET a == IF ~Is(buf, p1, "on_failure_jump")
                  THEN CommonOpMatchNull(buf, p1, null)
                  ELSE IF Number(buf, p1 + 1) < 0 THEN Answer(TRUE, p1 + 3, null)
                  ELSE Alternatives(buf, p1 + 3, Number(buf, p1 + 1), null)
         IN  IF a.ret THEN GroupLoop(buf, a.p, a.null) ELSE a

(* The alternatives that start at p1, the first of them count bytes long;  *)
(* the last one's length is in the jump before it.                         *)
Alternatives(buf, p1, count, null) ==
    IF ~Is(buf, p1 + count - 3, "jump_past_alt")
    THEN LET last == Number(buf, p1 - 2)
             a    == AltMatchNull(buf, p1, p1 + last, null)
         IN  [a EXCEPT !.p = p1 + last]
    ELSE LET a    == AltMatchNull(buf, p1, p1 + count - 3, null)
             next == p1 + count
             size == Number(buf, next + 1)
             last == Number(buf, next - 2)
             z    == AltMatchNull(buf, next, next + last, a.null)
         IN  IF ~a.ret THEN a
             ELSE IF /\ Is(buf, next, "on_failure_jump")
                     /\ Is(buf, next + 3 + size - 3, "jump_past_alt")
                  THEN Alternatives(buf, next + 3, size, a.null)
             ELSE [z EXCEPT !.p = next + last]

(* alt_match_null_string_p: one alternative, from p1 to end. *)
AltMatchNull(buf, p1, end, null) ==
    IF p1 >= end THEN Answer(TRUE, p1, null)
    ELSE IF Is(buf, p1, "on_failure_jump")
         THEN AltMatchNull(buf, p1 + 3 + Number(buf, p1 + 1), end, null)
    ELSE LET a == CommonOpMatchNull(buf, p1, null)
         IN  IF a.ret THEN AltMatchNull(buf, a.p, end, a.null) ELSE a

EmptyOps == {Op[o] : o \in {"no_op", "begline", "endline", "begbuf", "endbuf", "wordbeg",
                            "wordend", "wordbound", "notwordbound"}}

(* common_op_match_null_string_p *)
CommonOpMatchNull(buf, p, null) ==
    LET reg  == Byte(buf, p + 1)
        jump == Number(buf, p + 1)
        g    == GroupMatchNull(buf, p + 1, null)
    IN  CASE Byte(buf, p) \in EmptyOps -> Answer(TRUE, p + 1, null)
          [] Is(buf, p, "start_memory") ->
                [g EXCEPT !.null[reg] = IF @ = MATCH_NULL_UNSET_VALUE
                                        THEN (IF g.ret THEN 1 ELSE 0) ELSE @]
          [] Is(buf, p, "jump") -> Answer(jump >= 0, p + 3 + jump, null)
          [] Is(buf, p, "succeed_n") ->
                Answer(Number(buf, p + 3) = 0, p + 3 + jump, null)
          [] Is(buf, p, "duplicate") -> Answer(null[reg] # 0, p + 1, null)
          [] OTHER -> Answer(FALSE, p, null)
=============================================================================
