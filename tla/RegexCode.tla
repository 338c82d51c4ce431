----------------------------- MODULE RegexCode -----------------------------
(***************************************************************************)
(* The compiled form of a regular expression in hl/regex.c: a buffer of    *)
(* bytes that holds op codes and their arguments.  Characters are          *)
(* one-character strings, Ord gives the byte of one; a character class     *)
(* such as [:space:] inside brackets is one symbol of a pattern.           *)
(*                                                                         *)
(* Addresses are indices of the buffer from 1, so 0 is the null pointer.   *)
(* A byte past the end of the buffer is read as Garbage, which is no op    *)
(* code: the code reads such bytes only to compare them with op codes.     *)
(***************************************************************************)
EXTENDS Integers, Sequences, SequencesExt

ASCII == << " ", "!", "\"", "#", "$", "%", "&", "'", "(", ")", "*", "+", ",",
            "-", ".", "/", "0", "1", "2", "3", "4", "5", "6", "7", "8", "9",
            ":", ";", "<", "=", ">", "?", "@", "A", "B", "C", "D", "E", "F",
            "G", "H", "I", "J", "K", "L", "M", "N", "O", "P", "Q", "R", "S",
            "T", "U", "V", "W", "X", "Y", "Z", "[", "\\", "]", "^", "_", "backquote",
            "a", "b", "c", "d", "e", "f", "g", "h", "i", "j", "k", "l", "m",
            "n", "o", "p", "q", "r", "s", "t", "u", "v", "w", "x", "y", "z",
            "{", "|", "}", "~" >>

(* The code of a printable character (a backquote has a name of its own). *)
Ord == [c \in Range(ASCII) |-> 31 + CHOOSE i \in DOMAIN ASCII : ASCII[i] = c]

CharsFrom(a, z) == {c \in Range(ASCII) : Ord[a] <= Ord[c] /\ Ord[c] <= Ord[z]}

Digits == CharsFrom("0", "9")
Letters == CharsFrom("a", "z") \cup CharsFrom("A", "Z")

(* re_syntax_table: the characters whose syntax is Sword. *)
WordChars == Letters \cup Digits \cup {"_"}

(* The characters of the classes a bracket expression may name. *)
CharClass == [c \in {"[:space:]", "[:alpha:]", "[:digit:]", "[:alnum:]"} |->
                CASE c = "[:space:]" -> {" "}
                  [] c = "[:alpha:]" -> Letters
                  [] c = "[:digit:]" -> Digits
                  [] c = "[:alnum:]" -> Letters \cup Digits]

(* The op codes, in the order of re_opcode_t. *)
Opcodes == << "no_op", "exactn", "anychar", "charset", "charset_not",
              "start_memory", "stop_memory", "duplicate", "begline",
              "endline", "begbuf", "endbuf", "jump", "jump_past_alt",
              "on_failure_jump", "on_failure_keep_string_jump",
              "pop_failure_jump", "maybe_pop_jump", "dummy_failure_jump",
              "push_dummy_failure", "succeed_n", "jump_n", "set_number_at",
              "wordchar", "notwordchar", "wordbeg", "wordend", "wordbound",
              "notwordbound" >>

Op == [o \in Range(Opcodes) |-> (CHOOSE i \in DOMAIN Opcodes : Opcodes[i] = o) - 1]

Garbage == -1

(* The flag match_null_string_p of a group that has not been looked at. *)
MATCH_NULL_UNSET_VALUE == 3

(* *p, where p may be past the end of the buffer. *)
Byte(buf, p) == IF p \in DOMAIN buf THEN buf[p] ELSE Garbage

Is(buf, p, op) == Byte(buf, p) = Op[op]

(* STORE_NUMBER and EXTRACT_NUMBER: two bytes, the low one first, the high *)
(* one sign-extended.                                                      *)
Bytes(n) == << n % 256, (n \div 256) % 256 >>
Number(buf, p) == LET high == Byte(buf, p + 1)
                  IN  Byte(buf, p) + 256 * (IF high > 127 THEN high - 256 ELSE high)
StoreNumber(buf, p, n) == [buf EXCEPT ![p] = Bytes(n)[1], ![p + 1] = Bytes(n)[2]]

(* store_op1, and insert_op1 and insert_op2, which move the bytes from loc *)
(* on to make room for the op and its arguments.                           *)
StoreOp1(buf, loc, op, arg) == StoreNumber([buf EXCEPT ![loc] = Op[op]], loc + 1, arg)
Insert(buf, loc, bytes) ==
    SubSeq(buf, 1, loc - 1) \o bytes \o SubSeq(buf, loc, Len(buf))
InsertOp1(buf, loc, op, arg) == Insert(buf, loc, <<Op[op]>> \o Bytes(arg))
InsertOp2(buf, loc, op, arg1, arg2) ==
    Insert(buf, loc, <<Op[op]>> \o Bytes(arg1) \o Bytes(arg2))

(* The jumps take an address and store its distance from their own end. *)
StoreJump(buf, op, loc, to) == StoreOp1(buf, loc, op, to - loc - 3)
InsertJump(buf, op, loc, to) == InsertOp1(buf, loc, op, to - loc - 3)
InsertJump2(buf, op, loc, to, arg) == InsertOp2(buf, loc, op, to - loc - 3, arg)

(* Whether the bitmap of length buf[p], which starts after it, has c's bit. *)
InBitmap(buf, p, c) ==
    /\ c < buf[p] * 8
    /\ (buf[p + 1 + c \div 8] \div 2 ^ (c % 8)) % 2 = 1
=============================================================================
