--------------------------- MODULE RegexLanguage ---------------------------
(***************************************************************************)
(* What an extended regular expression means, apart from how hl/regex.c    *)
(* finds it: an expression is a tree, Show writes it as the symbols of a   *)
(* pattern, and Parses gives every way it matches a string from a place.   *)
(***************************************************************************)
EXTENDS RegexCode, FiniteSetsExt

Lit(c)          == [op |-> "lit", c |-> c]
Dot             == [op |-> "any"]
Set(chars, not) == [op |-> "set", chars |-> chars, not |-> not]
Word(not)       == [op |-> "word", not |-> not] \* \w or \W
Where(c)       == [op |-> "at", c |-> c]       \* an anchor or a boundary
Cat(e, f)       == [op |-> "cat", l |-> e, r |-> f]
Alt(e, f)       == [op |-> "alt", l |-> e, r |-> f]
Rep(e, lo, hi)  == [op |-> "rep", e |-> e, lo |-> lo, hi |-> hi]
Grp(n, e)       == [op |-> "grp", n |-> n, e |-> e]
Ref(n)          == [op |-> "ref", n |-> n]

(* More times than any string of the model is long. *)
Many == 9
Star(e) == Rep(e, 0, Many)
Plus(e) == Rep(e, 1, Many)
Opt(e)  == Rep(e, 0, 1)

Digit == [n \in 0..9 |-> ASCII[n + 17]]

RECURSIVE Show(_)
Show(e) ==
    CASE e.op = "lit" -> <<e.c>>
      [] e.op = "any" -> <<".">>
      [] e.op = "set" -> (IF e.not THEN <<"[", "^">> ELSE <<"[">>) \o e.chars \o <<"]">>
      [] e.op = "word" -> <<"\\", IF e.not THEN "W" ELSE "w">>
      [] e.op = "at"  -> IF e.c \in {"^", "$"} THEN <<e.c>> ELSE <<"\\", e.c>>
      [] e.op = "cat" -> Show(e.l) \o Show(e.r)
      [] e.op = "alt" -> Show(e.l) \o <<"|">> \o Show(e.r)
      [] e.op = "grp" -> <<"(">> \o Show(e.e) \o <<")">>
      [] e.op = "ref" -> <<"\\", Digit[e.n]>>
      [] e.op = "rep" -> Show(e.e) \o
            (CASE <<e.lo, e.hi>> = <<0, Many>> -> <<"*">>
               [] <<e.lo, e.hi>> = <<1, Many>> -> <<"+">>
               [] <<e.lo, e.hi>> = <<0, 1>>    -> <<"?">>
               [] e.lo = e.hi                  -> <<"{", Digit[e.lo], "}">>
               [] e.hi = Many                  -> <<"{", Digit[e.lo], ",", "}">>
               [] OTHER -> <<"{", Digit[e.lo], ",", Digit[e.hi], "}">>)

(* The characters a bracket expression stands for. *)
Members(chars) ==
    UNION {IF chars[i] \in DOMAIN CharClass THEN CharClass[chars[i]]
           ELSE IF chars[i] = "-" /\ i \notin {1, Len(chars)}
                THEN CharsFrom(chars[i - 1], chars[i + 1])
           ELSE {chars[i]} : i \in DOMAIN chars}

(* Where an anchor or a boundary holds. *)
Holds(c, s, i) ==
    LET InWord(j) == j \in DOMAIN s /\ s[j] \in WordChars
    IN  CASE c \in {"^", "backquote"} -> i = 0
          [] c \in {"$", "'"}         -> i = Len(s)
          [] c = "b" -> i \in {0, Len(s)} \/ InWord(i) # InWord(i + 1)
          [] c = "B" -> i \notin {0, Len(s)} /\ InWord(i) = InWord(i + 1)
          [] c = "<" -> ~InWord(i) /\ InWord(i + 1)
          [] c = ">" -> InWord(i) /\ ~InWord(i + 1)

(* The ways to go on from a set of places: a place is how far the match    *)
(* has come and what each group has matched.                               *)
Here(i, caps) == [at |-> i, caps |-> caps]
Unmatched == <<-1, -1>>

RECURSIVE Parses(_, _, _), Repeated(_, _, _, _)
Parses(e, s, from) ==
    CASE e.op = "lit" -> {Here(h.at + 1, h.caps) : h \in {h \in from : h.at < Len(s) /\ s[h.at + 1] = e.c}}
      [] e.op = "any" -> {Here(h.at + 1, h.caps) : h \in {h \in from : h.at < Len(s)}}
      [] e.op = "set" -> {Here(h.at + 1, h.caps) : h \in {h \in from :
                              h.at < Len(s) /\ (s[h.at + 1] \in Members(e.chars)) # e.not}}
      [] e.op = "word" -> {Here(h.at + 1, h.caps) : h \in {h \in from :
                              h.at < Len(s) /\ (s[h.at + 1] \in WordChars) # e.not}}
      [] e.op = "at"  -> {h \in from : Holds(e.c, s, h.at)}
      [] e.op = "cat" -> Parses(e.r, s, Parses(e.l, s, from))
      [] e.op = "alt" -> Parses(e.l, s, from) \cup Parses(e.r, s, from)
      [] e.op = "grp" -> UNION {{Here(t.at, [t.caps EXCEPT ![e.n] = <<h.at, t.at>>]) :
                                    t \in Parses(e.e, s, {h})} : h \in from}
      [] e.op = "ref" -> {Here(h.at + h.caps[e.n][2] - h.caps[e.n][1], h.caps) :
                            h \in {h \in from :
                                LET a == h.caps[e.n][1]
                                    z == h.caps[e.n][2]
                                IN  /\ h.caps[e.n] # Unmatched
                                    /\ h.at + z - a <= Len(s)
                                    /\ SubSeq(s, a + 1, z) = SubSeq(s, h.at + 1, h.at + z - a)}}
      [] e.op = "rep" -> Repeated(e, s, from, 0)

(* From the places after n times: those that may stop, and more times. *)
Repeated(e, s, from, n) ==
    IF from = {} THEN {}
    ELSE (IF n >= e.lo THEN from ELSE {}) \cup
         (IF n < e.hi THEN Repeated(e, s, Parses(e.e, s, from), n + 1) ELSE {})

RECURSIVE GroupsOf(_)
GroupsOf(e) == CASE e.op \in {"cat", "alt"} -> GroupsOf(e.l) \cup GroupsOf(e.r)
                [] e.op = "grp" -> {e.n} \cup GroupsOf(e.e)
                [] e.op = "rep" -> GroupsOf(e.e)
                [] OTHER -> {}

(* The matches of an expression at place i of s: where each ends and what  *)
(* the groups matched.                                                     *)
MatchesAt(e, s, i) ==
    Parses(e, s, {Here(i, [n \in GroupsOf(e) |-> Unmatched])})

(* The matches that start where the leftmost one does. *)
Allowed(e, s) ==
    LET places == {i \in 0..Len(s) : MatchesAt(e, s, i) # {}}
    IN  IF places = {} THEN {}
        ELSE {[start |-> Min(places), end |-> h.at, caps |-> h.caps] :
                 h \in MatchesAt(e, s, Min(places))}
=============================================================================
