------------------------------ MODULE MCRegex ------------------------------
(***************************************************************************)
(* Instances of class regexp and of its users for TLC.  Either the program *)
(* reads a command line (CommandText), or a tester (pc = "free") makes an  *)
(* object of one pattern and matches MaxCalls strings with it.             *)
(***************************************************************************)
EXTENDS CommandText, RegexNull, RegexLanguage

CONSTANTS
    Exprs,          \* the tester's expressions
    BadPatterns,    \* the tester's patterns that are no expression
    Strings,        \* the strings the tester matches
    MaxCalls,       \* how many matches of one object
    Usage           \* command lines, with what they mean

Patterns == {Show(e) : e \in Exprs}

FreeInit ==
    /\ \E p \in Patterns \cup BadPatterns : Constructed(p)
    /\ pc = "free"
    /\ line = <<>> /\ wanted = "" /\ server_name = <<>> /\ dev_num = 0 /\ tries = 0
    /\ text = <<>> /\ q_key = <<>> /\ cmd = <<>> /\ did = <<>>

FreeMatch ==
    /\ Len(did) < MaxCalls
    /\ \E s \in Strings : Match(s)
    /\ did' = Append(did, "match")
    /\ UNCHANGED <<line, pc, wanted, read, q_key, cmd>>

(* The object is compiling or matching. *)
Working == comp.state # "done" \/ m.state \in {"match", "fail", "done"}

(* An object at rest may be left alone, so that a deadlock is a pattern or *)
(* a match that cannot go on.                                              *)
MCInit == Init \/ FreeInit
MCNext == \/ pc = "free" /\ FreeMatch
          \/ pc # "free" /\ (Ask \/ Program)
          \/ RegexpStep /\ UNCHANGED own
          \/ ~Working /\ UNCHANGED vars

(* Nobody has to use the object; what it has begun goes on.  This is the   *)
(* weak fairness of RegexpStep with Working in the place of its ENABLED,   *)
(* which would evaluate every step once more.                              *)
KeepsWorking == []<>~Working \/ []<><<RegexpStep>>_vars
MCSpec == MCInit /\ [][MCNext]_vars /\ KeepsWorking
-----------------------------------------------------------------------------
(* What the tester's expressions match, from RegexLanguage. *)

ExprOf == [p \in Patterns |-> CHOOSE e \in Exprs : Show(e) = p]
Possible == [p \in Patterns |-> [s \in Strings |-> Allowed(ExprOf[p], s)]]

Tested == pc = "free" /\ pattern \in Patterns /\ Returned
Choice == {h \in Possible[pattern][str] : h.start = m.pos /\ h.end = m.d}

(* A match is one: what the object reports starts where the leftmost match *)
(* starts, and the expression does match from there to its end; when it    *)
(* reports none, there is none, unless the failure stack was full.  This   *)
(* holds however the code of the pattern has been rewritten by the match   *)
(* before (maybe_pop_jump, succeed_n and jump_n).                          *)
MatchIsLeftmost ==
    Tested => /\ m.ret = "match" => Choice # {}
              /\ m.ret = "no match" => Possible[pattern][str] = {}

(* The match is the longest from its place, when there is no alternative   *)
(* outside of a group.  (With one it need not be: the end of the last      *)
(* alternative is not compared with the best match before it.)             *)
MatchIsLongest ==
    Tested /\ m.ret = "match" /\ ExprOf[pattern].op # "alt" =>
        \A h \in Possible[pattern][str] : h.end <= m.d

(* The groups tell one way in which the expression matches that part of    *)
(* the string: no register is left over from a way that was given up, or   *)
(* from a round of a loop that matched nothing.                            *)
GroupsTellTheMatch ==
    Tested /\ m.ret = "match" /\ ExprOf[pattern].op # "alt" =>
        \E h \in Choice : \A n \in DOMAIN h.caps : matches[n] = h.caps[n]

(* regcomp returns, and a match comes to an end, with or without success,  *)
(* whatever the code of the pattern does to itself on the way.             *)
MatchReturns == Working ~> ~Working

(* Option texts as substrings, which is how main finds them. *)
Options == {"-h", "/h", "-discovery", "-scmd", "-name=", "-i=", "-t=", "-D", "-v", "print", "q:"}
HasText(s, w) == \E i \in 0..(Len(s) - Len(w)) : SubSeq(s, i + 1, i + Len(w)) = w
OptionsIn(s) == {o \in Options : HasText(s, Chars(o))}

(* A command line of the usage text does what it says, and nothing else,   *)
(* from the options to the call that a remote command makes of the queue   *)
(* manager, provided that no option's text stands in a name or a command   *)
(* where it is not meant: main finds "-v" in -name=my-vgw as well.  A call *)
(* that throws is the last thing done.                                     *)
UsageIsUnderstood ==
    pc = "done" => \A u \in Usage :
        Chars(u.line) = line /\ OptionsIn(line) = u.options =>
            did = u.means
-----------------------------------------------------------------------------
(* The instance. *)

a == Lit("a")
b0 == Lit("b")

mcChars == {a, Dot, Set(<<"b">>, TRUE)}
mcGroups == {Grp(1, e) : e \in {a, Alt(a, b0), Alt(a, Cat(a, b0)), Star(a), Cat(Opt(a), b0),
                                 Cat(Grp(2, a), b0), Alt(Grp(2, a), Grp(3, b0)),
                                 Cat(a, Opt(Grp(2, b0))), Cat(Star(Grp(2, a)), b0)}}
mcLoops == UNION {{Star(e), Plus(e), Opt(e)} : e \in mcChars \cup mcGroups}
mcCounted == UNION {{Rep(e, 2, 2), Rep(e, 1, 2), Rep(e, 0, 2), Rep(e, 2, Many), Rep(e, 0, 0)} :
                       e \in mcChars \cup {Grp(1, a), Grp(1, Cat(Opt(a), b0))}}
mcRepeats == mcLoops \cup mcCounted
mcBackwards == {Cat(Star(g), Ref(1)) : g \in mcGroups \ {Grp(1, Cat(Star(Grp(2, a)), b0))}}
mcPlaces == {Cat(Where(c), Cat(Plus(Word(FALSE)), Where(d))) :
                c \in {"b", "<", "backquote", "^"}, d \in {">", "B", "'", "$"}}
            \cup {Cat(Plus(Word(FALSE)), Cat(Word(TRUE), Star(Word(FALSE))))}

mcExprs == mcRepeats \cup mcBackwards \cup mcPlaces
           \cup {Cat(e, t) : e \in mcRepeats, t \in {b0, Where("$"), Star(b0)}}
           \cup {Cat(Where("^"), e) : e \in mcRepeats}
           \cup {Alt(e, t) : e \in {Opt(a), Star(a), Grp(1, Star(a))}, t \in {b0, Cat(a, a)}}
mcStrings == UNION {[1..n -> {"a", "b"}] : n \in 0..3}
             \cup UNION {[1..n -> {"a", " "}] : n \in 2..3}
             \cup {Chars(s) : s \in {"aaaa", "abab", "bbaa", "aabba", "babab"}}

mcBadPatterns == {<<"a", "(">>, <<"[", "b", "-", "a", "]">>, <<"[", "a">>, <<"a", "\\">>}

(* The command lines of the usage text, and some that are not as plain. *)
Exe(s) == "vgw.exe " \o s
Serves(l, name, dev, options) ==
    [line |-> Exe(l), options |-> options,
     means |-> <<[do |-> "serve", name |-> Chars(name), dev |-> dev]>>]
Does(l, what, options) == [line |-> Exe(l), options |-> options, means |-> <<[do |-> what]>>]
Discovers(l, name, options) ==
    [line |-> Exe(l), options |-> options \cup {"-discovery"},
     means |-> <<[do |-> "discovery", name |-> Chars(name)]>>]
Commands(l, name, options, calls) ==
    [line |-> Exe(l), options |-> options \cup {"-scmd"},
     means |-> <<[do |-> "scmd", name |-> Chars(name)]>> \o calls]
Queue(c, args) == <<[do |-> c, q |-> Chars("p2p")] @@ args>>

mcUsage == {
    Serves("-name=Server_1 -i=12", "Server_1", 12, {"-name=", "-i="}),
    Serves("-name=my-vgw -i=1", "my-vgw", 1, {"-name=", "-i="}),
    Serves("-i=3", "unknown", 3, {"-i="}),
    Does("-h", "help", {"-h"}),
    Does("-D", "list", {"-D"}),
    Does("-v", "version", {"-v"}),
    Discovers("-discovery", "unknown", {}),
    Discovers("-name=S -discovery -t=2", "S", {"-name=", "-t="}),
    Commands("-name=S -scmd stop", "S", {"-name="}, <<[do |-> "stop"]>>),
    Commands("-t=12 -name=S -scmd  stop ", "S", {"-name=", "-t="}, <<[do |-> "stop"]>>),
    [line |-> Exe("-t=0 -scmd stop"), options |-> {"-t=", "-scmd"}, means |-> <<>>],
    Commands("-scmd don't stop", "unknown", {}, <<>>),
    Commands("-scmd print", "unknown", {"print"}, <<[do |-> "print_all"]>>),
    Commands("-scmd q:p2p reset", "unknown", {"q:"}, Queue("clear_queue", <<>>)),
    Commands("-scmd q:p2p  qsize 90", "unknown", {"q:"}, Queue("set_qsize", [size |-> 90])),
    Commands("-scmd q:p2p filter dport 80-90", "unknown", {"q:"},
             Queue("set_filter", [opt |-> Chars("dport 80-90")])),
    Commands("-scmd q:p2p set:2 band rate 9", "unknown", {"q:"},
             Queue("set", [pos |-> Chars("2"), type |-> Chars("band"), opt |-> Chars("rate 9")])),
    Commands("-scmd q:p2p push_back  delay 50", "unknown", {"q:"},
             Queue("push_back_qdisc", [type |-> Chars("delay"), opt |-> Chars("50")])),
    Commands("-scmd q:print reset", "unknown", {"q:"},
             <<[do |-> "clear_queue", q |-> Chars("print")]>>)}
mcLines == {Chars(u.line) : u \in mcUsage}
=============================================================================
