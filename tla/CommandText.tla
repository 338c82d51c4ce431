---------------------------- MODULE CommandText ----------------------------
(***************************************************************************)
(* What the program makes of a text: main and vgw_client read the command  *)
(* line option by option (params of hl/params.h, gate_way.cpp, client.h),  *)
(* and exec of virtual_gw.h tries the text of a remote command against one *)
(* COMMAND after the other.  Each asks an object of class regexp of its    *)
(* own.  The text of -scmd reaches exec as it is: it is shorter than       *)
(* MAX_CMD_LEN, and CommandProtocol models the way.                        *)
(*                                                                         *)
(* pc names the pattern that is being asked for; the object of a COMMAND   *)
(* block is dropped when the block has taken what it needs of it.          *)
(***************************************************************************)
EXTENDS Regexp

CONSTANT
    Lines       \* the command lines, sequences of characters

VARIABLES
    line,       \* GetCommandLine()
    pc,         \* the option or command whose pattern is asked for, or "done"
    wanted,     \* what the client is to send: "discovery", "command" or ""
    server_name, dev_num, tries, text,      \* what has been read of the line
    q_key, cmd, \* the queue a command names and the command for it
    did         \* what the program has done, in order

own == <<line, pc, wanted, server_name, dev_num, tries, text, q_key, cmd, did>>
read == <<server_name, dev_num, tries, text>>
vars == <<regexpVars, own>>

Chars(s) == [i \in 1..Len(s) |-> SubSeq(s, i, i)]
Spaces == Chars("[") \o <<"[:space:]">> \o Chars("]*")

(* Mistake: the queue has to be named at the start of the text. *)
QueuePatternAnchored == Chars("^q:([-_A-Za-z0-9]+) +(.*)")

QueuePattern == Chars("q:([-_A-Za-z0-9]+) +(.*)")

(* The pattern of each question, in the order main, vgw_client and exec    *)
(* ask them.                                                               *)
Pattern == [
    help        |-> Chars("[-/]h"),
    discovery   |-> Chars("-discovery"),
    scmd        |-> Chars("-scmd"),
    name        |-> Chars("-name=([-A-Za-z0-9_]+)"),
    i           |-> Chars("-i=([0-9]+)"),
    D           |-> Chars("-D"),
    v           |-> Chars("-v"),
    client_name |-> Chars("-name=([-_A-Za-z0-9]+)"),
    command     |-> Chars("-scmd(.*)"),
    t           |-> Chars("-t=([0-9]+)"),
    stop        |-> Chars("^") \o Spaces \o Chars("stop") \o Spaces \o Chars("$"),
    q           |-> QueuePattern,
    reset       |-> Chars("^reset"),
    qsize       |-> Chars("^qsize +([0-9]+)"),
    filter      |-> Chars("^filter +(.*)"),
    set         |-> Chars("^set:([0-9]+) +([a-z]+) +(.+)"),
    push_back   |-> Chars("^push_back +([a-z]+) +(.+)"),
    print       |-> Chars(" *print")]

(* What a pattern is matched against. *)
QueueCommands == {"reset", "qsize", "filter", "set", "push_back"}
Subject == CASE pc \in QueueCommands -> cmd
             [] pc \in {"stop", "q", "print"} -> text
             [] OTHER -> line

Atoi(digits) == FoldLeft(LAMBDA n, c : n * 10 + Ord[c] - Ord["0"], 0, digits)

Init ==
    /\ line \in Lines
    /\ pc = "help" /\ Constructed(Pattern["help"])
    /\ wanted = ""
    /\ server_name = Chars("unknown") /\ dev_num = 0 /\ tries = 4 /\ text = <<>>
    /\ q_key = <<>> /\ cmd = <<>>
    /\ did = <<>>

GoTo(next) == pc' = next /\ Construct(Pattern[next])
Done == pc' = "done" /\ UNCHANGED regexpVars
Did(what) == did' = Append(did, what)

(* The object of this question is ready, or has answered. *)
Ask == /\ pc # "done" /\ m.state = "unused" /\ Match(Subject)
       /\ UNCHANGED own
Answered(question) == pc = question /\ Returned
-----------------------------------------------------------------------------
(* main *)

Help ==
    /\ Answered("help")
    /\ IF Succeeded THEN Did([do |-> "help"]) /\ Done
       ELSE GoTo("discovery") /\ UNCHANGED did
    /\ UNCHANGED <<line, wanted, read, q_key, cmd>>

(* -discovery, then -scmd, make a client of the process. *)
Client ==
    /\ \/ Answered("discovery") /\ GoTo(IF Succeeded THEN "client_name" ELSE "scmd")
       \/ Answered("scmd") /\ GoTo(IF Succeeded THEN "client_name" ELSE "name")
    /\ wanted' = IF Succeeded THEN pc ELSE wanted
    /\ UNCHANGED <<line, read, q_key, cmd, did>>

Name ==
    /\ Answered("name") /\ GoTo("i")
    /\ server_name' = IF Succeeded THEN Part(1) ELSE server_name
    /\ UNCHANGED <<line, wanted, dev_num, tries, text, q_key, cmd, did>>

Interface ==
    /\ Answered("i") /\ GoTo("D")
    /\ dev_num' = IF Succeeded THEN Atoi(Part(1)) ELSE dev_num
    /\ UNCHANGED <<line, wanted, server_name, tries, text, q_key, cmd, did>>

(* -D has no group: the number read of it is that of an empty text. *)
ListDevices ==
    /\ Answered("D")
    /\ dev_num' = IF Succeeded THEN 0 ELSE dev_num
    /\ IF Succeeded THEN Did([do |-> "list"]) /\ Done
       ELSE GoTo("v") /\ UNCHANGED did
    /\ UNCHANGED <<line, wanted, server_name, tries, text, q_key, cmd>>

Serve ==
    /\ Answered("v") /\ Done
    /\ IF Succeeded THEN Did([do |-> "version"])
       ELSE Did([do |-> "serve", name |-> server_name, dev |-> dev_num])
    /\ UNCHANGED <<line, wanted, read, q_key, cmd>>
-----------------------------------------------------------------------------
(* vgw_client *)

ClientName ==
    /\ Answered("client_name") /\ GoTo(IF wanted = "scmd" THEN "command" ELSE "t")
    /\ server_name' = IF Succeeded THEN Part(1) ELSE server_name
    /\ UNCHANGED <<line, wanted, dev_num, tries, text, q_key, cmd, did>>

ReadCommand ==
    /\ Answered("command") /\ GoTo("t")
    /\ text' = IF Succeeded THEN Part(1) ELSE text
    /\ UNCHANGED <<line, wanted, server_name, dev_num, tries, q_key, cmd, did>>

(* The request is sent if there is a try to send it in. *)
Request ==
    LET n == IF Succeeded THEN Atoi(Part(1)) ELSE tries
    IN  /\ Answered("t")
        /\ tries' = n
        /\ IF n = 0 THEN Done /\ UNCHANGED did
           ELSE /\ Did([do |-> wanted, name |-> server_name])
                /\ IF wanted = "scmd" THEN GoTo("stop") ELSE Done
        /\ UNCHANGED <<line, wanted, server_name, dev_num, text, q_key, cmd>>
-----------------------------------------------------------------------------
(* exec of the gateway the command reaches.  No COMMAND ends the list: each *)
(* that matches is carried out, one that throws ends it.                   *)

Stop ==
    /\ Answered("stop") /\ GoTo("q")
    /\ IF Succeeded THEN Did([do |-> "stop"]) ELSE UNCHANGED did
    /\ UNCHANGED <<line, wanted, read, q_key, cmd>>

NamesQueue ==
    /\ Answered("q") /\ GoTo(IF Succeeded THEN "reset" ELSE "print")
    /\ q_key' = IF Succeeded THEN Part(1) ELSE q_key
    /\ cmd' = IF Succeeded THEN Part(2) ELSE cmd
    /\ UNCHANGED <<line, wanted, read, did>>

(* The call a queue command makes of the queue manager. *)
Call ==
    CASE pc = "reset"     -> [do |-> "clear_queue", q |-> q_key]
      [] pc = "qsize"     -> [do |-> "set_qsize", q |-> q_key, size |-> Atoi(Part(1))]
      [] pc = "filter"    -> [do |-> "set_filter", q |-> q_key, opt |-> Part(1)]
      [] pc = "set"       -> [do |-> "set", q |-> q_key, pos |-> Part(1),
                              type |-> Part(2), opt |-> Part(3)]
      [] pc = "push_back" -> [do |-> "push_back_qdisc", q |-> q_key,
                              type |-> Part(1), opt |-> Part(2)]

AfterCommand == [reset |-> "qsize", qsize |-> "filter", filter |-> "set",
                 set |-> "push_back", push_back |-> "print"]

QueueCommand ==
    /\ pc \in QueueCommands /\ Returned
    /\ IF Succeeded THEN Did(Call) /\ (GoTo(AfterCommand[pc]) \/ Done)
       ELSE GoTo(AfterCommand[pc]) /\ UNCHANGED did
    /\ UNCHANGED <<line, wanted, read, q_key, cmd>>

PrintAll ==
    /\ Answered("print") /\ Done
    /\ IF Succeeded THEN Did([do |-> "print_all"]) ELSE UNCHANGED did
    /\ UNCHANGED <<line, wanted, read, q_key, cmd>>

Program ==
    \/ Help \/ Client \/ Name \/ Interface \/ ListDevices \/ Serve
    \/ ClientName \/ ReadCommand \/ Request
    \/ Stop \/ NamesQueue \/ QueueCommand \/ PrintAll

Next == Ask \/ Program \/ (RegexpStep /\ UNCHANGED own)

(* One thread that never waits. *)
Spec == Init /\ [][Next]_vars /\ WF_vars(Next)
=============================================================================
