# A TLA+ model of the virtual gateway

The virtual gateway (VGW) captures raw Ethernet frames under a MAC address of
its own, gets an IP address by DHCP, answers ARP for it, and forwards the
packets hosts send to it. On the way it holds them in named queues whose
disciplines drop them at random, limit their rate or delay them. A control
client sets the queues up over UDP. This directory holds TLA+ modules that model
that program, TLC configurations that check them on small instances, and proofs
that TLAPS checks for all instances. Sources are named relative to the
repository, so the program is in `src/`.

## The system

### Components

| Component (source) | State | Operations | Interacts with |
|---|---|---|---|
| Packet queue: `packets_raw_queue`, `npacket` (nqueue.h, npacket.h) | FIFO, bytes held, limit, statistics | push, pop, drop_front, set_queue_size | owned by an `nqueue` |
| Disciplines: rloss, band, delay (nqueue.h) | rloss: last uid drawn; band: quota, last time; delay: none | can_pop | drop from the packet queue they are shown |
| Queue dispatcher: `queue_dispatcher`, `nqueue` (nqueue.h) | map of named queues, two events, a lock, the worker's clock and iterator | push; reset, qsize, filter, set, push_back, print; worker loop; stop_join | main thread and worker share the map under the lock; the worker transmits |
| Filter: `nfilter` (nfilter.h) | two address filters, two port filters | set_options, operator() | decides which queue takes a packet |
| DHCP client (dhcp_client.h) | address, server, configured flag, xid | send_discover, dispatch (OFFER, ACK, NAK), send_release | DHCP servers by broadcast; main loop reads its flag and address |
| ARP client (arp_client.h) | copy of the address, ARP table | set_ip, dispatch (request, reply), get_mac | hosts; router asks for MACs |
| Router (router.h) | none of its own | dispatch | get_mac, then push into the dispatcher |
| Control server: `virtual_gw` (virtual_gw.h) | server name | dispatch, exec, send | called first for each frame; calls the dispatcher; sets the stop flag |
| Control client: `vgw_client` (client.h) | a socket, the try counter | request, dispatch | broadcasts to the servers |
| Main loop (gate_way.cpp, ctrl_break_handler.h) | stop flag | capture loop, start, end | offers each frame to the components in turn |
| Statistics (statistics.h) | windowed counters | add, show_stat | printed by the worker |
| Threads, events, locks, reference counts (hl/) | | | used by the dispatcher |
| Texts: `params`, `regexp` (hl/params.h, hl/regexp.h); COMMAND (virtual_gw.h) | the command line; per object a compiled pattern and the last match | read, check; match, operator[] | main, the client and exec ask one object after the other |
| Regular expressions (hl/regex.c, hl/regex.h) | the code of a pattern; per match the failure stack, registers and the best match | regcomp, regexec, regfree | `regexp` owns the code; a match rewrites it |
| Sockets (net/), capture (pcap_wrapper.h), virtual MAC (vmac.h), layouts and checksums (protocols/) | | | the operating system |

`timer.h` and `udp_client.h` are not included by anything, and the blocks of
nfilter.h, arp_client.h and dhcp_client.h between `/*` and `*/` are not compiled.

### What is hard about it

* *Two threads over one map.* The main thread executes commands and pushes
  packets; the worker walks the map and sends. The clock and the stop event are
  outside the lock.
* *A chain of disciplines that all act on one queue.* Each may drop packets from
  the front, after the ones before it have judged, drawn for or charged the
  packet that was there.
* *Accounting in several places.* Bytes held, packets in, lost and out, quota,
  and the last uid drawn must agree with a FIFO that five operations change.
* *A handshake without retransmission or comparison.* The DHCP client sends each
  message once, takes every offer, and takes any ACK for the last one.
* *A control protocol with retries and no identity.* Requests are sent again;
  copies are executed again; replies do not say what they answer.
* *Order of dispatch.* Each frame is offered to control, DHCP, ARP and routing
  in that order, and the later ones rest on what the earlier ones have set.

* *A matcher that rewrites its own program.* Every text goes through the copy of
  GNU regex in hl/regex.c. It compiles a pattern to byte code and runs it with a
  stack of failure points; loops decide while they run whether they ever have to
  backtrack and overwrite their op code, counted repetitions count down in the
  code, and empty rounds of a loop must neither go on forever nor leave their
  registers behind.
* *Texts searched for anywhere.* Options and commands are patterns tried one after
  the other, most of them not anchored, on the whole command line.

What makes each component correct is stated as the properties below; PROJECT.json
lists each hazard at its line with the properties that watch it.

## Modules

| Module | Models | Builds on |
|---|---|---|
| `PacketsRawQueue` | the packet queue as operators on a record | |
| `Qdisc` | the disciplines: what can_pop reads and assigns | `PacketsRawQueue` |
| `QueueDispatcher` | main thread and worker over the map of queues | `Qdisc` |
| `TokenBucket` | the band alone, in ints that wrap | `Qdisc` |
| `LossyFifo` | abstract: what a named queue promises | |
| `NFilter` | set_options and operator() of the filter | |
| `DhcpClient` | the DHCP client, with servers and network | |
| `DhcpOptions` | the loop that reads the options of a reply, octet by octet | |
| `DhcpReplies` | the replies on their way, in every form a server may write them | `DhcpClient`, `DhcpOptions` |
| `CommandProtocol` | control client and servers, with the network | |
| `GateWay` | the main loop over DHCP, ARP, router | INSTANCE of `DhcpClient` |
| `RegexCode` | the byte code of patterns: op codes, numbers, insertion, bitmaps | |
| `RegexCompile` | regex_compile, one action per case of its switch | `RegexCode` |
| `RegexNull` | the predicates on whether a group can match nothing | `RegexCode` |
| `RegexMatch` | re_match_2, one action per op code, and the search; the predicate of `RegexNull` is its constant `MatchNull` | `RegexCode` |
| `Regexp` | class regexp: an object that compiles once and matches again and again | `RegexCompile`, `RegexMatch` |
| `CommandText` | main, vgw_client and exec reading the command line and a command | `Regexp` |
| `RegexLanguage` | abstract: what an expression matches, as a set of ways | |
| `QueueDispatcherProofs` | theorems about `QueueDispatcher`: types; order and refinement; the other invariants | TLAPS |
| `TokenBucketProofs` | theorems about `TokenBucket` | TLAPS |
| `NFilterProofs` | theorems about `NFilter` | TLAPS |
| `CommandProtocolProofs` | theorems about `CommandProtocol` | TLAPS |
| `DhcpClientProofs` | theorems about `DhcpClient`, `DhcpOptions` and `DhcpReplies` | TLAPS |
| `GateWayProofs` | theorems about `GateWay` | INSTANCE of `DhcpClientProofs`, TLAPS |
| `RegexpProofs` | theorems about `Regexp`: the compiler's addresses, rejected patterns | TLAPS |
| `RegexCodeProofs` | theorems about `Regexp`: the code while the matcher runs and rewrites it, the failure stack | `RegexpProofs` |
| `MC*` | instances for TLC | |

Operators named for a mistake (`PushOnTop`, `HearsForeign`, ...) stand before the
definition they spoil. No specification uses them. With one of them in place of
the definition TLC finds the property named in PROJECT.json violated, which shows
that the property depends on what the code does there.

### QueueDispatcher

`nq_list` is a function over all names; `keys` are the names that are in the map,
and a name that is not holds a fresh queue. `operator[]` inserts a name, so every
command but reset adds to `keys` (`Touch`), a failing one too (`FailedCommand`).

Each operation of the main thread runs in one critical section and is one
action, enabled when the worker does not hold the lock. The worker's pass over
the map is many steps, because the clock and the stop request do not take the
lock: `pc = "pass"` is the time it holds the lock, `itr` the names it has not
visited, `i` the discipline it is at. The steps are

* `LoopTest`, `WaitNewPacket`, `ReadClock`: the test of the stop event, the wait
  whose result nobody looks at, and `timer.get_time()`, read before the lock;
* `BeginPass`, `EndPass`: the lock and the iterator. The `for` around the pass
  never runs twice: its increment clears the variable its test reads;
* per discipline: `RlossDraw` and `BandDrop` are one iteration of the loop in
  can_pop, `RlossDecide`, `BandUnlimited`, `BandDecide`, `DelayDecide` its return;
* `NoQdisc` and `PacketOut`: packet_out of a queue without disciplines, and the
  transmission.

The value `rand() % 100` is abstracted to the outcomes the configured loss allows.
`last_ts` starts as any value of `Garbage`, because the constructor of the band
does not set it. An access to the front of an empty queue is undefined: `pop` is
taken to end the process (`pc = "crashed"`), and the read in the delay discipline
to end it or to return either answer. Integers are unbounded; `TokenBucket` has
the arithmetic. The statistics pass
of the worker prints, under the lock, and is left out; the counters are reduced to
the number of packets each was given.

### TokenBucket

The band of `Qdisc` in the arithmetic it is compiled to. An int is a number of
`Ints` and `Wrap` is what a result becomes when it is stored in one: the clock,
the time since the last poll, its product with the rate, and the quota all wrap.
Signed overflow is undefined in C++; wrapping is what the compilers of this
program do. The worker polls (`Poll`) at intervals from `Gaps`; each poll finds a
packet of any size at the front or none. `sent` counts what has been let through
since `since`, and an observer starts a new count whenever he likes, so a bound on
`sent` is a bound on every interval.

### DhcpClient

One action per message type of `dispatch` (`RecvOffer`, `RecvAck`, `RecvNak`),
`Ignore` for replies of another xid or to a configured client, `SendDiscover`,
`ExitLoop` and `Destroy`, which both call `send_release`, and
`Unwind`, the end by an exception, which only destroys the client. A datagram is a
record in a set, one set per receiver, so datagrams are reordered freely; they
are lost and repeated within bounds. A server offers the address it has set
aside, commits it when it is asked for its own offer, may refuse, withdraws when
another server's offer is asked for, and forgets the lease on RELEASE. With two
servers that both commit, the client may go by the wrong one (`dhcp_two_servers`);
`LoneLeaseIsUsed` is what remains true.

What a reply says is what `DhcpOptions` reads of it. `Following` is one round of the
loop over `options`: every octet it stops at is a code with a length behind it, and
the End option only sets the index far behind the limit, so the length that is added
then is read from there. A server's reply is a list of `Field`s, `Encoded`, in front of
an End option and whatever is in memory behind it; `ReadAsMeant` says that the last
field of each kind is what the program goes by. Fields are written without Pad
options: the parser takes a Pad for an option with a length, so a reply that begins
with one is misread. `DhcpReplies` joins the two: a reply of `DhcpClient` stands for
each of the forms in `FieldLists` its server may write it in, and `OptionsAreRead` says
that whatever is on its way will be read as its server meant it.

### CommandProtocol

The client's `request` is `SendRequest` (a try), `Read` (the first datagram in
the socket), `Timeout` and `GiveUp`. `Dispatch` is virtual_gw's dispatch, exec
and reply. A behaviour runs one script of `Scripts`, command after command, each
in a new process. Commands are told apart by how they end: executed, failed with an
exception (reply 0), `stop`, and a filter command whose address `ip_address`
refuses. That constructor throws a string, exec catches only `std::exception`,
and `main` catches the rest, so such a command ends the gateway with no reply.
Replies do not say what they answer, so one that is late is taken for the answer to
the next command; the history variable `clean` keeps the commands that were run when
no datagram was left of an earlier one, and `SuccessMeansExecuted` is about those.

### NFilter

An address is its bits, a mask the number of leading bits it compares, a port a
number of two digits. `MaskBits` is the shift `32 - (len && 0x1F)`: 31 for every
length but 0, and 32, which is undefined, for 0. `Htons` swaps the two digits of
a port.

### The regular expressions

`RegexCompile` and `RegexMatch` go byte by byte over the code the C program
builds, because the hazards are there: addresses that move when an op is inserted
before them, ops that overwrite ops, a byte that is read as an op after it was
written as an argument. Their states are records of the locals of regex_compile
(`comp`) and re_match_2 (`m`). `comp.state` is "loop" in the switch and "bracket"
in the loop over a bracket expression; `m.state` is "match" at the top of
re_match_2's loop, "fail" at its label of that name, "done" when it has returned
to the search, "returned" when regexec has. Addresses count from 1, so that 0 is
the null pointer; a byte past the end is `Garbage`. Syntax, translation and
newline behaviour are those of REG_EXTENDED without other flags, the only ones
`regexp` asks for.

The predicate on groups that can match nothing is recursive over the code. It is the
constant `MatchNull` of `RegexMatch`, which the configuration gives the value
`GroupMatchNull` of `RegexNull`; what is proved about objects holds whatever it says.

While it compiles, regex_compile keeps addresses into code that moves: `laststart`,
`begalt`, `fixup`, `pending`, and three of them for every open group. `AddressesHold`
says what each must point at, after every case of the switch, and
`RepeatsOneCharacter` that the character an operator is about to repeat has not been
taken into the string before it.

`Regexp` keeps the code `m.buf` from one match to the next, as the object does.
`CommandText` has one action per question: `pc` names the pattern whose object is
at work, and the action that takes the answer makes the next object. `did` is the
list of what the program has done, in the end the calls of the queue manager.
Whether a call of the queue manager throws is open, so every queue command may be
the last. The texts of filter and discipline options are handed on; `NFilter` and
`Qdisc` start from what they parse to. `main` needs an adapter to serve at all,
and takes any number after -i= for one; that list is the system's.

`RegexLanguage` says what an expression matches: `Allowed(e, s)` is the set of
all ways, each with its start (the leftmost at which there is any), its end and
what its groups took. It knows nothing of code. `MCRegex` writes each expression
as the pattern a user would (`Show`) and compares.

Some expressions are left out of the instance because the matcher is known to
treat them differently. (1) An alternative outside of any group that is tried
last is not compared with the best match so far (regex.c:3415), so on `bb` the
pattern `a*|b` matches nothing at the start instead of `b`; and registers of an
alternative that was given up stay. The two properties about the longest match
and the groups do not speak of patterns with such alternatives. (2) The groups
inside a repeated group that can match nothing, as in `((a)*(b)*)*`: the comment
at regex.c:3751 says that they are not restored, and a back reference after
them sees it. (3) Counted groups with alternatives, `(a|ab){2}`, and
`(a*){2,}`: their counters are in the code and are not put back when the matcher
backtracks. No pattern of the program is of these kinds.

### GateWay

The main loop over `DhcpClient` (an instance that shares its variables), the ARP
client and the router. Receiving a frame and handling it is one action. `Handles`
is the common beginning: the frame was not for virtual_gw, the client is
configured, and `set_ip` has been called. A packet the router accepts is recorded
in `routed`; what happens to it then is `QueueDispatcher`.

## Runs

| Run | Checks | Result |
|---|---|---|
| `dispatch` | types; packets in = sent + lost + waiting; bytes held; the limit is exceeded by one packet at most; quota between one packet of debt and the burst; no packet faces a lottery twice; pop never meets an empty queue in a chain with a lossy or limiting discipline; no overdue packet passes a band; a queue keeps the order of arrival | holds |
| `two_queues` | the worker's iterator and index stay valid; `LossyFifo` is implemented; every packet leaves a lossy queue; a stop ends the worker | holds |
| `token_bucket` | types; from any moment on a band sends no more than burst, rate and one packet, in arithmetic that wraps | holds |
| `slow_band` | a packet is not refused for longer than the rate takes to earn it back | violated (nqueue.h:118) |
| `delay_releases` | a delayed packet leaves when its delay is over | violated (nqueue.h:145) |
| `filters` | whole addresses and single ports select exactly; a mask never refuses its subnet | holds |
| `filter_masks` | a mask selects its subnet | violated (nfilter.h:104) |
| `regex` | a match starts leftmost and is one of the expression; it is the longest; its groups tell one way of matching; a loop that drops a failure point has one; only op codes are run; the failure stack gives up only when it is full; the compiler's addresses stay those of what they were taken for; an operator repeats one character; the object of a pattern that is no expression reports the empty match only; every command line of the usage text becomes the calls it names; every match returns | holds |
| `dhcp` | types; a configured client holds a committed lease, and goes by it where it is the only one; the options of every reply are read as meant; the lease is released once and silently never; the client gets configured if nothing is lost or refused | holds |
| `dhcp_two_servers` | the address of a configured client is one its server has committed | violated (dhcp_client.h:82) |
| `commands` | types; exit code 1 means executed by the named gateway; an ended gateway does nothing more; a client returns | holds |
| `gateway` | types; no ARP frame in the name of an address that is not set aside for the client, nor without a lease; a host that keeps sending gets through | holds |

The violated ones are disagreements between the code and what the repository says
of it; "findings" in PROJECT.json quotes the lines. Four more of the kind were met
and have no run. A Pad option is taken for one with a length octet
(dhcp_client.h:70), which protocols/dhcp.h:76 says it has not. A range of ports is compared with the bytes of its ends swapped
(nfilter.h:129), so it is not the ports between them. A band behind an rloss drops the packet the lottery has passed,
and the one sent in its place has not been through it (nqueue.h:193). And a
discovery is answered before any address has been offered, from 0.0.0.0
(gate_way.cpp:111). A command whose reply comes too late is sent and executed again
(client.h:24); nothing says that it is not.

### Bounds

* `dispatch`: one queue, three packets of 15 and 16 bytes (one and two bytes of
  payload), three instants, chains of two. Two disciplines are what is needed for
  one to act behind another's back, three packets for one to be dropped, one to be
  sent in its place and one to wait; the limits 15 and 20 are reached by two
  packets; a burst of 2 and a rate of one byte per instant make the quota positive,
  zero and negative; -5000 as garbage makes the first quota as large as it gets.
* `two_queues`: two names, so that a pass has a queue behind and one ahead of the
  worker; two flows, so that filters send them apart or together; two packets.
  Chains have one discipline of any type that does not look at the clock,
  unlimited bands included, so the clock stands.
* `token_bucket`: an int of four bits, a second of two ms and gaps between polls of
  up to two rounds of the clock, so that clock, product and quota wrap in every
  combination; packets of one and three bytes of payload. `slow_band` has the
  program's numbers, but for the width of an int, which plays no part in it.
* `dhcp`, `dhcp_two_servers`: two addresses and two servers; in the first, one ACK
  for another client, one datagram lost and one repeated, any of them. The client
  sends three kinds of datagrams, so one fault can hit each step of a handshake, and
  two servers are needed for offers, withdrawals and ACKs to cross. Two equal
  datagrams on the way to the same receiver count as one.
  The options: lists of up to three fields whose data are codes and End octets, with
  long ones so that a list ends one octet before, at and behind the limit of 300, and
  five fillings of the memory behind them.
* `commands`: the first command is accepted, fails or kills the gateway, the second is a stop,
  so both ends of a gateway and both exit codes occur; two tries, so that a reply to
  the first meets the second, or the next command; a second gateway has another
  name.
* `filters`: three bits and two-digit ports in base 4, some of which are their own
  mirror images. Masks of every length from 0 to 3 are tried.
* `regex`: the expressions are loops (`*`, `+`, `?`), counts (`{2}`, `{1,2}`, `{0,2}`,
  `{2,}`, `{0}`) and back references over single characters, sets and nine groups with
  loops, alternatives and groups inside, alone and followed by something that may or
  may not begin as the loop does, so that both decisions of maybe_pop_jump occur;
  all the boundaries; alternatives without a group. The strings are all of two letters up to length 3,
  some with spaces, and five longer ones. Two matches of one object are needed for
  the second to run what the first has rewritten. re_max_failures is 8, not 2000, so
  that the failure stack doubles and fills with short strings. The texts are the
  program's own patterns, character by character, and one command line for each
  line of the usage text with variants in spacing and in names.
* `gateway`: two hosts, so that each routes to the other; two addresses, so that an
  ARP request asks for one that is not the gateway's; one offer to another client,
  one datagram and one ARP frame lost, one change of a card.

All runs but `regex` do not check for deadlock, because the clock, the packets and the script of
each model are bounded and the program itself may be stopped. In `regex` an object at
rest may stutter, so that a deadlock is code that no action can run.

### Fairness

`QueueDispatcher`: weak fairness of the worker, a runnable thread that never waits
longer than 10 ms, and of the clock. Nothing is assumed of the main thread; that
the lock becomes free for the worker is part of the model, as the main thread holds
it for one action. `DhcpClient`: weak fairness of start-up, of reading replies, of
the destructor, and, in the servers' place, of answering. Nothing makes the loop
end. `GetsConfigured` assumes of a behaviour that nothing is lost and refused. `CommandProtocol`: weak fairness of the client's own steps; nothing makes a
gateway or the network act. `GateWay`: a host that has something to send sends it
again, hosts answer ARP, the loop reads what is captured; losses are bounded, which
stands for a network that does not lose every frame. `regex`: what an object has
begun, a compilation or a match, goes on; nobody has to use it. `KeepsWorking` is the
weak fairness of its steps with the definition of ENABLED replaced by `Working`,
which is when they are enabled (the absence of deadlock shows that).

## Proofs

What is proved holds for every value of the constants: any set of names, flows,
filters, disciplines, sizes, limits and garbage; any number of servers, addresses,
hosts and gateways; any script of commands; any bound on tries, losses, repetitions
and packets. The only assumptions are the ASSUMEs of the modules, which say what
kind of thing a constant is. `SizesAssumption` says that no frame is shorter than
its Ethernet header of 14 bytes, as the payload is the size less 14; the capture
delivers none. The three theorems about the code of regular expressions have
hypotheses, which are explained below.

| Module | Theorems |
|---|---|
| `QueueDispatcherProofs` | `TypeCorrect`: `[]TypeOK`; `QueuesKeepOrder`: `[]ArrivalOrder`; `QueuesAreLossyFifos`: `LossyFifoPromise`; `PacketsAreConserved`, `BytesAreAccounted`, `CountersNeverWrap`, `LimitsHold`, `QuotasAreBounded`, `LotteriesAreHeldOnce`, `PopIsSafe`, `DelaysAreBounded`, `IteratorsStayValid`: `[]` of `Conservation`, `ByteAccounting`, `LimitBound`, `QuotaBound`, `LotteryOnce`, `PopsAPacket`, `WithinMaxDelay`, `IteratorValid` |
| `TokenBucketProofs` | `BandTypeCorrect`: `[]TypeOK`; `BandKeepsItsBound`: `[]RateBound` |
| `NFilterProofs` | `ExactFiltersAreExact`, `SubnetsAreAccepted` |
| `CommandProtocolProofs` | `TypeCorrect`, `StopIsFinal`: `[]NothingAfterStop`, `SuccessIsExecution`: `[]SuccessMeansExecuted` |
| `DhcpClientProofs` | `TypeCorrect`, `LeaseIsUsed`: `[]LoneLeaseIsUsed`, `LeaseIsReleased`: `ReleasesItsLease`; `FieldsAreRead`: what the parser finds in any list of fields; `RepliesAreRead`: `[]OptionsAreRead` |
| `GateWayProofs` | `TypeCorrect`, `SpeaksTrue`: `[]SpeaksForItsLease` |
| `RegexpProofs` | `AddressesAreKept`: `[]AddressesHold`; `CharactersRepeatAlone`: `[]RepeatsOneCharacter`; `RejectedMatchesNothing`: `[]RejectedIsEmpty` |
| `RegexCodeProofs` | `OnlyOpCodesRun`: `[]RunsOpCodes` and `LoopsDropTheirOwn`: `[]PopsWhatWasPushed`, of objects whose code is short; `OverflowsOnlyWhenDeep`: `[]OverflowIsDeep`, if there are also no more than 255 groups and the active registers are in order |

**The queue dispatcher.** `TypeOK` is inductive by itself: each operator on queues
and disciplines has a lemma about its type, each assignment to `nq_list` that
changes one field of one queue has another, and there is one lemma per action.

`ArrivalOrder` is inductive given `TypeOK`. Before it comes
`NextShape`: a step either appends the packet with the next number to one FIFO, or
removes the front of one, with or without delivering it, or replaces one by an
empty one, or leaves all FIFOs and delivered numbers alone. The order of arrival
and the refinement follow from the shapes alone. The property includes that the
last packet delivered is older than all that wait, and that no number is above
`uid_base`: without these parts the delivery and the arrival of a packet do not
preserve it. The refinement maps `latest` to `uid_base`, `waiting` to the numbers in
the FIFOs, and `delivered` to the last number sent from each queue, a history field.

The other invariants go the same way with the whole queue. `QueueStep` names
everything a step may do to one: a push let in or refused, a drop from the front, a
transmission, a new limit, an erasure, a longer chain, a discipline replaced by one
of its successors. Every action is one of these at one queue (`Moves`), so what
concerns one queue is proved step by step of a queue, without looking at threads:
the account of packets and the limit, and that every discipline is `Solvent`, which
is the quota's bound and holds of a discipline when it is created and after each
poll. `LotteryOnce` relates a discipline to the front of its queue: every lottery
has drawn for nothing newer than the front packet, or, in an empty queue, than
`uid_base` (`Tested`, `Front`), and by the order of arrival that bound only rises.

The byte account is a sum over a FIFO, computed by a recursive function, and what
such a function does when a packet is added behind or taken from the front is an
induction over its length. The library's theorems of induction take a predicate as a
parameter, which the provers cannot instantiate. So the set of the numbers for which
the fact holds takes the predicate's place: `LeastNumber`, from the well-foundedness
of the order of the naturals, gives a least counterexample, and `Induction` that there
is none. With that, a push, a drop, a pop and an erasure each keep the account
(`BytesAreAccounted`). `CountersNeverWrap` is what the unsigned counter needs of it:
the front packet's size is a summand, so the counter is never less.

`PopsAPacket` and `WithinMaxDelay` are about the place of the worker in the chain,
and are not inductive. `PassOK` is: of every discipline the worker has passed, the
front packet is not overdue for it, since whatever was dropped in between was older;
and if one that needs a packet has said true and the queue is empty now, then the
discipline the worker is at has emptied it, and needs a packet too, so it will say
no. `IteratorValid` needs to know of the lock: commands run while the worker does not
hold it, so within a pass the map and the chains stand still (`MapOK`).

**The token bucket.** `RateBound` needs `Inductive`: what is sent in a count and what
is left of the quota come together from the burst and the time counted
(`Accounted`), the stored time stamp is the wrapped time of the last poll
(`Remembers`), and the quota is no more than the burst (`Capped`). The step that
matters is `EarnedBound`. An int differs from the number it stands for by a multiple
of its range and is never larger in size, so neither the time between two polls nor
its product with the rate comes out larger than it is; and for the times it
suffices that two numbers of the range that differ by a multiple of it are equal.

**The filter.** Nothing changes once a filter is set, so the theorems are about the
operators. That a single port is found although the program compares swapped numbers
rests on the swap being injective (`HtonsInjective`), for every base. A mask of any
length but 0 compares the first bit alone, on which the addresses of its subnet agree.

**The command protocol.** `SuccessMeansExecuted` speaks of one command among many, and
a late reply says nothing about whose it is. The invariant `Kept` traces each datagram:
a reply on its way tells the result of a command that the named gateway has executed
(`Honest`), and if no datagram was left when a command began, every datagram since is
about it (`Isolated`), so the first reply in the socket is its answer.
`NothingAfterStop` is inductive with the types: only `Dispatch` writes a log, and only of
a gateway that runs.

**The DHCP client and the gateway.** One invariant, `IInv`, carries the three theorems
about the client. An offer is of the address its server has set aside (`Traced`); a
REQUEST or an ACK means that there was an offer (`Answered`), without which a RELEASE
might name no address; and until something is released a lease that is committed
stays so, so a configured client holds one (`Unreleased`, `Held`). `GateWayProofs`
takes the invariant over through the instance: every step of the gateway is one of the
client or leaves it alone. That no frame speaks for an address that is not leased
then needs only that `arp_client` is given the address for the frame it handles. With
several servers that commit, the client may go by the wrong one; what is proved for any
number of them is that the address is the one its server has set aside and that there is
a lease, which with one server says that the address is leased.

**The DHCP options.** `FieldsAreRead` is about the loop as the code has it, which knows
no field boundaries. Written one after the other the fields begin at certain positions
(`Laid`), and the loop stops at these, at End, and nowhere else within the limit: it
begins at one, and the length octet leads from one to the next, whatever the data are
(`Stops`). End is taken for one more option and sends the index behind the limit, as long
as that is no more than the 9999 it jumps by. What the loop keeps is thus what the last
field of each kind says. That the recursive functions involved exist and obey their
equations is proved first, again by a least counterexample. `RepliesAreRead` carries it
to the replies on their way, of which `DhcpClientProofs` knows the types.

**The regular expressions.** The compiler's invariant is `Sound`: the code and the stack
of open groups have the right shape (`Placed`), each level of the stack begins behind
the `start_memory` of the group it is in, and the place left for a jump is in the level
it belongs to. The nesting is what makes the rest inductive: inserting an op at
`laststart` or behind `begalt` moves only code of the innermost level, so the addresses
kept for the outer ones stay right (`GroupsKept`), and every case of the switch comes
down to pushing behind, inserting in the innermost level, or storing into a place left
for it. `BracketHolds` is needed because a bracket expression pushes a bitmap: what has
been read of one are characters, so the bitmap has its length. There is one lemma per
case of the switch, as there is one action. An object whose pattern was rejected
(`RejectedHolds`) goes only through being made, an empty buffer at the start of the
search, and a match at the first position: with no code there is no op to run, and
`Garbage`, which stands for a byte that is not there, is no op.

**The code of regular expressions.** Every expression, every string and every number of
matches of one object. The invariant is `Code`: there is a set of addresses at which ops
stand, one behind the other, and each address has a level, the least number of failure
points a match has on its stack when it comes there. `OpOK` says of each op that its
arguments are there and name existing groups, that wherever it may lead (`Leads`) is an op
whose level is reached, and that a counter it works on (`Refers`) is one. A loop's
maybe_pop_jump leads to an op one level lower, as it may have to drop a point.

That the compiler builds such code (`CodeHolds`) is harder than that its addresses are
right. An op is inserted while others behind and before it are there, and the relative
jumps of these move or do not; they stay right because code is inserted only at `Barriers`,
which no jump crosses and where the level is 0. Three bytes left for a jump that is stored
later are no op yet (`Places`). The addresses and levels of the longer code are built from
those of the shorter (`InsertedCode`, `PushedCode`), and there is again one lemma per case
of the switch.

That the matcher keeps it (`RunsOn`) is about what it writes: the counters of
succeed_n and jump_n, the no_ops in place of a succeed_n that has counted down, and the op code
of a maybe_pop_jump, which may become a jump or a pop_failure_jump. The addresses and levels
are those of the compiler for ever. What the matcher is about to run is an op, possibly behind one or
two such no_ops (`Stands`), and every point on the stack leads to an op whose level
the points below it reach (`StackHolds`). `OnlyOpCodesRun` follows, which says that the default
of re_match_2's switch, an abort of the program, is never reached, and `LoopsDropTheirOwn`.

Both rest on `ShortCode`, less than 3584 bytes of code. When a group has matched nothing,
stop_memory asks whether the jump behind it leads back to an on_failure_jump, and if it
does it pushes a failure point where that one leads. For a jump_n it looks two bytes behind
the place to which the jump really goes (regex.c:3728), so at the high byte of the
displacement of a succeed_n. If that byte were 14, the op code of on_failure_jump, an
address that is none would be pushed; it is less in code shorter than 14 * 256 bytes. The
longest pattern of the program compiles to less than 150 bytes.

`OverflowsOnlyWhenDeep` counts in items what the points on the stack take: `Sums` is a
function from each depth to the items up to it, which exists for every stack the matcher
can have (`Counted`) and is extended or cut with it (`Room`). A stack that doubles is large
enough for one more point after at most twelve doublings for up to 255 groups, the number a
byte can hold (`FewGroups`), and the size at which it stops doubling is beyond what
`re_max_failures` points take. The limit itself is any natural number.

The last hypothesis is `InOrder`: the lowest active register is at most one above the
highest. It holds in every state of the `regex` run, but not of every expression,
and this is a finding of the proof. Leaving a group by backtracking restores only the
registers that the failure point has saved, so the flag `active` of a group that was begun behind the
point stays set. If the same match later ends a group, stop_memory looks downwards for the
highest register with that flag (regex.c:3687) and may find the stale one, far below
the lowest. NUM_FAILURE_ITEMS (regex.c:2443, "We actually push this many items") is then a
negative number in unsigned arithmetic, and either the stack is found too small at any size,
so that re_match_2 gives up with -2 and the caller hears of no match, or the sum wraps and
`avail` is wrong. Compiled with the code in hl/, the expression
`x?(a)|q(b)|r(c)|z?((d)y|de)f*g` does not match `deg`, though both `z?((d)y|de)f*g` and
`x?(a)|z?((d)y|de)f*g` do. No pattern of the program is of this kind: it takes alternatives
outside of groups with groups in several of them. There is no run for it: the instance has no
such expressions.

Model-checked only: every liveness property, which is out of the prover's reach, and
four invariants of the `regex` run. `MatchIsLeftmost`, `MatchIsLongest` and
`GroupsTellTheMatch` compare what the byte code does with the language of the
expression it was compiled from. A proof needs a correspondence of code and expression
by induction over expressions, which is an induction over data, and for the classes left out
above it would be false. `UsageIsUnderstood` is about the program's own patterns and usage
texts, which are data.

## Not modelled

* Of hl/regex.c: the syntaxes other than extended POSIX expressions, the fastmap
  (regcomp turns it off), case translation, newline anchors, strings in two parts,
  the BSD functions, regerror and the debug printing. The program reaches none of it.
  The limit of 65536 bytes of code is out of the reach of the patterns here.
* The option texts of filters and disciplines; what they parse to is an input.
* Lengths of texts: a command of 256 characters or a name of 32 is sent without
  its terminating zero (virtual_gw.h:65 and 78).
* The layout of packets and checksums, and Pad options in DHCP replies.
* The windows of the statistics; they are printed and decide nothing.
* Start-up, adapter selection, the virtual MAC, sockets beyond what the client uses.
* Machine integers outside `TokenBucket`: ages compared with max_delay across the
  wrap of the clock, and the wrap of uids.

## Plan

Done, in this order: the queue dispatcher and its abstract specification, its type
and order proofs, the DHCP client, the command protocol, the filter, the main loop,
the token bucket and the proof of its bound, the regular expressions and the texts
that are read with them; then the DHCP options, and the proofs of every invariant
outside the matcher: the byte account, the option parser and the compiler of
regular expressions. Last came the matcher: that it runs ops only, while it rewrites
them, and that its stack does not overflow before it is deep.

To model next:

1. `Statistics`: tr_counter with its windows, show_stat, and what it reports of an
   idle queue; the statistics pass of the worker.
2. `Checksum`: ip_csum and udp_csum over bounded buffers against the definition.
3. `SmartPtr`: release before add_ref, as set and push_back use it.
4. `GateWay` with queues: the router's packets into `LossyFifo`, the order of a
   flow end to end, and what the worker still sends after the RELEASE.

To prove next: that the matcher stays within the string; that the active registers are
in order for expressions without groups in alternatives outside of groups; and for
expressions without loops, that the code matches what `Allowed` says.
