# NatTester: verification project

NatTester is an Android application that finds out what kind of NAT a phone is
behind.  A Java activity installs and runs a native STUN client, a port of the
*stunserver/stuntman* client (`src/jni/stunserver`), which sends binding requests
to a STUN server and classifies the mapping and the filtering of the NAT from
the answers that come and from those that do not.  The native tree also holds
the server's half: a request handler, a hash table and a polling object.

This directory holds TLA+ modules translated from that code, TLC configurations
that check them on small instances, and proofs for TLAPS.  Paths below are
relative to `src/jni/stunserver/all/` or `src/src/net/bloody/`.

- [Inventory](#inventory): the parts, and what makes each correct
- [Modules](#modules): how the TLA+ corresponds to the code
- [Runs](#runs): what is checked, on which instance, under which fairness
- [Findings](#findings): where the code and its documentation disagree
- [Proofs](#proofs): what holds for every value of the constants
- [What is not modelled](#what-is-not-modelled)
- [Plan](#plan)

## Inventory

| Component | Source | State | Operations |
| --- | --- | --- | --- |
| Client logic | `stunclientlogic.cpp`, `stunclienttests.cpp` | configuration, results, test list and index, attempts, time of the last request, per test a flag and a transaction id | `Initialize`, `GetNextMessage`, `ProcessResponse`, `GetResults` |
| UDP loop | `clientmain.cpp` `UdpClientLoop` | a socket, the logic, the clock | get a message, send, select, receive, process |
| TCP loop | `clientmain.cpp` `TcpClientLoop` | a socket per request, the logic, a buffer | open, get a message, connect, send, receive, process |
| Request handler | `messagehandler.cpp`, `socketrole.h` | one request, the answer being made, the error | `ProcessRequest` and what it calls |
| Message builder | `stunbuilder.cpp`, `datastream.cpp` | a stream, the transaction id, the mode | `AddHeader` ... `AddFingerprintAttribute`, `FixLengthField`, `GetResult` |
| Message reader | `stunreader.cpp` | parse state, the bytes seen, the attribute table | `AddBytes`, `HowManyBytesNeeded`, the getters, two validations |
| Data stream | `datastream.cpp`, `buffer.cpp` | a reference counted buffer that the caller may hold too, a position, may it grow | `Attach`, `Write`, `Read`, `SeekDirect`, `SeekRelative`, `SetSizeHint`, `GetBuffer`, `Reset` |
| Hash table | `fasthash.h` | nodes, chains, free list, circular index | `Insert`, `Remove`, `Lookup`, `LookupByIndex`, `Reset` |
| Polling | `polling.cpp` | `CPoll`: sockets, rotation, unread count, hash table; `CEpoll`: an array of events and how much of it is given out | `Initialize`, `Close`, `Add`, `Remove`, `ChangeEventSet`, `WaitForNextEvent` |
| Activity | `stun/NatTesterActivity.java` | running flag, thread, text, mail button, two files | `onCreate`, Start, Stop, `handleMessage`, the test thread |
| Test sequence | `StunTester.java`, `StunClient.java`, `StunClientInstaller.java` | the report | `testAll`, `execute`, `install` |
| Wifi | `WifiConfigurationHelper.java` | a flag shared with a broadcast receiver | `setWifEnabledAndWait` |

`PROJECT.json` lists the others (reference counts, sockets, adapters,
text utilities, system information, vendored code) with the reason each is
partly modelled or not at all.

**How they interact.**  The activity starts a thread; the thread installs the
native client, waits for wifi to go off, runs the client once per mode and
protocol, writes a report and posts messages to the activity's handler.  The
native client's `main` calls one of the two loops.  A loop owns the client logic,
asks it for the next request, sends it, and gives it every answer that arrives;
requests are built by the builder and answers parsed by the reader.  On the
server's side a polling object says which socket is ready, the reader parses the
request and the request handler builds the answer.

**What is hard, and what makes each part correct.**

- *Client logic.*  Five tests share one results record and read what earlier
  ones wrote.  A verdict must stand on the answers (or, for filtering, on the
  silence) that justify it, and nothing that comes later may revise it.  Each
  test has its own budget of attempts.  `GetNextMessage` is a loop and must
  return.
- *UDP loop.*  Datagrams are lost, late, doubled and out of order, the NAT's
  filter depends on what was sent before, the 32-bit clock wraps around and, being
  the time of day, may be set.  The
  diagnosis must be right, or err on the known side, and the program must end.
- *TCP loop.*  Every request has a socket of its own; system calls fail; the
  peer may close early.  Addresses of different sockets must not be mixed up.
- *Request handler.*  One function fills in the answer step by step with many
  early returns: no value of one request may reach the answer to another, and no
  verdict of the authentication provider may end in an unauthorised success.
- *Builder and reader.*  Two programs for one format, with lengths that are
  written before, during and after signing.  What one writes the other must
  read, however the bytes are cut; what is signed must cover what can be read.
- *Data stream.*  All messages are written to and read from streams whose buffer
  the caller shares.  A stream that grows moves to another buffer and leaves the
  caller with the old one; `CBuffer::SetSize` accepts any size; a new buffer
  counts its uninitialized memory as its size.
- *Hash table and polling.*  Long sequences of legal calls with an index that is
  patched, a free list, and a vector whose last entry moves into gaps while
  reports are still to be given out.
- *Activity.*  Two threads, a message queue, a button that can be pressed at any
  time, an activity that can be left and opened again, files shared by all runs
  and exceptions that are swallowed or end the process.

## Modules

| Module | Models | Notes |
| --- | --- | --- |
| `StunClientLogic` | the client logic and its five tests | one iteration of `GetNextMessage`'s loop is one action; `pc` says whether a call is being executed; `requests` and `answered` are history variables |
| `StunClientLogic_proofs` | | theorems about it, and what both loops' proofs rest on: why, in `StunWorld`, an answer tells the mapping it came through |
| `StunService` | what a server promises | the abstract specification of the request handler, and the server the client loops talk to |
| `StunMessageHandler` | the request handler | one action per method, `pc` is the method; refines `StunService` |
| `StunMessageHandler_proofs` | | theorems about it, and the proof that it implements `StunService` |
| `StunWorld` | the NAT and the server's answers, `CreateConfigFromCommandLine`, `DumpResults` | shared by the two loops; extends `StunClientLogic`, instantiates `StunService` |
| `UdpClientLoop` | `UdpClientLoop`, the network | composed with `StunWorld` |
| `UdpClientLoop_proofs` | | theorems about it |
| `TcpClientLoop` | `TcpClientLoop` | composed with `StunWorld` |
| `TcpClientLoop_proofs` | | theorems about it |
| `StunMessageBuilder` | the builder | a message under construction is a record, an operation is an operator |
| `StunMessageReader` | the reader | likewise |
| `StunExchange` | a message from one to the other | composes the two, with a transport that cuts or damages it, and foreign bytes |
| `StunExchange_proofs` | | theorems about it |
| `ByteStream` | what a stream promises | abstract specification: a sequence of bytes and a position |
| `DataStream` | `CDataStream` over `CBuffer` | refines `ByteStream`; one action per method, and the caller's own use of the buffer; `lent` is a history variable that says whether all that was asked for fitted in the caller's buffer |
| `DataStream_proofs` | | theorems about it |
| `Multimap` | what the hash table promises | abstract specification |
| `FastHash` | `FastHashBase` | refines `Multimap` |
| `CPoll` | `CPoll` | extends `FastHash`; `orphans` is a history variable that counts the unread reports of sockets that were removed |
| `CEpoll` | `CEpoll`, and the kernel's lists it works on | edge and level triggering; a history variable of sockets with activity nobody was told of |
| `Polling` | the objects that `CreatePollingInstance` chooses from, and a hash table used by itself | `user` says which of the three an instance is; composes `CPoll` and `CEpoll` |
| `Polling_proofs` | | theorems about all of these |
| `NatTesterSession` | the activity and its test threads | one action per callback or step of a thread |
| `NatTesterSession_proofs` | | theorems about it |
| `MC...` | | the instances the runs check |

**Abstractions.**

- An address is an IP and a port from small sets.  A message is what its reader
  looks at: class, transaction id and the attributes a branch depends on.  A
  transaction id is the test that made it, as ids are random in the code.
- `StunMessageBuilder` counts in words of four bytes, the unit of the format, and
  `StunMessageReader` in bytes of those words.  HMAC and CRC are terms over the
  key and the words they cover: two are equal exactly when those are.
- Time is counted in ticks modulo `ClockModulus`.  The code's 2^32 ms become a
  few ticks, so that a wrap can happen at every point of a run.  The clock of
  `GetMillisecondCounter` is the time of day: `ClockSet` sets it to any value,
  once, while the loop waits.
- A `CBuffer` is what it has allocated, its size and its bytes, one of which may
  be `Junk`, memory nobody has written.  It lives as long as the stream or the
  caller points to it, which is what its `boost::shared_ptr` is for.  Running out
  of memory throws in `new` and is not modelled.
- The NAT is external: the classes of mapping and filtering of RFC 5780, which
  the tests were written for.
- Chains and the free list of the hash table are sequences of node numbers.
- `poll()` is external and may report any set of sockets, whether or not the
  caller wanted the event, as errors and hang-ups are always reported.
- `epoll` is external: a list of watched sockets and a ready list, from which a
  report takes the edge-triggered ones.  `CEpoll::Remove` leaves the array of
  events alone, as its comment says (`polling.cpp:182-186`), so an event may be
  given out for a socket that has gone; no property denies it.
- Of the command line only mode and protocol are kept.  A mode that is neither
  `basic` nor `full` is logged and runs as `basic`; an unknown protocol ends the
  program.
- `Thread.stop` ends a thread between two of its steps (its meaning in Java), or
  throws `UnsupportedOperationException`, which nobody catches (on Android).

Lines beginning with `Mutant:` in the comments mark definitions that are not
part of the model.  Each is a plausible error in the definition it stands
before; with it in place the property that `PROJECT.json` names is violated,
which shows that the property depends on the code.

## Runs

Run as `tlc -config <cfg> <module>`.

| Run | Shows | Instance |
| --- | --- | --- |
| `logic` | no conclusion without its evidence, no verdict revised, budgets kept, calls return, under *any* owner | two IPs, one port, modes full, behaviour, filtering and binding alone; mapped and other address 0.0.0.0 included; clock modulo 2, up to two attempts |
| `server_handler` | answers are those of `StunService`, no unauthorised success, OTHER-ADDRESS is usable; the stream keeps its bytes, stays in its buffers and holds nothing nobody wrote, the caller's buffer is current as long as all fits | two IPs, two ports, four socket configurations, each feature of a message and each verdict of the provider; strings of two bytes and none, sizes 1 and 4, three buffers of up to four bytes, `size_t` modulo 16 |
| `udp` | soundness of the mapping class, a filtering class too loose only in two named cases, exactness without loss, what is printed is what was found, no test given up early but once where the clock was set, the program ends | six NATs with every class of mapping and of filtering, two firewalls that do not translate, no NAT at all, one and four server sockets, every mode, clock modulo 5 starting just before its wrap; behind one of the NATs a clock that is set once, to any value at any wait |
| `tcp` | soundness of the mapping class, local and mapped address of one socket, complete results, the program ends | four NATs, every mode, fixed and ephemeral local port |
| `message` | building, cutting, damaging, reading and authenticating | up to three attributes, two keys, two ids, both modes, table of three, limits just above; foreign datagrams of up to six words, at and beyond the limits, some with a fingerprint that checks |
| `poll` | index, free list, positions and reports stay right; the table is a bounded multimap; neither polling object loses an event, and the unread count is exceeded only by the reports of removed sockets | three sockets in a table of three with two columns; a second user of the table with duplicate keys; `CEpoll` with three sockets and an array for two events |
| `session` | the button, the screen and the mail agree with the run that is shown | two runs, two activities, two clients per run |
| `udp_test_order`, `server_challenge`, `tcp_still_waiting`, `poll_unread`, `session_wifi` | one violated property each, see [Findings](#findings) | as the runs above, smaller |

**Why the bounds are enough.**

- *logic, udp, tcp*: the test list has at most five entries, so all of it is in
  every full run.  Two attempts are the fewest for which a first, a repeated and
  a last request differ.  Five ticks with two per second put the wrap before,
  inside and behind every wait.  Only equality of addresses matters, and the
  instances have as many as a run can tell apart: the server's four, the phone's
  and a mapped one per destination.
- *server_handler*: the handler holds one request at a time; two in a row show
  every leak from one to the next, and the run is not bounded in their number.
- The *stream* in the same run (the two share no state; the instance is one of the
  handler or one of the stream): four bytes hold two strings, so that a write
  fits, fills the buffer, or makes it grow, by doubling or to what is asked for;
  three buffers are one for the stream, one for the caller and one to move to,
  and are alike, which the symmetry says (the properties of the run are
  invariants and step properties, for which it is sound).  A seek by -1 from the
  beginning wraps around.
- *The clock that is set*: in full mode on a network that loses nothing, where the
  diagnosis must stay exact, and in basic mode on one that may lose anything.
- *message*: with three attributes there is one before and one behind a
  signature, and with the same number in the table there is a full table and one
  attribute too many.  Chunks of 7 bytes cut headers and attributes at every
  residue modulo 4.
- *poll*: three sockets are the fewest for which a removal from the middle, from
  either end and the move of the last one differ; with two columns two keys
  share a chain.  An array for two events leaves a third behind.  The second user stores a different value in every node, so
  that no two items look alike; only one socket, in one place of the vector, has its
  wanted events changed, which nothing but `poll()` reads.
- *session*: two runs and two activities are the fewest for which a thread or a
  message can outlive its activity and meet a later run.

**Fairness.**

- `logic`: weak fairness of the iteration of `GetNextMessage`: a call that has
  begun goes on.
- `udp`: a clock may be set once, as a clock that is set before every timeout can
  keep the program waiting for ever; weak fairness of the steps of the loop; strong fairness of the timeout
  of `select`, as datagrams do not come in an endless stream without a pause of
  half a second; on a network declared reliable, weak fairness of the server's
  answer and of the NAT's dropping.  Nothing is assumed of a network that is
  not, so `Terminates` holds whatever it does.
- `tcp`: weak fairness of the steps of the loop, `Receive` included: `recv` has
  no time limit, so the client ends only if a server that accepted a connection
  answers or closes it.  System calls that fail are never forced.
- `session`: weak fairness of each test thread and of the main thread's handling
  of messages.  A stunclient ends: over UDP `udp` shows it, over TCP it is an
  assumption about the server, the one of `tcp` above, as the client waits
  without a limit and nobody ends it but `Thread.stop`.  No broadcast, no
  press of a button and no end of wifi is assumed.

**Deadlock** is checked in every run but three.  `message` follows one message,
after which nothing happens.  In `session` and `session_wifi` nothing happens
once the last of the bounded number of runs and activities is over.  The client loops stop by a stuttering action of their own
(`Stopped`), enabled only in the states in which the program has ended.

## Findings

Five runs show a violation each; the other three findings are stated, as what
the code does, by a property of a passing run.

1. `udp_test_order`: in full mode the behaviour tests come first
   (`stunclientlogic.cpp:111-130`) and use the same socket.  Behind an
   endpoint-independent mapping `behavior2` opens an address-dependent filter
   for the very address from which `filtering2` expects its answer, and the NAT
   is reported as endpoint independent, against `stunclientlogic.h:52-53`.
2. `FilteringSound` in `udp`: a firewall that filters and does not translate is
   taken for a direct connection, and a direct connection is declared endpoint
   independent without a request (`stunclienttests.cpp:337-345`), against the same
   lines.  `DirectConnectionFiltering` is never set.  The property shows that these
   two are the only ways a filtering class comes out too loose; `ExactDiagnosis`
   that behind a firewall it always does.
3. `DumpMatchesResults` in `udp`: `DumpResults` prints the filtering verdict by the
   success flag of the behaviour test (`clientmain.cpp:312`).  The property names
   the case (`DumpedByWrongFlag`), says what is printed in it, and that in all
   others what is printed is what was found.
4. `server_challenge`: `stunauth.h:58-59` says that realm and nonce are ignored unless
   the mechanism is long-term.  `ValidateAuth` and `BuildErrorResponse`
   (`messagehandler.cpp:445-449`, `179-189`) send whatever is there.  `StunService`
   leaves this open (`Challenges`): it allows a server to send or to ignore them
   where the mechanism is another, so what `server_handler` and the proof of the
   refinement show does not take a side.
5. `tcp_still_waiting`: `clientmain.cpp:369-370` says and asserts that
   `GetNextMessage` never returns "still waiting" over TCP because the timeout
   is 0.  `Initialize` replaces a timeout of 0 by its default unless
   `fTimeoutIsInstant` is set, which nobody sets; after an answer the test does
   not accept the assertion fails.  `ResultsUnlessFailure` shows that it cannot
   happen while the server answers every request with success.
6. `ReadsBackWhatWasBuilt` in `message`: `stunreader.cpp:214` says that a message is a
   multiple of four bytes; `AddUnknownAttributes` (`stunbuilder.cpp:264-299`) does
   not pad an odd number of attributes in RFC 5389 mode, and the library's own
   reader refuses the message, which the property states.
7. `poll_unread`: `polling.cpp:463` asserts that nothing is unread when
   `WaitForNextEvent` turns to `poll()`.  `Remove` takes the report of a socket with
   it and leaves the count, so the assertion fails in a debug build.  The next
   line sets the count to zero, and `NoEventLost` shows that nothing is lost.
8. `session_wifi`: `NatTesterActivity.java:191` says that wifi is switched off
   and then the tests run; the result of the wait is ignored and the wait gives
   up after 20 seconds.

## Proofs

`StunClientLogic_proofs` proves, for every set of addresses, every set of
configurations, every modulus of the clock and every default timeout and number
of attempts:

| Theorem | States |
| --- | --- |
| `TypeCorrect` | `Spec => []TypeOK` |
| `RetryBudgetHolds` | no test sends more requests than allowed or inherits attempts |
| `BehaviorEvidenceHolds` | a mapping class stands on the answers that prove it |
| `FilteringEvidenceHolds` | a filtering class was reached only after every looser one was asked for in vain |
| `ConclusiveAtEndHolds` | at the end every missing verdict is explained by a test that used up its attempts, or by an answer to `behavior2` that gave 0.0.0.0 as the mapped address, on which `behavior3` cannot run |
| `VerdictsStandHolds` | an action property: no step revises a verdict |

Assumed are only the constants' named assumptions in `StunClientLogic` (the sets
are what they stand for, the modulus and the defaults are positive), which TLC
evaluates in the `logic`, `udp` and `tcp` runs.

*The argument.*  None of the properties is inductive.  The strengthening says
what the test list is for the configuration; that a test before the index is
completed and one behind it is untouched (neither asked, answered nor completed);
that the history `requests` of the current test equals `sendCount`; that a test
that is answered or exhausted is completed; and, test by test, what the results
hold when that test is completed.  Type correctness comes first, as every other
step needs it.  Then each action is shown to keep the strengthening, one step
per action.  The case that carries the weight is `PreRunCheck`, where one test
concludes from what the earlier ones left, and `NotifyTimeout`, which clears
success flags: it can only run for a test that was not answered, and the flags
it clears are then already clear, which is why verdicts stand.

`StunMessageHandler_proofs` proves, for every set of addresses, clients, messages,
verdicts and socket configurations:

| Theorem | States |
| --- | --- |
| `HandlerTypeCorrect` | `Spec => []TypeOK`; no error response carries the zero the constructor left |
| `SuccessIsAuthorisedHolds` | a success was allowed by the provider and is signed as its own request proved itself |
| `OtherAddressUsableHolds` | an announced OTHER-ADDRESS is a real, open one, and every change request over UDP finds its socket |
| `HandlerImplementsService` | `Spec => ImplementsService`: the refinement |

Assumed are `AddressSetAssumption`, `MessageAssumption` and `AddressAssumption`
of `StunMessageHandler`, which TLC evaluates in the `server_handler` run.

*The argument.*  A success is built two steps after the provider was asked, so
authorisation is not inductive.  `HandlerInv` adds that one request is handled
at a time; that only a handler about to return holds a success; that nothing is
signed before `ValidateAuth`, and that what `ProcessBindingRequest` is handed is
granted (`GrantedWhereProcessed`), which comes down to the fact about verdicts
that an error code of zero means the request was allowed (`NoErrorCodeGrants`).
Type correctness needs that `BuildErrorResponse` is never entered without an
error code (`ErrorHasCode`).

The service answers in one step what the handler works out in up to five.  The
refinement rests on `RequestInHand`, which says for each method what is known of
the request when it is entered, in the service's terms: what is not malformed,
which error code the service would give, where the answer would go.  Then only
the step that completes the answer maps to the service's, and it has the values
the service asks for.  The service knows sockets by their sides and the code
roles by two bits; `SwappedSides` says that flipping a bit is taking the other
side.

`DataStream_proofs` proves, for every set of buffers, strings, sizes, offsets and
bytes, every wrap of `size_t` and every bound on allocations:

| Theorem | States |
| --- | --- |
| `StreamStaysInBounds` | no buffer is used beyond its allocation, the position stays inside the bytes |
| `StreamReadsOnlyWritten` | no byte of uninitialized memory is in a stream or read from one |
| `CallersBufferStaysCurrent` | the caller's buffer is the stream's exactly as long as all that was asked for fits in it |
| `StreamImplementsByteStream` | `DataStreamSpec => ImplementsByteStream`: the refinement |

Assumed is `StreamAssumption`, which TLC evaluates in the `server_handler` run: the
sets are what they stand for, there is always a third buffer to move to, and
`size_t` is larger than any allocation.  Two guards say what callers do: a buffer
that is attached to be read was filled, and a pointer into a buffer is only
written through inside its size.

*The argument.*  The invariant is the conjunction of the first three: a read stays
inside what was written because the position is at most the size, the size at
most the allocation, and both move together.  `Grown`, which `Write` and
`SetSizeHint` share, is treated once: whatever buffer it leaves, `Larger` keeps
size and bytes and has room for what was asked (`n` or twice the old
allocation).  The refinement maps `content` to the first `size` bytes of the
stream's buffer, `position` to `_pos` and `fixed` to `_fNoGrow`.  `SameContent` is
the core: a step that changes neither the stream's buffer nor what is in it
leaves `content`, whatever happens to the other buffers, and moving to a larger
one leaves it too, so `SetSizeHint` maps to `Reserve` and a write that moves is
an overwriting of the abstract sequence like any other.

`UdpClientLoop_proofs` proves, for every set of addresses, NATs and servers,
every clock and timeout, and a network that may do anything with a datagram:

| Theorem | States |
| --- | --- |
| `MappingIsSound` | no mapping class is reported that is not the NAT's |
| `FilteringIsSound` | no filtering class is reported looser than the NAT's, but where the order of the tests explains it (`OpenedByBehaviorTest`) or a connection that does not translate was not asked (`TakenForDirect`); of any NAT or firewall |
| `DumpIsHonest` | the filtering verdict that is printed is the one that was found, but for finding 3; no class is printed that was not concluded |
| `NobodyGivesUpEarly` | an action property: no test is given up before its timeout has passed, but once where the clock was set |
| `DiagnosisIsExact` | `ExactDiagnosis`: on a network that loses nothing the diagnosis is complete wherever the server has the sockets for it, and exact but for an opened filter and for firewalls, which are always found endpoint independent, even if the clock is set while a test waits; for servers that have the socket the client is told of (`PrimaryServes`) and, where the clock may be set, with a second attempt (`SecondAttempt`; the default is two), both of which hold of the `udp` run's constants |

and `TcpClientLoop_proofs`, for every set of ports besides:

| Theorem | States |
| --- | --- |
| `TcpMappingIsSound` | with a local port of the user's the mapping class is the NAT's; without one it is the class that new ports imitate |
| `DirectIsRight` | "direct" is said of a direct connection and of no other |
| `ServedMeansComplete` | while the server answers every request with success, the assertion about waiting holds and the results at the end are complete |

Assumed are `WorldAssumption` and `ServerAssumption` of `StunWorld`, and of each loop
what its command line can make (`CommandLineAssumption`) and what its constants
stand for (`UdpAssumption`, `TcpAssumption`); TLC evaluates them in the `udp` and
`tcp` runs.  The NAT is the model's (`Mapped` in `StunWorld`): it gives the sockets
and destinations that it tells apart different external ports.

*The argument.*  All theorems of both tables start from the invariant `IInv` of
the logic and from two facts about the world.  `Faithful`: any
response in flight, however old or often delivered, tells the mapping its request
came through, because the mapping does not depend on time and the request was
sent from a known socket (`SentFrom`).  `Evidence`: the results hold the
mappings of real sockets, on ports that the loop has used; on the one port over
UDP, and over TCP without a local port on pairwise different ones.  The verdict
compares these mappings, and comparing them tells the class (`ClassIsSeen`).

Filtering adds `Filter`.  The NAT lets `filtering2`'s answer in only if it filters
nothing or if a datagram has gone to the address it comes from; the one test
that sends there is `behavior3`, and it runs only when the mapping was seen to
depend on the address, in which case what it opens is another mapping than the
one the answer goes to.  That leaves the order of the tests
(`OpenedByBehaviorTest`).  Without translation nothing is asked: the mapped address
is then the local one in every answer, so the binding test finds `fIsDirect` and
the pre-run check concludes, whatever the firewall does (`TakenForDirect`).

Printing adds `OverAtEnd`, the loop ends only when the list of tests has, and
`OtherWasKnown`, `behavior2` was answered only where the server's other address was
known.  So a behaviour test that succeeded leaves nothing that could have kept the
filtering tests from running, and `ConclusiveAtEnd` of the logic says that they
concluded: the wrong flag can hide a verdict and cannot make one up.

Timing adds `Pace`: while a request waits, its real age is at least what the
counter shows, or the timeout has passed already.  The counter is a remainder, so
the induction step is a fact about remainders (`ClockTurns`): some ticks later
it shows at most so many more, whether it has wrapped around meanwhile or not.

Exactness adds `Ground` and `Promised` to all of these (`ExactInv`).  A test is
`Certain` to be answered where the server can answer it and the NAT lets the
answer in.  `Promised` says that such a test, once it has sent, has been
answered, or is the current one and then still has a request about to be sent, a
request in flight, or a response in flight that the NAT lets in and the test
takes (`OnItsWay`), and that no time has passed since the request (`InTime`): on a
network that loses nothing `select` runs into its timeout only when nothing is in
flight.  So nothing but a clock that was set can end the wait
(`StillInWait`), it costs one attempt, and the second one meets a clock that is
not set again (`NotGivenUp`).  At the end nothing is awaited, so a `Certain` test
has not exhausted its attempts, and what the evidence for a verdict says of
silence (`FilteringEvidence`, `ConclusiveAtEnd` of the logic) becomes a statement
about the NAT: with `FilteringSound` it leaves the one right class.

Completeness adds `Served`: every request made has been answered except the
one on the current connection.  So no test can be exhausted, and what
`ConclusiveAtEnd` of the logic allows for missing results is excluded.

`NatTesterSession_proofs` proves, for any number of runs, activities and clients:

| Theorem | States |
| --- | --- |
| `ButtonIsRight` | the button says Stop only while the last run lives or its end is still to be told |
| `NoSecondStart` | a run started alone is not joined by a second one from the same activity |
| `ScreenIsInOrder` | what is shown of such a run are its first tests, each once, in order |
| `MailIsOwnReport` | the mail button sends the report of that run, or a write has failed |

Assumed is `SessionAssumption` (there is at least one run, activity and client),
which TLC evaluates in the `session` run.

*The argument.*  A message is handled long after it was posted, perhaps by another
activity than its run was started from.  `SessionInv` says that threads and
messages are those of started runs, and that a thread that has announced its end
is over (`ThreadsOK`, `MessagesOK`); that a running test is the last one started
and lives or has announced its end (`ButtonOK`); that of a run started alone all
messages are its own, go to one activity, and the end comes last (`AloneOK`);
that screen, queue and next section follow each other without a gap (`ShownOK`);
and how far its report is: in the making, copied, announced (`MailOK`).  Steps
that nobody else sees are proved once (`UnseenStep`), as are posting and taking a
message (`Posted`, `Taken`).

`Polling_proofs` proves, for any number of nodes and columns, every set of keys,
values and flags, any number of sockets and any size of the array of events:

| Theorem | States |
| --- | --- |
| `IndexShowsEveryItemHolds` | access by position shows every item of the table once |
| `PollTypeCorrect` | `PollingSpec => []PollTypeOK`; no node of the table is lost or on two chains |
| `PositionsMatchHolds` | the table gives the place of every socket in the vector |
| `NoEventLostHolds` | neither polling object loses an event, and the unread count is exceeded only by the reports of removed sockets |
| `TableImplementsMultimap` | `PollingSpec => ImplementsMultimap`: the refinement |

Assumed are `HashAssumption` of `FastHash`, `PollAssumption` of `CPoll` and
`EpollAssumption` of `CEpoll`, which TLC evaluates in the `poll` run.  The run
bounds which values are stored and whose flags change; the theorems do not.

*The argument.*  `PollingInv` has three parts.  `TableOK` is the table by itself:
every node is on one chain or on the free list, once, and while the index list
counts as valid its first `size` places, counted around the circle from
`indexStart`, are a bijection to the chained nodes.  `Listed` is inductive only
together with the others: adding writes behind the last place, which is a place
not in use because a free node exists, and removing at either end moves an
end (`Circle` is the arithmetic of the circle); removing elsewhere makes the list
invalid, and then nothing is claimed of it.  `ReIndex` is defined without a fold:
the node it writes to place *i* is the one whose slot, a column and a place on
its chain, has *i* slots before it.  `Ranks` says that a finite set in a strict
order is counted by this in the order's own sequence, so the rebuilt list is a
bijection again.

`PollInv` adds that the table and the vector are maps inverse to one another
(`InStep`).  A removal moves the last entry into the gap and rewrites its
position, unless the entry removed is the last; that both are the same socket
or have different keys is what `InStep` knows and `PositionsMatch` does not.  The
count is a cardinality that every step changes by one or not at all.
`EpollInv` is what is left for `CEpoll`: activity that no report will tell of is
of no watched socket.

The refinement reads the chain of a key's column as the sequence of the values
under that key: the *j*-th of them is at the place of rank *j* among the places
with the key.  An insertion shifts all places up and makes a new first one, a
removal takes the first and closes the gap, for the removed key and for the
others on the chain (`WithoutFirst`); ranks turn both into what `Multimap` says of
sequences, without induction over a chain.

`StunExchange_proofs` proves, for any number and order of attributes, any keys,
transaction ids and addresses, any limits of the reader that leave room for a
signature, and any way a stream is cut:

| Theorem | States |
| --- | --- |
| `AnswerFromBytesAlone` | the parser's answer is a function of the bytes, and accepts exactly the well-formed messages within the limits |
| `StreamStaysInStep` | reading as `HowManyBytesNeeded` says takes this message and nothing of the next |
| `BuiltIsReadBack` | what the builder wrote, whole and within the limits, is what the reader finds; a list of unknown attributes that was not padded is always refused |
| `SignedVerify` | what the builder signed last, or last but for a fingerprint, verifies with the key that signed it |
| `IntegrityCovers` | a signature that verifies covers all the reader can look up, but a fingerprint behind it |
| `FingerprintTells` | in what the builder wrote, intact or damaged, a fingerprint that checks is the last attribute and what arrived is what was sent; foreign messages may carry one of their own |

Assumed are `BuilderAssumption`, `ReaderAssumption` (an attribute may be as long as
a signature; the code allows 780 bytes), `TransportAssumption` and
`ForeignAssumption`: whoever else sends datagrams writes whole words and can write
anything into them but a signature, as it has not the keys; a fingerprint takes
none, so foreign messages may hold a correct one.  TLC evaluates them in the
`message` run.  Damage is what `Damaged` says, one field, value or type at a time;
the proofs use only that a damaged word keeps its length (`Near`), so several
at once would change nothing.

*The argument.*  `ExchangeInv` has three parts.  `BuilderInv` says that the message
is laid out (`Layout`): the attributes added stand at increasing positions, each
behind the padded value of the one before, and each holds what its operation
wrote (`Written`), a checksum being the term over the words before its own
position.  Adding one more keeps this (`OneMore`), because a word once written
stays.  The second part says where the wire comes from.  The third, `Seen`, says
what a reader that was given so many bytes knows, by cases of its state.

The reader's side is a recursive function, the positions at which the loop of
`ReadBody` finds headers.  `HeaderAtDef` proves that the function exists, so that
its equation may be used; `SetInduction`, from which this and the other inductions
follow, comes from the pigeonhole principle of the library instead of an
induction theorem.  A body is accepted exactly if there is a `Chain`, headers
that lead from one to the next and to the end (`ChainIsRead`, `ReadIsChain`), and
there is only one.  `WalksMeet` is the core: on what the builder laid out the two
walks visit the same positions, so the table holds the attributes as they were
added (`Found`).  Reading back is then a matter of looking at those positions.  A
signature is an equation of terms, which gives back the words it was computed
from, and with them every attribute before it; `NothingElseFollows` is what
leaves only a fingerprint behind it.  In the other direction, `SignedLength` shows
that the length `AddMessageIntegrity` wrote before it hashed is the one that
`ValidateMessageIntegrity` works out, 24 bytes past the beginning of its attribute
whether or not eight more follow.

*Model-checked only.*  Liveness under fairness (`CallReturns`, `Terminates`,
`TestEnds`), which the prover does not reach.  Every other property of a passing
run is a theorem.

## What is not modelled

- Reference counts (`refcountobject.*`, `objectfactory.h`): no code of the
  repository instantiates `CRefCountedPtr`, and the factory's only product,
  `CreatePollingInstance`, has no caller.  The native program has one thread, so
  that the atomic count has nobody to race with.
- Sockets as system objects (`stunsocket.cpp`, packet-info control messages of
  `recvfromex.cpp`): the loops model when they are opened, used and closed, the
  rest is option calls.
- `CPoll::Add` beyond the number of sockets the object was made for: the hash
  table refuses, and `Add` does not notice (`polling.cpp:368`).
- Adapters, interface lists and name resolution: stateless I/O.  Parsing of option text,
  logging and printing: no state that a property depends on (`DumpResults` is
  modelled, as a property is about it).
- The server's main program: it is not in this repository; the request handler,
  the hash table and the polling object are modelled for any caller that keeps
  to their contracts.
- What stunclient prints into the report, the mail intent, the location, the
  system description.  Two stunclients of overlapping runs, or one that
  `Thread.stop` left behind, compete for a local port; the session model does not
  look inside a stunclient.
- Whether installing, `chmod` and running `stunclient` succeeded.  They write a section of
  the report and go on: `StunClient.execute` looks at neither exit code nor
  output (`StunClient.java:88-97`), so the summary counts started processes,
  not successful tests, and nothing depends on the count.
- What overlapping runs show and mail: `CannotStartTwice`, `ShownInOrder` and
  `MailsOwnReport` speak of runs started with nothing left over of earlier ones
  (`alone`).  A stale end of a stopped run or an activity that is opened again
  can mislead the others, and does.
- The random part of transaction ids: distinct requests have distinct ids.
- A clock that is set again and again.
- `networkutils/` and `netutils/` (copies), boost, OpenSSL headers, `ifaddrs.h`,
  `sys/`, the jstun jar and the prebuilt binary.  The vendored headers are most
  of the repository's lines (OpenSSL and boost alone are more than four fifths),
  so that the share of lines that any model of this program can cover is small:
  what is modelled is most of the program's own stateful code.

## Plan

Done, in this order: `StunClientLogic` with its proofs, `StunService` and
`StunMessageHandler`, `StunWorld` with the two loops, `NatTesterSession`, the
builder and the reader, the hash table with `CPoll` and `CEpoll`, the proofs of
`StunMessageHandler`, the clock that is set, `DataStream` with `ByteStream`,
its proofs and the proof of its refinement, the proof that the request handler
implements `StunService`, the proofs about the session and about both loops,
those about the hash table and the two polling objects, and those about a message
from the builder to the reader.

What could follow, modules:

1. The client's receive path end to end: `StunExchange` inside `TcpClientLoop`.
2. A polling object in the abstract, which both `CPoll` and `CEpoll` implement.
3. The builder and the reader over `ByteStream` instead of their own sequences.

The runs cover the questions asked so far; new modules extend the runs that
check their neighbours.
