# AstroCampPlanner: specification and proofs

TLA+ modules for AstroCampPlanner, the TLC configurations that check them, and
theorems checked by TLAPS. Source references are `file:line` in the repository.

## 1. The system

A run of the program (`Program.cs`) asks three local services, one after the
other, for a plan and then charges a card through a fourth:

| component | code | state it keeps | operations | module |
|---|---|---|---|---|
| Planner | `Program.cs` | the user's choices | list parks, prompt, transit, weather, charge, exit code | Planner |
| Process supervisor | `ProcessSupervisor.cs`, `*Silo.cs` | none; the port is the state | probe, start, poll 50 times | ServiceLaunch |
| Payment silo | `DialupPaymentSilo.cs` | none; the symlink is the state | `ChargeCard`, `EnsureModemBankIsRunning` | ModemBank |
| Dial-up client | `Clients/DialupClient` | a private `bufio_t`, its place in `authorize()` | ATZ, ATDT, request, `+++`, ATH0 | DialupLine, Wire |
| Dial-up server | `TestServers/DialupServer` | `bufio_t`, command or connected mode, the symlink | command line, authorise, escape, hang-up, signals | DialupLine, Wire, ModemBank |
| Parks RPC server and client | `TestServers/ParksRpcServer`, `Clients/ParksRpcClient` | static results; the xid counter | LISTALL, GETBYNAME, FINDNEAREST | ParksRpc |
| Astro transit server and client | `TestServers/AstroTransitServer`, `Clients/AstroClient` | none | `compute_transit` behind `GET /transit` | Transit, HttpRequest, ServiceLaunch |
| Weather server and client | `TestServers/WeatherSoapServer`, `Clients/WeatherClient` | none | `GetWeather`, WSDL | HttpRequest, ServiceLaunch |
| Path resolution, build | `ProjectLocator.cs`, `EnvironmentPaths.cs`, `setup.sh` | none | | |

The hardest behaviour is in the payment path. Client and server are separate
processes with deadlines of their own (5 s in the client, 10, 15 and 5 s in the
server), joined by a pseudo-terminal that nobody flushes and that outlives every
client, because the server holds its own slave descriptor open. Commands,
replies and frames carry no call identifier. The server is found through a
symlink that several servers may fight over and that survives a server killed
without its handler. The other services are single threads that serve one
connection at a time, so every client depends on every other one's behaviour.
`PROJECT.json` lists the hazards with their lines.

What makes each component correct:

* line: a card is charged at most once per call; a caller is shown the
  verdict on its own card, or at least one the server gave and showed nobody
  else; NO CARRIER means not charged; every call ends and the server recovers;
* bytes on the line: none is lost between `read()` and the reader; what the
  server takes for a request is one that was sent; the server never gets stuck
  in front of a full buffer;
* modem bank: the name leads to a server that serves; only one is started;
  every run gets past the wait;
* supervisor: at most one process owns a port; a run does not block for ever;
* RPC, HTTP: a reply is accepted only if it answers this call, whole, however
  TCP cuts it up; one caller's misbehaviour does not fail another's call;
* transit: the instant shown is in the future and the next one;
* planner: nothing is charged before the plan is shown, exit status 0 means
  paid, and a customer who goes by the messages pays twice only if shown the
  decline of somebody else's card.

How the modules compose:

```
Planner -- INSTANCE --> ChargeDesk <-- refines (DeskSpec) -- DialupLine
   |  calls of services return or throw        |  what one write sends
   v                                           v
ServiceLaunch  HttpRequest  ParksRpc          Wire -- EXTENDS --> Bufio
   port          one request   one server      bytes, frames      the buffer
Transit: what the astro server computes       ModemBank: the symlink, start-up
```

## 2. The modules

### DialupLine (`server.c`, `client_lib.c`, `cards.c`)

One pseudo-terminal, one server and a set `Callers` of client processes, one
per `ChargeCard` call.

* The unit of data is what one `bufio_write` sends: `ATZ`, `ATDT`, `ATH0` (end in
  CR), `+++`, a request frame; `OK`, `CONNECT`, `ERROR` (end in CRLF), a response
  frame. `up` and `down` are the kernel's queues, `sbuf` and `cbuf[c]` the private
  `bufio_t` buffers. A `Fill` takes the whole queue, and only when the buffer
  lacks what the process waits for, as `bufio_fill` does; `cbuf[c]` dies with
  `close()`.
* `server` names the read `run()` is blocked in: `command` (line 113, no
  deadline), `frame` (131), `escape` (141), `hangup` (151). `pc[c]` does the same
  for `authorize()`: `zreply` (80), `dreply` (89), `rframe` (114), `pause` (126),
  `hreply` (128).
* `recv_frame` on something that is not a frame eats one byte: the chunk loses
  `intact` and is later a command the server does not know. A line is everything
  through the first terminator, so a command preceded by leftovers is not
  recognised either (`Understood`).
* Frames carry no identity in the code; the `to` and `from` fields are history
  that says whose card a frame is about. The verdict is data.
* A known number with a wrong expiry or CVV (`mismatch`) is dialed and declined, as
  `client_lib.c` and `server.c` (lines 69-74) do and `TestServers/SERVERS.md:65` ("any
  other card number") agrees. `README.md:26` ("Anything else is rejected locally") is
  taken to mean the number, too; read of expiry and CVV, it would be wrong.
* Deadlines: with `MayStall`, a read may give up at any moment at which its
  buffer lacks the item, also when the data has arrived, since `bufio_fill`
  looks at the clock before the descriptor. Without `MayStall` a deadline passes
  only when nobody on the line can do anything else (`Quiet`); which of several
  deadlines passes first is left open.
* Faults: clients killed in mid-call (`MaxKills`), the server killed
  (`ServerMayDie`, which drops both queues and makes reads and writes fail).

A whole write is one step here; that writes interleave and are read in pieces is
Wire. Abstracted: the contents of frames beyond the class of the card, the
transcript; amounts and auth codes are not told apart.

`ChargeDesk` is the abstract specification: a ledger, receipts that may get lost
or be shown to the wrong caller but never twice, and NO CARRIER and local
rejection only for callers never charged. `DialupLine!DeskSpec` is the refinement
(ledger: those charged; receipts: the verdicts on the line, in a buffer, or in
the hand of a call not yet ended).

### Bufio and Wire (`bufio.c`, `protocol.c`, the reads of `run()`)

Bufio is the buffer of `bufio.c` with its array `buf`, `start` and `len`: `Fill` is
`bufio_fill` returning 1 (compaction, then some of the bytes that wait), `FillFails`
its returning 0 (compaction, and a full buffer or a passed deadline), `Take` what
the readers consume. `stream`, `fetched` and `taken` are histories of the line.
Wire puts the clients and `run()` on either side of it, byte by byte: `Write`
sends the next message of a call, `Leave` breaks a call off between two of them, `ReadCommand` is line
113, `ReadSTX`, `ReadBody` and `ReadLRC` are `recv_frame` a byte at a time, `ReadEscape` and
`ReadHangUp` the two reads after it, and `GiveUp` every read but the first running
out of time. `Frame`, `Lrc` and `Parsed` are `send_frame` and the parsing half of
`recv_frame`, with fields cut to 63 bytes and those beyond the eighth dropped.

* Only the direction from the clients to the server is spelled out; of the other,
  only the number of CONNECTs matters. It runs through the same two files, so
  `Bufio` is both ends.
* A command is the one letter that tells it from the others, and CR; the bytes
  between are never looked at. Bytes left over behind the held ones stand as
  zeros, since no code reads them.
* Writes are whole (`bufio_write` loops; a pty takes what one call sends), so that a
  call is broken off before, between or after its writes, never within one.

### ModemBank (`DialupPaymentSilo.cs`, `server.c` main and `on_signal`)

Runs of the program (`Apps`), each of which may start one server, and the
symlink. `Check`, `Launch`, `PollEnds`, `PollSleeps` and `Dial` are the steps of
`EnsureModemBankIsRunning` and the dialer's `open`; `OpenPty`, `Unlink`, `Symlink`
and `InstallHandlers` those of the server's `main`. A signal removes the name,
whoever owns it; a kill, or a signal before lines 194-195, leaves it.
`File.Exists` holds for a dangling symlink (it falls back to `lstat`). Ctrl-C
reaches a run and the server it started, which is in its process group
(`Interrupt`). A call in progress is one step here (`Dial`); its inside is
DialupLine, whose `ServerDies` is what a signal looks like from the line.

### ServiceLaunch (`ProcessSupervisor.cs`, the HTTP silos, `astro_server.c` and `weather_server.c` main)

Runs of the program that need one HTTP service, and the servers they start.
`Start`, `Launch`, `PollEnds` and `PollSleeps` are `EnsureListening`; `Connect`,
`Refused`, `Send`, `Reset` and `TimesOut` the call after it; `Bind`, `Listen`,
`Announce`, `Accept`, `Hangup`, `Reply` and `ReplyToNobody` the server's `main`.

* A connection is a probe (`IsListening` makes one and drops it at once) or a
  call. `backlog` is the kernel's queue, `current` the one connection the server
  reads, without a deadline, until it ends.
* `SO_REUSEADDR` lets two servers bind while nobody listens; the second `listen`
  fails then, and either failure ends the process (`Claim`). This was checked
  against the kernel the programs run on.
* Writing to a caller that is gone may kill the server by SIGPIPE or only fail:
  it depends on whether the .NET parent left the signal ignored, so both can
  happen (`ReplyToNobody`, `Announce`).
* Kills hit runs and servers alike; Ctrl-C is two of them. With `MayStall`, a
  probe misses a listening server (200 ms) and a caller loses patience (100 s
  or 60 s) at any moment.

The request is one item here; its inside is HttpRequest. Left out: a missing
executable, and the end of the pipe a finalised `Process` object would cause.

### HttpRequest (`weather_server.c`, `astro_server.c`: `read_http_request`, dispatch)

One connection with one request to either server. The client writes header and
body in any pieces (`Write`) and may leave; the server's `read()` returns any part
of what is there, up to the 65535 bytes the buffer has room for. `ReadHeader` and
`NoHeader` are the loop up to the blank line, `ReadBody` and `BodyMissing` the weather
server's loop up to `Content-Length`, `Answer` what `main()` and the handlers choose
from the bytes read, then the close. `WeatherAnswers` and `AstroAnswers` are the
dispatch and `extract_element`: the city counts only if its closing tag was read.
Bytes are counted, not spelled; the texts of the answers are left out.

### ParksRpc (`parks_svc.c`, `parks_proc.c`, `park.c`, `ParksRpcClient.cs`)

Calls of `CallAsync` to the RPC server. The caller connects, writes marker and
message separately (`WriteMarker`, `WriteMessage`), and reads marker and fragment with
`ReadExactAsync` in any pieces (`ReadSome`, `ReadFails`, `MarkerRead`, `Return`). The
server, `parks_prog_1` in libtirpc's `svc_run`, turns to one readable connection
(`TurnTo`), waits for the rest of its record, fills the static result and sends it
(`Serve`), or finds the end of file (`CallerGone`) or 35 s without data (`GiveUp`).
libtirpc is not in the repository: `svc_run`, the 35 s and the size of a fragment are
external, modelled from how `parks_svc.c` uses it. Callers are suspended, resumed
and killed, the server is killed. Results are parks and lists of them; only their
lengths are kept of the encoding. A reply of several fragments is refused at its
first marker, but with what a real list of parks needs the server never sends one
(`FailsAlone` assumes `1 + MaxListed <= SendBuffer`).

### Transit (`transit.c`)

`compute_transit` on a clock of ticks: a day has `Day` of them, the sky turns in
`Sidereal`. `ComputeTransit` is the two-candidate loop, `TransitOn` the first
transit at or after a midnight. `Ask` is a request at any moment, `Tick` the
clock. The rounding to seconds, the visibility and the altitude are left out.

### Planner (`Program.cs`)

Runs of the program, in order, and who owns them. `at` is the place in the
program; `Answered` and `Fails` are a call of a service returning or throwing,
`Prompt` is `PromptIndex` over the lines of standard input, `ReadCard` the three card
prompts (a missing line is the empty string), `Dial` and `DialFails` `ChargeCard` starting
the dialer or throwing, `Conclude` the switch on the outcome. Ctrl-C may hit
anywhere. The payment is `ChargeDesk` (`Desk == INSTANCE ChargeDesk WITH Callers <- Runs`),
that is, what DialupLine was shown to keep and nothing more. A customer starts
the next run only after a message that says nothing was paid (`NothingPaid`); this
is the one assumption about people, and what the messages invite to. It includes
"Payment DECLINED. Your itinerary was not saved." (line 98), of the run's own card
or, since the desk may show a run any receipt, of somebody else's. It does not
include "An error occurred while processing payment." nor a run broken off while
it paid: they do not say what became of the money.

MCDialupLine adds symmetry; MCHttpRequest, MCWire and MCPlanner only hold values
of constants too long for a .cfg.

## 3. What is checked

| run | question | bounds | result |
|---|---|---|---|
| line_calls | three calls in sequence, clients killed at any point: `OwnVerdict` while nobody was; whatever was, `CleanCallServed` and `AnswerIsOwn` for a call that finds the line clean | 3 callers, 1 terminal, 2 kills, all 64 card assignments | holds |
| line_faults | stalls, two terminals, a kill, server death: `TypeOK`, `AtMostOneCharge`, `AnswersUsedOnce`, `SafeToRetry`; implements `ChargeDesk` (`DeskSpec`); `EveryCallEnds`, `ServerComesBack` | 2 callers, a good and an unknown card | holds |
| line_stale_answer | README: the decline card is declined | 3 callers, stalls | violated |
| line_stale_reply | README: the approve card is approved (server at rest, nobody else on the line) | 2 callers, 1 kill | violated |
| wire_bytes | every interleaving of two calls, broken off between any two writes, read in every pieces: `StreamKept`, `RequestsKept`, `NeverWedged`, `EveryLineRead` | 2 callers, fields of 1 byte, 2 fields, buffer of 13 | holds |
| bank_faults | runs in sequence or racing: `LinkLeadsToModem`, `Settled`; in sequence, `OneModem` and `NoCarrierOnlyIfSlow`; `DanglingStays`, yet `EveryRunEnds` | 3 runs, 1 poll, 2 terminals, 1 kill, 1 signal | holds |
| launch_race | runs race for one service: `FailsOnlyIfHit`, `Settled`, `EveryRunEnds` | 2 runs, 2 polls, backlog 1, 2 kills, stalls | holds |
| http_segments | every cut of every request: `WholeAnswer`, `EveryoneHears` | buffer 12, headers of 5, 8, 11 and 12, bodies of 0, 3 and 6 bytes | holds |
| rpc_calls | two calls of every kind at once: `OwnAnswer`, `FailsAlone`, `EveryCallEnds` | 2 callers, 2 parks, a suspension, a kill, server death | holds |
| transit_year | `TransitAhead`, `AtMostOneSkipped`, `NeverBack` | every moment of a year of 12 days of 12 ticks, sidereal day 11 | holds |
| transit_next | README: the next time it is highest | the same | violated |
| planner_runs | a customer tries again: `TwiceOnlyIfMisled`, `ChargedForThePlan`, `SuccessIsPaid`, `EveryRunEnds` | 2 runs of one customer and 1 of another, inputs that end at each kind of prompt | holds |

### Bounds

Two callers are enough for one to meet what the other left; the third lets a
stale reply pass through a call into the next. Server and clients do not count
calls, so longer chains repeat these meetings. line_faults presents one card the
client sends on and one it rejects: the properties it checks do not depend on
the verdict, and line_calls has all cards. The 50 polls of the code are 1 or
2 here: nothing but reaching the limit depends on the number. A backlog of 1
makes it full, which with 16 places takes 17 callers. With 12 ticks to a day and
11 to a sidereal day, the sidereal clock goes round once in 11 days instead of
once in a year; every position of midnight, request and transit to each other
occurs. The HTTP requests lie below, at and above the size of the buffer, with
the blank line before, at and behind its end.

In wire_bytes one request has a field that is cut and a field too many, and the
LRC of the other is a CR, which a reader of lines takes for the end of one. The
buffer of 13 bytes is the smallest that two calls cannot fill without an end of
line: with 12, `NeverWedged` fails and run() spins on a full buffer. So the
property is about the proportion, and `LinesAlwaysEnd` (section 4) gives it for any
number of calls: in the code 4096 bytes stand against at most 517 for a frame and
an escape, which is enough for seven calls; it takes eight at once on one
terminal, none of which has hung up, to reach the spin.

Deadlock is not checked: when all calls are made the servers wait for ever, as
they should, and the clock of Transit stops at its bound.

### What the runs show

The violated runs are findings. `line_stale_answer`: a caller gives up while the
server is held up; its approval is read by a later caller as the answer to
another card. `line_stale_reply`: a client killed before it read a reply shifts
the replies of the calls after it: the answer to ATDT is read as `OK`, the call ends in
NO CARRIER and leaves its own CONNECT behind. Both were reproduced with the
programs themselves. On a machine where the server takes a moment between `OK`
and `CONNECT`, the second never heals: each failed call leaves the line as it
found it. `transit_next`: once a year a constellation transits twice
in a day, just after midnight and just before the next one; after the first, the
code answers tomorrow's. With the code itself, Orion over Yosemite asked for at
2026-04-09T00:04Z gets the transit of 2026-04-10, one sidereal day after the one
of 2026-04-09 it passed over.

What holds is as telling. A call that finds the server at rest and nothing left
to read is served and given no answer but its own (`CleanCallServed`,
`AnswerIsOwn`), and as long as nobody was killed every call finds the line like
that (`OwnVerdict`). Without those words it would be wrong, also without stalls:
one killed client can lead to a wrong verdict four calls later. It is killed
after it sent its request; two calls end in NO CARRIER while the server waits for
the `+++`, and their commands are answered only after that; the fourth takes those
answers for its own, reads `ERROR` where its frame should be and hangs up before
the server has come to it, so that its `OK`, `CONNECT` and verdict lie on the line in
the order in which the fifth expects its own. (TLC finds this when `AnswerIsOwn` is
stated for every call and line_calls is given five callers and one kill.) In every case
NO CARRIER is safe to retry, while Error is not.

"Payment DECLINED" is not quite safe to retry either: `line_stale_answer` with the cards
exchanged. A caller with the decline card gives up while the server is held up;
its decline is read by a caller with the good card, whose own request the server
then approves. That customer is told that the itinerary was not saved, tries again
and pays twice. TLC finds this in Planner when `Misled = {}` is added to the
invariants of planner_runs, and on the line when line_stale_answer is given
`card[c] = "approve" /\ charged[c] > 0 => outcome[c] # "Declined"` for every `c`. What
holds is that this is the only way (`TwiceOnlyIfMisled`): a customer who goes by the
messages pays twice only if the first payment was answered with a decline of
another card, and there are never more runs told of a decline than cards
declined, so that each run misled took the answer of another. While all who pay at
one terminal have good cards nobody pays twice. In the same way an exit status
of 0 may belong to a run that was shown another's receipt, but there are never
more of them than good cards charged (`SuccessIsPaid`). The probes of `IsListening`
never block a server for good, since each is closed as soon as it is made, and
a lost race to start a server costs nobody the call. An RPC caller suspended
between its two writes holds up everybody else for 35 s, but fails nobody else's
call.

### Fairness

The operating system runs every process that can run, and a deadline that may
pass does pass. So `WF` on each client's steps and on the server's (in `ModemBank`
and `ServiceLaunch` on each run's and each server's, in `HttpRequest` on writing,
receiving and the server, in `Planner` on each run). Nobody is obliged to call, to
be killed, to signal, to lose patience or to resume a suspended program. In Wire
only the server is fair: `EveryLineRead` holds whatever the clients leave undone.
`ParksRpc!EveryCallEnds` excepts callers that are suspended, `Planner!EveryRunEnds`
runs whose input ended at a menu: `PromptIndex` asks again for ever.

## 4. What is proved

Every safety property that a passing run checks is proved, and the refinement.
Each theorem holds for every value of the constants, under the assumptions the
modules state about them and the hypotheses named here.

`DialupLineProofs`, for any set of callers, any `Terminals`, `MaxKills`,
`MayStall` and `ServerMayDie`:

* `TypeCorrect`;
* `ChargedOnce` and `RetryIsSafe` by the inductive invariant `RequestInv`: the
  properties say nothing about requests on the line, so they are not inductive.
  A request is in at most one place (`up` or `sbuf`), once; it is nowhere before
  its caller got CONNECT and after it ended in NO CARRIER; while it is on the
  line its caller has not been charged;
* `AnswerForOne` by `FrameInv`, on top of the former: a frame is in the server's
  queue, in one buffer or in one hand, once, and is the server's verdict on a
  request it authorised;
* `LineIsDesk`, the refinement of `ChargeDesk`, action by action on top of the
  two and `DialerInv` (only callers with a known card dial, and nothing of a
  caller is left before it starts): `ServerAuthorise` is a charge with its
  receipt; a client that ends is told the verdict in its hand, or that it failed;
  a client that is killed or closes with frames in its buffer loses receipts, and
  so does the death of the server; everything else stutters.

Three theorems there have hypotheses:

* `CleanAnswerIsOwn`, for one terminal (`Terminals = 1`: one call at a time) but any
  stalls, kills and server death. `OwnInv` says that at most one call is active and
  that, if it found the line clean, every request and every frame on the line is
  its own. With two terminals a second call may read the first one's answer, so the
  hypothesis cannot go;
* `CleanLineServes` and `EveryoneTheirOwn`, in addition without stalls and
  server death, since either may end any call. `CalmInv` follows a call that found the
  line clean through the conversation: `Phase` gives for each place in
  `authorize()` what the server does and the one message that may be anywhere on
  the line, `Books` the charge and the verdict at that place, and `Untouched` that
  until the first kill every call finds the line as the first one did. It is here
  that a deadline passes only when nobody else can move.

The stream lemmas (`FirstEndInDomain`, `AfterIsSuffix`, `InAppend`, `InConcat`,
`InAfter`, `InTail`, `InEaten`) say what reading a line, filling a buffer and
taking a head do to membership; `ShortHolds`, `ShortAfter` and `ShortJoins` what
they do to the streams of one or two messages of a call on a clean line.

`WireProofs`, for any callers, requests, limits and buffer size: `WireTypes` and
`StreamIsKept`. The two are inductive only together (`IInv`): the index arithmetic of
`bufio.c` stays within the array because `start + len <= Cap`, and what the array
holds is known to be the line's bytes because none was lost before. Each operation
of Bufio has its lemma; the steps of Wire are cases of them. That frames consist
of bytes is assumed (`FramesAssumption`, evaluated by TLC): it is about a recursive
concatenation. On top of `IInv`:

* `LinesAlwaysEnd`: if frames have at most `M` bytes and the buffer more than
  `(M + 3) * n + 1` for `n` callers, `NeverWedged`. The bytes behind the last CR are
  at most `M` for each caller that has sent its frame and 3 for each that has sent
  its escape (`TailShort`), since every other message ends in a CR; so no piece of
  the line between CRs is longer than all of those and the letter of a command
  (`PiecesShort`), and a full buffer, being a piece of the line, has a CR. In the
  code `M` is 514 and the buffer 4096, so `n` may be 7. (wire_bytes has a buffer
  below this bound: there, one frame ends in a CR of its own.)
* `RequestsStayWhole`: `RequestsKept`, if no request has a CR or an ETX in it and each
  frame by itself is parsed back into its fields. `RequestsInv` says where on the
  line the frame of each caller stands, that an STX right behind a CR is the
  beginning of one (`FramesAt`), that the server starts to read only there and has
  in `body` what it read of that frame (`ReadsFrame`), and that each accepted request
  is a frame of its own that lies wholly behind the reader (`Whose`). The first
  hypothesis is what the code's callers keep: the fields are a number that was
  checked, an amount and two lines of standard input, and a line has no line end in it. It is
  needed: a field with a CR, the letters of ATDT, a CR and an STX could be read as
  the beginning of another request. The second is induction over data. TLC
  evaluates the first for the requests of the run (`RequestsAssumption`) and shows
  there by `RequestsKept` itself that they are parsed back.

`PlannerProofs`, for any runs, owners and inputs:

* `PaysTwiceOnlyMisled`. The invariant adds to the types that a run said nothing was
  paid only if it never dialed or its dialer was told what it said (`SaysTrue`), that
  a run told NO CARRIER or rejected is not in the ledger and never will be
  (`NeverAfter`), that a customer's runs are in order (`InOrder`), and where a run is
  once it has dialed (`DialedAt`). So of the messages that say nothing was paid only
  that of a decline can stand before a second payment. How many of those there are
  is counted as below, for the other verdict;
* `PlanBeforePayment`: a run at or past the card prompts has shown its plan
  (`ShownBefore`), and where a run is says how many numbers it has read
  (`MenusFirst`): the card number is the line behind the second of them, so what the
  dialer presents as a known card was read as one;
* `PaidForSuccess` by counting (`Backed`): for each verdict, the runs shown it and the
  receipts with it still out are together no more than the requests the server
  answered with it.

`ServiceLaunchProofs`, for any runs, polls and backlog and any kills and stalls:

* `LaunchTypes`;
* `NoCallFailsForNothing` by `FailInv`: at most one server listens (`OneListener`), a
  server reads exactly while there is a connection to read from (`Reading`), a
  call under way has its connection in the server's hand or in the queue unless
  the server it counted on died (`Connected`), and a run about to connect found a
  listener or was hit (`ServerFound`);
* `ServiceSettles` by `QuietInv`: while nobody was killed or gave up, no connection
  of a call is dropped or answered twice (`OneConnection`), so nothing makes a
  listening server write to a caller that is gone, and one of those that start gets
  to listen.

`HttpRequestProofs`, for any requests and any buffer: `RequestTypes`, and
`AnswerToTheWhole` by `WholeInv`: in stage `body` the header has been read
(`StageTells`), and once the server has closed on a client that did not leave, it
has read the whole request (`ClosedKnowing`).

`ParksRpcProofs`, for any callers, parks, suspensions, kills and deaths: `RpcTypes`,
`AnswersOwnCall` and `FailsForReason` by `CallInv`: what is on the way to a caller is
the answer to it (`Answered`), and a connection closed on a caller that still waits
was closed by the server's death or the 35 s (`ClosedForReason`).

`ModemBankProofs`, for any number of runs, terminals, polls and faults:

* `BankTypes`;
* `LinkLeads`: the owner of the name is past `symlink()` (`OwnerLinked`), which needs
  that a run has no server before it launches one. The property speaks of
  behaviours in which no server dies without its handler so far (see
  `DanglingForGood` for the others), so the invariant `CleanInv` claims it for those;
* `SettlesDown`: in addition, while no server owns the name one is on its way to
  it (`SomebodyComes`), as long as there has been no signal either (`QuietInv`);
* `OneServer` and `CarrierUnlessSlow` by `TurnInv`: while runs come in sequence and
  none has used up its polls, one run is under way, and a server owns the name
  or its run is still waiting;
* `DanglingForGood` needs types only: nothing in such a state can move the name.

`TransitProofs`, for every `Day` and `Sidereal` with
`0 < Sidereal <= Day < 2 * Sidereal` (`SkyAssumption`) and every `Horizon`:
`AlwaysAhead`, `SkipsAtMostOne`, `AnswersNeverGoBack`. The invariant is
`AnswerInv`: the answer is what `ComputeTransit` gives for the moment of the last
request; the rest is arithmetic, in lemmas that write midnights as multiples of
`Day`, transits as `hour` plus multiples of `Sidereal`, and show `TransitOn` to be
the first transit of its day.

Only model-checked: liveness (`EveryCallEnds`, `ServerComesBack`, `EveryLineRead`,
`EveryRunEnds`, `EveryoneHears`), which needs fairness and `ENABLED` and is out of the
prover's reach, and what recursive definitions give for every input: what `Joined`
or the LRC makes of a list of fields, and that `Parsed` undoes it. The violated
properties of section 3 are of course not proved.

## 5. Not modelled

* `Reference.cs` (the generated WCF proxy) and the rpcgen output beyond the loop
  and the dispatch: the XDR encoding is kept as lengths only.
* `park_serialize` and `park_deserialize`: nothing calls them. NULLPROC, unknown
  procedures and undecodable arguments: no client here sends them. The search and
  the distances inside FINDNEAREST: a pure loop over a table.
* Replies in several fragments: the client refuses them, this server sends none.
* The direction from the server to the clients at the level of bytes: the same
  `bufio.c` and `protocol.c`; what its messages do is in DialupLine.
* The texts of documents and JSON, the made-up weather, visibility and altitude in
  `transit.c` (functions of floating-point numbers), path resolution, the build.

## 6. Plan

Next: sharpen `LinesAlwaysEnd` to frames that end in a CR, so that it covers the buffer
of wire_bytes too; what of the answers of the line stays true with two terminals
when each of two calls finds the line clean; the conditions of `transit_next` as a
theorem (on which days the next transit is passed over).
