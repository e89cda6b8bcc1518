# Verification of the Bluetooth / CAM-DENM car system

A phone talks over Bluetooth to a Raspberry Pi in the car. Two proxies on the Pi relay between
the phone's RFCOMM connection and the loopback interface `lo`, where a Vanetza station
(`socktap`) sends and receives GeoNetworking frames with CAMs and DENMs. The phone can also post
messages to, and read them from, an HTTPS server, whose site has an admin and an API explorer that
run a good deal of JavaScript in the browser. These modules model the programs that have
behaviour of their own; TLC checks them on small instances and TLAPS proves the most important
safety properties for every value of the constants.

## 1. The system

Paths are relative to the repository. `B` is the Android class `BluetoothConnectionService`, `A`
is `MainActivity`; `static` is `ServeurHTTPS/DjangoDirectory/ServeurHTTP/static`.

| Component | State it keeps | Operations | Interacts with |
|---|---|---|---|
| Proxy life cycle: `main`, `sig_handler` of `RaspberryPi/proxy.c` and `unsecured_proxy.c` | two pid globals, SIGTERM disposition, two children | accept, fork twice, install the handler, wait, kill the other child | kernel, its children, whoever sends SIGTERM |
| Unsecured relay: `writeGeonet`, `readGeonet` of `unsecured_proxy.c` | receive and send buffers, `bytes_read`, a packet socket | read a piece of the stream, frame it; receive a frame, filter, write it | phone (byte stream), `lo` |
| Secure relay: the same functions of `proxy.c` | the same, and an `SSL` per message | SSL_accept, SSL_read, frame, SSL_shutdown; receive, SSL_accept, SSL_write, SSL_shutdown | phone (TLS records on one stream that both processes read), `lo` |
| Socktap timers and sending: `time_trigger`, `dcc_passthrough`, `cam_application`, `main_cam` | runtime queue, one `deadline_timer`, shared send buffers, packet flow | timer callbacks that re-arm themselves, request and send, all on one thread but re-entrant | Vanetza router and runtime, `lo`, GPS |
| Socktap receiving: `router_context`, `application` | receive buffer, dispatcher hooks | read, filter, indicate; enable, disable | router, applications |
| GPS position: `gps_position_provider` | last fix | poll gpsd | router context |
| Bluetooth service: `B`, with `A` | device, service, dialog; per service a device field, an AcceptThread, a ConnectThread, a ConnectedThread | click, bond, start a connection; listen, accept, connect, start the next thread | Bluetooth stack, UI thread |
| TLS over Bluetooth: `B.ConnectedThread.doHandshake` | two ByteBuffers, SSLEngine | read, unwrap, compact, enlarge, wrap, write, delegate a task | peer, executor |
| HTTPS client: `HttpsWithCertificate`, two AsyncTasks of `A` | a static SSL context | GET, POST | message server |
| Message server: `ServeurHTTPS/.../denm_cam` | two tables | list, create, retrieve, delete | concurrent requests, SQLite |
| Change list: `static/admin/js/actions.js` | check boxes, lit rows, the bar's spans, the hidden input, two flags | click, shift-click, select across pages, clear, edit, run an action, save, reload | browser, server |
| Inline formsets: `static/admin/js/inlines.js` | rows, their numbers, TOTAL_FORMS, the add button | add, remove | the widgets in the rows |
| Filter selects: `SelectFilter2.js`, `SelectBox.js` | a cache per box, filed under the id the select had; four links | choose, remove, filter, keys, submit | rows that change their ids, add popup |
| Slugs and popups: `prepopulate.js`, `urlify.js`, `RelatedObjectLookups.js`, `popup_response.js` | a flag and an id per slug; options, values and links per field; window names | type, select, open, answer, cancel | rows that change their ids, other windows |
| Date and time fields: `DateTimeShortcuts.js`, `calendar.js`, `core.js` | numbered boxes, their fields, listeners on the document, a month per calendar | open, pick, quick links, turn the month, dismiss, set up again | inline rows |
| API explorer: `static/rest_framework/docs/js/api.js`, `coreapi-0.1.1.js` | authentication, chosen panel, what each form shows | submit, toggle, authenticate; build a request, handle its answer | `fetch`, message server |

Small programs and data make up the rest: a TLS test server (`main.c`), an Ethernet test sender
(`ethcom.c`), `testpy.py`, `HttpURLConnectionExample.java`, the hello and benchmark applications,
the Cohda and raw Ethernet layers, the Django project files, small scripts and built front end, and captures,
certificates and Gradle caches. `PROJECT.json` lists each with the reason it is not modelled.

### What is hard, and what makes each part correct

* **Life cycle.** Signals arrive between any two steps of `main`; forks fail; the globals' names
  are swapped. Correct means: no child outlives `main` unsignalled, `main` signals the child that
  is still there, nobody else is signalled, and the end of one part ends all.
* **Unsecured relay.** The stream has no message boundaries; buffers are reused; the packet
  socket sees every frame, twice, until it is bound; it overflows. Correct means: the app's bytes
  leave in order, once, all of them; the car's frames arrive in order, once, and never an echo of
  the app's own.
* **Secure relay.** Two processes run TLS handshakes on one stream and take each other's records;
  `bytes_read` outlives the message it belongs to. Correct means: order and no duplication in
  both directions all the same, no frame before a first message, and no wait that never ends as long as
  the two take whole records.
* **Socktap.** `schedule()` is called by callbacks that `schedule()` called, in the middle of a
  transmission; one timer serves all; time passes between reading the clock and using it.
  Correct means: no callback is forgotten or nested in itself, each packet sent is the packet
  requested, a CAM and its DENM alternate for ever.
* **Bluetooth service.** Threads of several services and attempts share fields with the UI
  thread; `connected()` follows a failed `connect()` too; null sockets end the application.
  Correct means: a dialog stands for an attempt in progress and goes away, and an attempt
  connects to the device it was made for.
* **TLS over Bluetooth.** Reads end anywhere in a record, exceptions skip part of the buffer
  handling, tasks run on another thread and fail. Correct means: there is always room for a
  read, success is reported only for a handshake or a close that was completed, a close is
  announced to the peer, and the loop waits for nothing that cannot come.
* **Message server.** A detail view queries twice, other requests change the table in between.
  Correct means: it shows and deletes the message it found, and what is deleted stays so.
* **Web pages.** Handlers keep ids that `inlines.js` rewrites under them; popups answer by name, late and
  in any order; set-up runs again on pages already set up; the browser restores a form but not the
  script's variables; requests overlap. Correct means: what is shown is what is submitted and what the
  scripts' own books say, each handler works on the row it belongs to, the forms stay numbered as
  Django reads them, a date stands under its weekday, each open box can be closed, and every request is
  answered in its form.

`PROJECT.json` has the hazards, each with its line and the properties that cover it or the reason
none does.

## 2. Modules

| Module | Models | Notes |
|---|---|---|
| `ProxyProcesses` | life cycle of both proxies | pids are small numbers; `kill` keeps a history of targets that were no child |
| `GeoNet` | what the programs look at in a frame header | shared by both relays |
| `RelayChannel` | **abstract**: a lossy FIFO channel of numbered things, without invention, reordering or repetition | what one direction of a proxy promises; things are numbered as they are sent, so what waits is a set and the first is its least |
| `UnsecuredProxy`, `MCUnsecuredProxy` | unsecured relay | |
| `SecureProxy`, `MCSecureProxy` | secure relay, its refinement mappings `ToApp` and `ToCar` | |
| `Beacons` | **abstract**: CAM, its DENM, next CAM, for ever, unless it is silent | what a station promises on the air: `Spec` its order, `FairSpec` also that it goes on |
| `Socktap` | timers, callbacks, re-entrant sending | the C++ stack is a variable |
| `PhoneService` | activity, services, Accept- and ConnectThreads | |
| `SslHandshake`, `MCSslHandshake` | `doHandshake`; the peer's scripts | |
| `MessageStore` | REST views and tables | |
| `Subsequence` | the elements of a sequence that are in a set | `SelectSeq` without recursion, so that it can be proved about |
| `Changelist` | the change list's action bar | |
| `Inlines` | one inline formset | also what the two change forms below do to their rows: each of them holds an INSTANCE of it |
| `FilterForm` | a change form with filter selects in its rows | widgets over `Inlines` |
| `FieldForm` | a change form with titles, slugs, related objects and raw ids in its rows | widgets over `Inlines` |
| `DateFields` | date and time fields, calendars | the arithmetic of `calendar.js` next to that of JavaScript's Date |
| `RestClient` | API explorer and coreapi client | |
| `WebPages`, `MCWebPages` | **composition**: a tab that shows one of these pages | |
| `*_proofs` | theorems about `ProxyProcesses`, `UnsecuredProxy`, `SecureProxy`, `Socktap`, `PhoneService`, `SslHandshake`, `MessageStore`, and `WebPages` with its pages | |

An action is one step of the source between two points where another actor may act: a system
call, a call of an external library or the call or return of a re-entrant function. `PROJECT.json`
("map") names the lines of every definition. Operators whose comment begins with "Mutant of" are
plausible bugs; each property is shown to be violated when one of them takes the place of the
definition it names.

### ProxyProcesses

`pc` is where `main` stands, `hpc` where `sig_handler` does; `main` makes no step while the handler
runs. `child` is the kernel's view (unborn, running, zombie, reaped), `sigterm` a pending signal.
The pid of the process that runs `readGeonet` is stored in `writer_thread_pid` and the other
in `reader_thread_pid`, as in the code. `kill(-1)`, after a failed fork, reaches every child.
`CONSTANTS`: may forks fail, may SIGTERM come between the first fork and `signal()`, how many come.

### UnsecuredProxy

A byte of the app is its position in the stream, so order, loss and duplication can be read off a
frame. `Filled` is `memset(buf)` and `read()`; `WriterSends` is `memset(sendbuf)`, which wipes the header
made before the loop, and `sendto()`. `OnLo` puts a frame into `readGeonet`'s packet socket: twice
before `bind()` (`Copies`), not at all when the socket is full, and only of the bound type after.
`ReaderReceives` is `recvfrom()` and its three tests. `RouterIndicates` is the test of `pass_up` in
socktap, which is at the other end of `lo`.

### SecureProxy

A record has a kind and the number of the client's session, which stands for its keys. OpenSSL reads a
record in two steps, header (`TakesHeader`) and body (`TakesBody`), whichever of the two processes comes first;
`cut` is what is left of the first record of the stream. `Strays` is a read that gets bytes the process does not wait
for: the body of a record the other has the header of, what is left of a record, or a record in place of a body that
is gone (`lost`). OpenSSL then fails, with an alert or none, or waits for more, and the model allows each. `Accepts`
and `AcceptFails` are the flights of `SSL_accept` for either process.
`WriterReads` is `SSL_read` and its three results; `WriterFrames` the test `bytes_read > 0`, which is
also reached after a failed `SSL_accept`; `ReaderGivesUp` drops the frame. The client is any TLS client
that starts one session after the other; OpenSSL is external.

### Socktap

Deadlines are relative to the wall clock, so a `Tick` lowers each of them; `lag` is how far the
runtime's clock is behind. `stack` is the C++ call stack: an activation is a function, the place in it
and, for `request`, its packet. `Triggers` calls the earliest due callback, `Arms` sets the timer when
none is left, `Fills` and `Sends` are the two halves of `DccPassthrough::request`, between which
`schedule()` runs. `TimerExpires` and `OnTimeout` separate the completion of a wait from its handler:
a completion that is queued can no longer be cancelled.

### PhoneService

`StartConnection` is `startClient`, with the dialog and the constructor that sets the service's field
`mmDevice`; `MakesSocket` reads that field on the new thread; `Connects` is `connect()`, and
`connected()` in both cases; `Accepts` is the AcceptThread's way there. `Connected` dismisses the dialog
the service refers to by then. While a dialog is shown nothing can be clicked. An exception nothing
catches (`Crashes`) ends the application.

### SslHandshake

The peer's stream is a set of records, each a range of cells. `peerBT` is the position, limit and
capacity of `peerBTData`; `Reads` puts the whole array, however much was read; `Unwraps` is one
round of the do-while loop with its condition `LoopsOn`; `HandlesStatus` compacts and looks at the
status. What the engine does to a record (takes it, asks for a task, refuses it, waits for more) is
external and nondeterministic: any handshake that needs two flights, tasks or none, failures anywhere.

### MessageStore

A worker handles one request: `Receive`, the queries of its view one by one (`GetObject`, then `Retrieve`
or `Delete`; `Create`; `List`), `Finish`. Any query may fail (`Fails`, answered 500). A body is accepted or
refused. An id is never given twice, which is what AUTOINCREMENT says.

### WebPages and the pages

What a script keeps is gone with its page, so a tab is in the state of the page it shows, and `Next` is the
`Next` of that page. In all of them a JavaScript event handler is one action: the browser runs it to
its end. `Load` is a page fresh from the server; it may follow any state, as links and submissions do.

* `Changelist`: `UpdateCounter`, `Checker`, `Question`, `Clear` and `Reset` are the functions of
  `actions.js`; `Ready` is what runs when the page is there, on the boxes the browser restored (`Reload`) or on
  none. `val() === 1` compares a string with a number, so `showClear()` is never reached there.
* `Inlines`: a row is a number that never changes, `index` the number in its ids and names. `Remove` renumbers
  every row left, as the loop at `inlines.js:117` does, `Add` numbers the new one by TOTAL_FORMS.
* `FilterForm`: `fid` is the id a widget's handlers captured and `Found` what `getElementById` makes of it;
  `cache` is filed under ids, `box` belongs to rows. A text is the set of words it contains (`Holds`). `Only` takes
  the place of the loops that pick options, and a cache the code never made is `None`.
* `FieldForm`: a title is a sequence of words; `URLify` removes the small English ones and cuts. A popup
  keeps the name made from its field's id; `closed` remembers which one answered last.
* `DateFields`: `inputs` maps the number of a box to its field and `links` the shortcuts of a field to their
  numbers; `Setup` is `init()`. `listening` are the boxes whose dismiss function is on the document. `DayNumber` and
  `DayOf` are JavaScript's Date; a typed day has two digits, so a date is at most four months after the month
  typed, which is as far as `DayOf` looks.
* `RestClient`: a request is in flight, being read or done. `Kinds` are the ways an answer can be: read and
  shown, 204, an error status, a text that does not decode, a media type without decoder, no answer. `OneBody` says
  what the client relies on in a schema: where a field is the whole body there is no other field of the body, as the
  body takes the place of the form parameters collected before it (`coreapi-0.1.1.js:669`).

## 3. Runs

| Run | Module, configuration | Shows |
|---|---|---|
| `proxy_processes` | `ProxyProcesses`, `.cfg` | with failing forks and two SIGTERMs, but none between the forks and `signal()`: no orphan (`NoOrphanLeft`); `main` kills the right child, and stray kills happen only in the two known cases (`KillsOwnChildren`); a SIGTERM or the failure of the reader ends everything (`EndTogether`) |
| `proxy_orphan` (violation) | `ProxyProcesses_orphan.cfg` | a SIGTERM in that window leaves a running child |
| `uproxy_relay` | `MCUnsecuredProxy`, `UnsecuredProxy.cfg` | no echo and order towards the app (`LoRelayed`), order and completeness towards the car (`StreamFramed`); the stream is drained (`StreamDrained`), queued frames arrive (`QueuedFrameArrives`) |
| `uproxy_discarded` (violation) | `UnsecuredProxy_discard.cfg` | the wiped header: the router takes no frame of the app (`CarTakesAppFrames`) |
| `proxy_relay` | `MCSecureProxy`, `SecureProxy.cfg` | both directions implement `RelayChannel` although the processes steal each other's records; frames of zeros only after a first message (`ZerosNeedAMessage`); the client's handshake ends unless a record of its session was split between them (`HandshakeEnds`) |
| `socktap` | `Socktap.cfg` | with and without forwarding and packet flow: the timer is set for the next event (`TimerFollowsQueue`), no callback runs inside itself (`NoSelfNesting`), the nesting is at most ten deep (`NestingBounded`), CAMs are generated for ever (`CamsGenerated`); a station that neither forwards nor waits for a fix implements `Beacons` (`BeaconsOnAir`) |
| `socktap_overwritten` (violation) | `Socktap_overwritten.cfg` | with forwarding a CAM in the buffers is overwritten (`SendsOwnPacket`) |
| `phone_threads` | `PhoneService.cfg` | dialogs belong to attempts (`DialogOfAttempt`) and go away (`DialogGoesAway`); another device than the given one only after an accepted connection (`WrongDeviceNeedsAccept`) |
| `phone_wrong_device` (violation) | `PhoneService_wrong.cfg` | an attempt connects to the device of a later one (`ConnectsToGivenDevice`) |
| `phone_handshake` | `MCSslHandshake`, `SslHandshake.cfg` | room for reads (`PutHasRoom`), no early success (`NoEarlySuccess`), the alert (`AlertBeforeReturn`), and the only way to hang (`HangsOnlyInUnwrapLoop`) |
| `store_races` | `MessageStore.cfg` | detail views work on the row they found (`FoundIsCurrent`); deletions last (`DeletedIsGone`) |
| `web_pages` | `MCWebPages`, `WebPages.cfg` | change list: bar and rows agree (`BarAgreesWithRows`), actions across pages are announced (`AcrossIsAnnounced`); forms: numbers are contiguous (`FormsContiguous`), options are in one box each, in a row that keeps its number (`EachOptionOnce`), what is shown is sent (`SubmittedIsShown`), links and popups work on their own row as long as it keeps its number (`OwnRowMoves`, `PopupFillsItsField`), slugs follow titles (`SlugFollowsTitle`), links follow selections (`LinksFollowSelection`); dates: boxes close (`OpenBoxCanBeDismissed`), links lead to their field (`ShortcutsServeTheirField`), days stand under their weekday (`DaysUnderTheirWeekday`); API explorer: status and data are of one answer (`ShownTogether`), a request carries what its form gave, each in its place, and all that is required (`ParametersPlaced`), every answer is shown in its own form when it comes (`EveryAnswerIsShown`) |

Parts of a promise that belong together are conjuncts of one property (`LoRelayed`, `StreamFramed`,
`KillsOwnChildren`, `ImplementsChannels`). The type invariant of `SecureProxy` is run as well as proved, for what
it says of stale buffers; those of the other modules are the theorems called `TypeCorrect`, or a conjunct of the
invariant that is proved.

### Findings

* `proxy.c:84`: the handler is installed after the forks, though it is there "pour ne pas laisser de
  processus orphelins" (line 83).
* `unsecured_proxy.c:194`: the `memset` in the loop wipes the Ethernet header, so the source MAC that
  line 152 sets for Vanetza's sake is never sent.
* `dcc_passthrough.cpp:39`: a callback that transmits, run between filling and sending, overwrites
  the packet.
* `BluetoothConnectionService.java:154`: the socket is made for a field, not for "the given BTdevice".

Other disagreements, seen while reading and without a run of their own: CAMs are not sent "at a
fixed rate" (`cam_application.cpp:14`), since the next is scheduled from the time of the last callback,
lateness included (62); after a failed fork `sig_handler` may call `kill(-1)` (`proxy.c:203`);
after a failed `SSL_accept` an all-zero frame may go out (`proxy.c:296`; `ZerosNeedAMessage` says when at the
earliest); two processes that split a TLS record may leave each other and the client waiting for ever
(`proxy.c:284`, `proxy.c:439`; `HandshakeEnds` says that nothing else does); with `--require-gnss-fix` nothing is ever sent, as the confidence of a fix is commented out
(`gps_position_provider.cpp:81`); `doHandshake` ends with "Handshake successful" also after a handshake
that failed and was closed (`B` 469; `NoEarlySuccess` states what a success does mean); and the
loop around `unwrap()` spins when a read ends within a record (`B` 346; `HangsOnlyInUnwrapLoop` says it is the
only hang, and that buffers and tasks cause none).

On the web pages: the arrow by which one "may choose some" options (`SelectFilter2.js:53`) moves options of
another row, or ends in a TypeError, once a removal has renumbered its own (114; `OwnRowMoves` says that this
is when); a popup answered after a removal fills another row's field (`RelatedObjectLookups.js:45`;
`PopupFillsItsField`), and a slug follows another row's title (`prepopulate.js:23`; `SlugFollowsTitle`);
the "reinit state" of `actions.js:66` never happens for the selection across pages, whose input the browser
restores (70; `AcrossIsAnnounced`); a changed key leaves links on the old one (`RelatedObjectLookups.js:105`;
`LinksFollowSelection`); after a 204 or a failure the status line shows the answer before (`coreapi-0.1.1.js:742`;
`ShownTogether`); and a missing parameter throws past the `catch()` of `api.js:234`, so that nothing tells the user
(`coreapi-0.1.1.js:659`). The calendar, which says it draws years 1 to 9999 (`calendar.js:54`), asks `new Date()` for the
weekday (91), which takes the years 0 to 99 for 1900 to 1999, and so does the day that is picked
(`DateTimeShortcuts.js:407`; `DaysUnderTheirWeekday` holds of all other years). Each property names its exception, so it also says there is no other.

### Bounds, and why they are enough

* `ProxyProcesses`: two children, as in the code, and two SIGTERMs: the second may come during, or
  after, the first one's handler. Nothing else is bounded.
* `UnsecuredProxy`: a buffer of 2 cells, 3 bytes of the app in messages of 1 or 3: a message longer than the
  buffer, one shorter, a read across a message boundary and a full buffer all occur. Two frames of
  others of all four kinds of header, a queue of two: it overflows, also between the two
  copies of one frame. The proofs hold for all sizes.
* `SecureProxy`: two sessions, two messages of the client and two frames of the car let each process take a
  record of the other's session and use stale state of an earlier message; a queue of one overflows. A record may be
  split anywhere in these sessions; what a stray read leaves of it goes with the next read (`Strays`), whole.
* `Socktap`: intervals of 3 and 2 ticks: both callbacks due together and apart. `MaxStall` 1
  lets the loop notice its timer late and handlers take time, always less than an interval: with handlers
  slower than the CAM interval the callback would indeed nest. `MaxDepth` 12 is never reached:
  `NestingBounded` says that the stack is at most 10 deep. One forwarded packet is buffered at a time.
* `PhoneService`: two services (the old one keeps its threads), two devices, three attempts: two on one
  service and one on the other. The violation needs one service and two attempts.
* `SslHandshake`: the read array has 4 cells, a header 2, a packet 6: records that fill a read, two in a
  read, one that spans two, one larger than the buffer, a close early and late. A buffer may grow
  once, and the proof covers all sizes.
* `WebPages`: four rows of the list, the least for which a range that leaves out its end is neither empty nor all;
  at most two forms, none or one from the server, three additions: a row is removed in front of another, which
  then has the number the removed one had, and the number is given again. Two options and one a popup adds,
  one filter word; two titles, one of which the slug drops entirely; two related objects. One time and
  two date fields, one of them in a row that is added once; the browser's date is the last day of 2023,
  the server's a day later; typed years 24, 2000, 2023, 2100. Three uses of widgets per page (`Events`): set up a
  state, disturb it, look. Two overlapping requests over four links: one with an optional query parameter, one with
  a path parameter and a check box, one with a required body, one the schema does not know.
* `MessageStore`: two workers are the smallest number that races; two ids let one row go and
  another come; two bodies tell messages apart.

### Fairness

* `ProxyProcesses`: `main`, the handler and the delivery of accepted signals are weakly fair, as the kernel
  schedules them; `accept()`, a failure or a SIGTERM need never happen.
* Relays: each process runs as long as it lives, and the TLS client reads its stream. Neither app nor
  car needs to send, and nothing forces a process to end.
* `Socktap`: time passes and handlers run; the io_service, which takes ready handlers in order and looks at its
  timers in between, is strongly fair to timers, so that received packets cannot starve them.
* `PhoneService`: started ConnectThreads run and `connect()` returns or throws, as the comment at `B` 167 says;
  `accept()` need not return, nobody need click.
* `SslHandshake`: the thread and the executor run. The peer need neither send nor disconnect.
* `WebPages`: the browser settles every fetch and every body it reads, with an answer or an error; no user need
  do anything, and the server may answer as it likes.

## 4. Proofs

All for every value of the constants, from the named ASSUMEs of the modules and, where a bullet says so, one named
hypothesis. `WebPages` assumes once (`WebAssumption`) what its pages need, so theorems about a page alone have the
page's assumption as a hypothesis and those about the site have none.

* **`ProxyProcesses_proofs`**: `TypeCorrect`, `NoOrphan`, `KillsRightly`. None of the
  properties is inductive: what `main` kills depends on which fork set which global. `ForkInv` ties the
  globals and the children to `pc`, `WaitInv` ties `ret` to the one reaped child, `OrphanInv` says that from
  the second kill on the other child has its signal. `NoOrphan` assumes `TermDuringForks = FALSE`; the
  run `proxy_orphan` shows that it must.
* **`UnsecuredProxy_proofs`**: `TypeCorrect`, `RelaysInOrder`, `FramesTheStream`. The invariant of
  the reader (`ReaderInv`) orders, by number, what was delivered, what is in hand and what is queued, with
  repetitions only next to each other and only from before `bind()`, and says that a queued frame of
  the proxy has a type `readGeonet` refuses. The one of the writer adds that frames and buffer hold bytes
  taken so far. The lemma `OnLoAppends` says what reaches a packet socket.
* **`SecureProxy_proofs`**: `TypeCorrect`, `NoZerosAtFirst`, `RelaysAreChannels`, `AppGetsInOrder`, `CarGetsInOrder`.
  `RelaysAreChannels` is the refinement of `RelayChannel` in both directions: an initial state maps to an initial
  state, each step to one of the channel or a stutter. The order of a channel is not inductive in `SecureProxy`:
  `ToAppOrder` adds where the frame in `readGeonet`'s hand stands between the records on their way to the
  client and the frames still queued, `ToCarOrder` where the message in `writeGeonet`'s buffer stands before those
  in the stream, and `BufCleared` that the buffer is empty whenever a handshake begins, as `memset` is the first
  thing the loop does. That the channel keeps the order (`InOrder`) is then proved of the channel.
* **`Socktap_proofs`**: `TypeCorrect`, `TimerIsRight`, and under `Prompt` also `NoCallbackNests`, `StackBounded`,
  `OwnPacketUnlessForwarding`, `StationImplementsBeacons`. `Prompt` says that a handler, with the callbacks it runs,
  is quicker than the two intervals (`MaxStall` is less than either); these are a second each, unless
  `--cam-interval` says otherwise, and a handler packs and prints a message or two. Without it a callback is due again while it runs and does
  nest. `Nested` describes the stack by who calls whom; `LagWithinHandler` bounds how far the runtime's clock is
  behind; `TimerSet` says what the last `schedule()` to return leaves behind, and gives the timer; `NotDueAgain`, that
  a callback in progress has its next deadline in the future by its interval less the time the handler took,
  is why none nests. For the air, `OwnBuffers` says whose packet is in the shared buffers at each place in the stack
  and `TakesTurns` which message is next there. `OwnPacketUnlessForwarding` is as much of `SendsOwnPacket` as holds:
  the run `socktap_overwritten` shows the rest fail. `StationImplementsBeacons` is the safety half of `BeaconsOnAir`.
* **`PhoneService_proofs`**: `TypeCorrect`, `DialogsCorrect`, `RightDevice`. `Covered` is the heart: an
  attempt in progress has its dialog on the screen, which keeps the user from starting another, unless
  its service accepted a connection. With `FieldOfShown` (the field names the device of the shown
  attempt) this gives the right device.
* **`SslHandshake_proofs`**: `RoomForReads`, `NoFalseSuccess`, `AlertSent`, `NothingLeftBehind`. `BufferInv` says that
  `peerBTData` is empty whenever the loop may read; after an exception that skipped `compact()` it need
  not be, and `EngineInv` shows that the engine then asks for nothing but its alert. `CellsInv` keeps count
  of cells: what was read and not consumed is in the buffer. One lemma per action.
* **`MessageStore_proofs`**: `TypeCorrect`, `RacesHitNoOtherRow`, `DeletionIsFinal`. Both races are harmless because
  ids are never reused: `IdsGiven` and `LookedUpGiven` say that rows, and rows once looked up, have ids
  the table has given, so a new row can be neither.
* **`WebPages_proofs`**: every safety property of the run `web_pages`.
  * *Formsets and change list.* `AlwaysContiguous` and `BarIsRight`, `AcrossIsNeverSilent` are proved of `Inlines` and
    `Changelist` alone. The first adds to the property `NextIsNew` (the row added next is not on the page yet) and
    `OnlyRowsNumbered` (a form that is not on the page has no number); the other two are inductive with the types, where
    `CounterSettles` says what `updateCounter()` establishes once the boxes match the lit rows. `FormsRefineInlines` and
    `SiteRefinesChangelist` show that every step of the tab is one of theirs or leaves them alone, so
    `FormsStayContiguous`, `BarStaysRight` and `AcrossNeverSilent` follow. `RowFacts` is what the formset
    guarantees to the widgets below.
  * *Related fields.* `LinksStayRight` and `AnswersReachTheirField` need `FieldFacts`, that every select has the link of
    its value and a value among its options until a popup changes a key, and that the rows popups were opened
    from are forms. By `FoundAlone` a popup whose row still has the number in its name finds that row alone.
  * *Slugs.* `SlugsFollowTitles`: a removal only ever lowers the number of a row, so the number a slug was bound to
    (`dep`) is never below its row's, and if they are equal now they were always. That is `SlugFacts`.
  * *Filter selects.* `EveryOptionOnce`, `SubmissionIsShown`, `ClicksMoveWhatIsSeen`. `CachesGood`: the two caches of an
    id hold each option once between them, those on the right all displayed. `WidgetsReady`: every number in use
    has caches, no row's number is above the one its handlers captured, so a row that has that number has always
    had it, and its boxes show its caches. `BoxesGood`: no box has an option twice. `Rewritten` says once what all
    moves, keys and popups do to this, and the lemmas about `Only` that it keeps a sequence without repetitions so.
    The moves need `SelectionFacts` too: what is selected is in its box.
  * *Dates.* `OpenBoxesListen` is inductive. `ShortcutsStayRight` and `CalendarsAreRight` need `DateFacts`, that a calendar
    exists per box, with a month from 1 to 12, that typed texts are what a user can type and links lead
    to boxes. The rest is arithmetic: `DayNumber` counts days without gaps from month to month over leap and
    century years (`FromMarch`, `ToFebruary`, `MonthLength`), for any year, and `calendar.js`'s own leap years and month
    lengths agree with it. The weekday is right in all years but those of two digits, which the statement excepts.
  * *API explorer.* `RestClient` alone, then `SiteRefinesExplorer`. `PanelsStayTogether` needs `Settled`, that a request
    whose answer is shown is done. `RequestsStayComplete` assumes `OneBody` of the links; a schema with a body beside
    form fields would lose the form's parameters.

Only model-checked: all liveness properties (`EndTogether`, `StreamDrained`, `QueuedFrameArrives`, `HandshakeEnds`,
`CamsGenerated`, the fairness of `BeaconsOnAir`, `DialogGoesAway`, `HangsOnlyInUnwrapLoop`, `EveryAnswerIsShown`), which
are beyond the prover. The four violations are runs by nature. What DateFields draws is proved of `DayNumber` as written
there; that JavaScript's Date counts so is taken from its definition.

## 5. What is left out

* In `SecureProxy` header and body of a record are read whole, and what a stray read leaves is one piece: finer cuts
  only repeat `Strays`. A message is a record that fits the buffer.
* `proxy.c:301-307` copies up to 14 bytes past `sendbuf` for messages of 1011 bytes and more, in a function that
  never returns; sizes are abstracted so that a message fits.
* The time before `bind()` is modelled in `UnsecuredProxy` only; the code is the same in `proxy.c`.
* `Socktap`: security options and printing; errors of `on_read`, which would end reception; exceptions a
  rejected request throws, which end the program; intervals of zero.
* `PhoneService`: the life cycle of the activity, receivers, discovery and permissions. A dialog is
  dismissed at once, though a thread other than the UI's posts that.
* `SslHandshake`: the buffers of one ConnectedThread. Those of one service share them; a second
  ConnectedThread on it would replace them. The loop after the handshake calls `write()`, which sends
  nothing (`B` 534-537 drop the wrapped buffer), and `write2` calls itself (`B` 613-622): no state.
* `MessageStore`: the text of messages, authentication, and Apache.
* `main.c` serves one client at a time, so one that stalls in `SSL_accept` (126) keeps the others out; `accept()` is
  not checked in the proxies (`proxy.c:55`), with the effect of a client that is gone; `--cam-interval 0`
  (`main_cam.cpp:184`) makes every trigger find the callback due again; `enable()` of `router_context.cpp:96` does
  not record the application; `A` 169 unregisters receivers that may not be registered.
* Web pages: what texts and dates look like; transliteration in `urlify.js`; positions of boxes; edits the browser
  restores while `list_editable_changed` is not (`actions.js:9`: `EditRow` and `Reload` show it, no property
  promises otherwise); keys of a filter that leave its links as they were (`SelectFilter2.js:199`); loading
  a schema and the language control of the API explorer; scripts without state (`collapse.js`, `csrf.js`,
  `default.js`), one request in place of a form submission (`ajax-form.js`), and third-party code.
* That `UnsecuredProxy` refines `RelayChannel`: a frame may enter its packet socket twice before `bind()`, and a
  frame towards the car holds part of a message or several. Its guarantees of order are stated directly
  (`LoRelayed`, `StreamFramed`) and proved for all sizes.

## 6. Plan

In this order; parts 1, 2 and 4 are done.

1. **Core**: life cycle, unsecured relay with its proofs, secure relay, socktap's sending, server, the
   phone's Bluetooth threads and handshake, with the theorems above.
2. **Web pages**: the scripts of the admin and of the API explorer, their composition, and theorems about
   formsets, change list, related fields and boxes.
3. **Wider**: the HTTPS client (`HttpsWithCertificate` and the two tasks: a static context set up
   once, errors swallowed, a POST the serializer refuses reported as successful) and `RestClient` composed with
   `MessageStore`; socktap's receive path (`on_read` after an error, `enable` and `disable`, the GPS
   provider's exceptions); two ConnectedThreads of one service on the shared buffers; the life cycle of
   the activity.
4. **Deeper proofs**: both refinements (`RelayChannel` by `SecureProxy`, `Beacons` by `Socktap`), the timer and the
   nesting of socktap, and every safety property of the web pages.
5. **Further proofs**: socktap with forwarding (which packets `request()` may send in place of its own), a bound on
   what `lo` loses, and the theorems of part 3.

`RelayChannel` is meant to stay the common specification of every path between phone and car; `Beacons` that of
everything periodic; `Inlines` that of every form with rows.
