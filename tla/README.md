# A TLA+ model of MrBoboWeb

MrBoboWeb is a collection of C++ network programs that share a socket, TLS and
HTTP library written for them. This directory holds TLA+ modules that model the
parts of it whose correctness depends on the order of events, and the
algorithms below them (parsers, formats, arithmetic, search), TLC
configurations that check them on small instances, and TLAPS proofs of what
matters most. Source paths below are relative to the repository's root; line
numbers are those of the modelled revision.

    tlc -config PoolCrawl.cfg MCThreadPool.tla     model-check one run
    tlapm ThreadPool_proof.tla                     check one module of proofs

`PROJECT.json` lists the runs, what each definition models, and the hazards.

## The system

| Component | Source | State it keeps | Interacts with | What is hard |
|---|---|---|---|---|
| Thread pool | `MrBoboSockets/MrBoboSockets.h` 326-570 | pool queue, workers on standby, one queue and two flags per worker | search engine, crawler | two levels of mutexes, work done outside them, shutdown |
| Crawler coordinator | `Crawler/MBCrawler.cpp` | queued, indexed and failed resources | thread pool, HTTP client | check and insert under different locks |
| Chat transfer over UDP (MBTCP) | `MrBoboChatt/MBChatConnection.cpp` | batch bitmap, message number, verified flag | chat pipes | lost, duplicated, reordered datagrams |
| HTTP server connections | `MrPostOGet/MrPostOGet.cpp` 265-319, 834-871 | map of connections' threads, stack of handles to remove | website | accepting thread, connections' threads, joining worker |
| HTTP request reading | `MrPostOGet/MrPostOGet.cpp` 418-515, 1323-1510 | lengths of the body announced and read | handlers | bodies and headers cut anywhere |
| TLS record layer | `MrBoboSockets/TLSHandler.cpp` 2053-2272 | left-over bytes, stored records, sequence numbers | HTTP, chat, mail | records out of a byte stream |
| TLS handshake and sessions | `MrBoboSockets/TLSHandler.cpp` 818-2050 | session id, keys, negotiated state, session cache | record layer | two peers' orders of messages, resumption |
| Sockets | `MrBoboSockets/MrBoboSockets.cpp` 435-928 | descriptor, connected and valid flags | everything | partial sends, closed peers |
| HTTP client | `MrBoboSockets/MrBoboSockets.cpp` 929-1285, `MrPostOGet/MrPostOGet.cpp` 1511-2223 | chunk state, body buffer, place in the file | sockets | chunked decoding, ranges, end of connection |
| Website | `MBWebsite/MPGMemeSite.cpp` | plug-ins, handlers, packets and their indexes, two database connections | HTTP server, database | concurrent requests on what they share |
| Chat connections | `MrBoboChatt/MrBoboChatt.cpp` | pipes, ports, the edited line, pending file requests | MBTCP | hand-over between threads, file transfer |
| BitTorrent | `MBTorrent/MBBitTorrent.cpp` | assigned, finished and pending pieces per peer | sockets | download loop and connections' threads |
| DNS | `MBDNSHandler/` | parse offsets, two sockets | UDP and TCP sockets | recursion over servers |
| Search engine | `MBSearchEngine/` | token maps, postings | thread pool | iterators in step, files read back |
| Parsing library | `MBParsing/MBParsing.cpp`, `.h` | - | website, tools | positions in a text |
| Parser generator | `MBParsing/MBCC.cpp` | declarations, rules, tables | tools | positions in a text, order of declarations |
| Big integers | `MrBigInt/` | sign and units | crypto | carry and borrow |
| Mail server | `MrBoboMail/MrBoboMail.cpp` | SMTP transaction per connection | sockets, TLS | order of commands |
| Database | `MrBoboDatabase/` | prepared statement, reset flag | website | order of bind, step and reset |
| Unicode, MIME, system, crypto wrappers, demos | `MBUnicode/`, `MBMime/`, `MBSystem/`, `MBCrypto/`, `BasicChat/`, `Crawler/Crawler.h` | - | - | sequential |

Components call each other through plain C++ calls, and share state between
threads through members guarded (or not) by mutexes. A web request passes the
accepting thread, the connection's thread, TLS records, HTTP requests and a
handler of the website. A crawl passes the coordinator, the pool and the HTTP
client. A chat message passes the chat's pipes and MBTCP.

What makes each component correct:

- **Thread pool.** Every submitted task is executed once; a worker is handed
  out to one task at a time; a wait returns only when nothing is outstanding;
  stop returns after every thread has ended; nothing blocks for ever.
- **Crawler.** No link of a fetched page is lost; a crawl that returns has
  fetched or failed to fetch all that is reachable; no page is fetched twice.
- **MBTCP.** Strings arrive whole, once and in order; success is reported only
  for what has arrived; both calls return.
- **HTTP server.** A response follows the whole request; bodies are never taken
  for requests; every request is answered; every thread of a connection that
  closes is joined, and once.
- **TLS records.** The receiver keeps its place in the stream; data comes out
  whole, once, in order, with the right sequence number.
- **TLS handshake.** Both sides agree on keys and numbers when they finish,
  also when a session is resumed; what one side writes the other reads.
- **Website.** A request is answered from what it said itself; nothing that was
  uploaded is lost whatever fails, and a packet agrees with its indexes wherever
  its last change was made whole; no handler waits for ever.
- **Chat connections.** Two chats end up on one port, if one side's ports in
  use are part of the other's; a file that is transferred is the file that was
  asked for, as long as its sender asks for one at a time, whole and in order;
  the cursor is in the line.
- **BitTorrent.** A peer's messages are taken apart as they were put together,
  and its data goes to the piece it belongs to.
- **HTTP client.** What is read is the file, wherever the connection cuts it,
  and no read waits for what it already has.
- **DNS, parsing, big integers, search engine.** What is written is read again;
  arithmetic is arithmetic; a query finds the documents that satisfy it.

## How the modules are written

Each module names the code it models in its head. A definition has the name of
the function it models where there is one; `PROJECT.json` gives each one's
lines. Operators that are only a part of another one, or a library function
such as `find`, are found under the operator that uses them. A thread's place is
a label, and one action is what a thread does between two points where another
thread could notice: taking a lock, releasing it, a call to the system, a read
or write of shared data outside a lock. A critical section without a wait in it
is one action.

`Operator_Word` is `Operator` with a plausible mistake, named by the word. No
specification uses it; replacing the operator by it makes the properties fail
that are there to notice.

| Area | Modules | Checked through |
|---|---|---|
| Thread pool | `ThreadPool`, `TaskPool` (its promise), `ThreadPool_proof` | `MCThreadPool` |
| Crawler | `CrawlCoordinator`, `CrawlCoordinator_proof`; `CrawlPages` | `MCCrawlCoordinator`; `MCAlgorithms` |
| MBTCP | `MbTcp`, `MessageService` (its promise), `MbTcp_proof` | `MCMbTcp` |
| HTTP server | `HttpConnections`, `HttpRequests`, composed in `HttpServer`, `HttpServer_proof` | `MCHttpServer` |
| TLS | `TlsRecords`, `TlsRecords_proof`; `TlsHandshake`, `TlsHandshake_proof`; `TlsMessages` | `MCTlsRecords`; `MCTlsHandshake`; `MCAlgorithms` |
| Website | `SiteThreads`, extended by `SiteFiles` and `SiteDatabase`, composed in `Website`, `Website_proof` | `MCWebsite` |
| Chat | `ChatConnect`, `ChatInput`, `ChatTransfer`, `ChatFile`, `Protocols_proof` | `MCProtocols` |
| BitTorrent | `PeerDownload`, proved in `Protocols_proof`; `Bencoding` | `MCProtocols`; `MCAlgorithms` |
| HTTP client | `HttpStream`, proved in `Protocols_proof`; `HttpChunks` | `MCProtocols`; `MCAlgorithms` |
| Texts and numbers | `JsonTexts`, `Grammars`, `DnsMessages`, `BigIntegers` | `MCAlgorithms` |
| Search engine | `SearchIndex` | `MCAlgorithms` |

### ThreadPool, TaskPool

`ThreadPool` is the template of `MrBoboSockets.h`: `Worker`, `ThreadPool` and
`WorkerThreadFunction`.

| Model | Code |
|---|---|
| `poolTasks`, `poolRunning` | `TaskQueue`, and whether `Start` has been called |
| `standby` | `ThreadsOnStandby`, a queue |
| `workerTasks`, `separate`, `shouldStop` | `TaskQueue`, the tasks a worker sets aside, `ShouldStop` |
| `Start_*`, `AddTask_*`, `Wait_Check`, `Stop_*` | the pool's operations, cut at their locks |
| `Loop_*` | `WorkerThreadFunction`, cut at its locks and at each unlocked read |
| `Drain_*` | the crawler's poll of `NumberOfActiveWorkers` and the queue |

Tasks may add tasks while they run (`Children`), with the locks the code takes.
Clients run programs (`Program`): sequences of calls. `TaskPool` is the
promise: a task is executed exactly once, and a wait is answered only at a
moment when no task is outstanding. `ThreadPool` maps the pool to it
(`Promise`), and says of which use it holds (`SubmitsBeforeStart`: the owner
submits before `Start`, only running tasks do later).

### CrawlCoordinator, CrawlPages

`CrawlCoordinator` is `WebsiteCrawlerCoordinator`: `main` is the thread in
`StartIndexing`, the workers run `IndexWebsiteResource`. It takes the pool at
its word, which is what the run `pool_crawl` checks of this very use of it:
`pending` counts the queued tasks of a resource. `indexed`, `queued` and
`failed` are the three maps. `AddResourceToIndex` writes the map of queued
resources without its mutex: the write may lose others' entries and a lookup
may miss one (`MarkQueued`, `IsQueued`), or the table may be corrupted for good
(`CorruptMap`, after which nothing is promised).

`CrawlPages` is what one of its steps does with a page: the links found in it,
the resources they become, with the normal form of a path, the file a resource
is saved in, and the copy of a page whose links do not name the site.

### MbTcp, MessageService

`MbTcp` is `SendData` and `GetData` of `MBChatConnection` with the listener
that sorts datagrams into two queues, over a network that may lose, repeat,
reorder and delay. A record is what its bytes say to the call that reads it:
where the three layouts of `MBCProtocols.cpp` do not line up, a record taken
for another kind has the fields its bytes give under the other layout.
`MessageService` is the promise: strings come out unchanged, once and in order,
and `SendData` reports success only for one that has come out.

### HttpConnections, HttpRequests, HttpServer

`HttpConnections` has the threads: `StartListening` (`Accept`, `AddConnection`,
`Launch`, `Assign`), the end of a connection's thread (`RemoveConnection`,
`Notify`) and the worker that joins (`Lock`, `Pop`, `Join`, `Unlock`). That the
thread starts before its `std::thread` is assigned is kept: `JoinEmpty` is the
exception, or the race, that ends the program, and no property excludes it.
`HttpRequests` has what one connection's
thread does with what its client sends: the loop of `m_HandleConnectedSocket`
and `GetHTTPRequest` below it. Text is a stream of units, and a string of the
code is a stretch of it of which only the ends are kept. `HttpServer` composes
them: the thread of a connection in `serving` takes the steps of
`HttpRequests`.

### TlsRecords, TlsHandshake, TlsMessages

`TlsRecords` is `GetApplicationData` and what it calls, on the stream of bytes
that the peer's `SendDataAsRecord` has written. `start`, `offset` and
`previous` are `NewRecordData`, `RecievedDataOffset` and
`CurrentRecordPreviousData` as places in the stream; `storedRecords` are
`StoredRecords`; `sequenceNumber` is the receiving side's counter. Each `recv`
returns some of what has been sent.

`TlsHandshake` is one layer up: for each connection a client's process
(`InitiateHandShake`) and a server's (`EstablishHostTLSConnection`), with a
channel each way that may break, and the cache of sessions that all of the
server's connections share. A key is what it is derived from, so that two sides
have the same key only if they have derived it from the same randoms; an
encrypted record opens only under its own key and number. `Roles` says who the
two ends are: our client never offers a session, so that resumption needs a
browser, and our server never sends a key exchange of its own, so that one side
of this code needs another server. Those two are external.

`TlsMessages` has the layouts: what one function writes, with its lengths
computed by another, and a third reads.

### SiteThreads, SiteFiles, SiteDatabase, Website

`SiteThreads` has a thread per connection that takes a request, goes through
the list of handlers and answers. `SiteFiles` extends it with the handlers of
uploads, edits and downloads, git's backend, whose environment is the process',
and the packets of the package manager with their indexes. An upload to a
packet is first put into a directory of its own (`uploaded`, `changes`) and
reported in a list that is only in memory (`UpdatedPackets`); after the answer
it is taken up. It may break off before it is finished (`RequestBreaks`: some
objects are there, with or without a report, and nothing is taken up), and what
takes it up may end anywhere between the moving of the first object and the
writing of the last index (`Interrupt`), by an exception or with the process.
Two histories say what to make of that: `sent` has the objects that were
uploaded and not deleted since, and `damaged` the parts of a packet (what waits
in its directory, its index, that of a kind of computer, the list of objects a
kind is not to have) that such an end has put in doubt and that no whole upload
has renewed since. `SiteDatabase` extends it with the API, its plug-ins and the
two database connections. `Website` composes both and adds the server's end and
new start, after which files and packets are as they were left. Only a mutex
that is held across steps is a lock.

### ChatConnect, ChatInput, ChatTransfer, ChatFile

The four parts of `MrBoboChatt.cpp` that keep state: `CreateConnection` on both
sides with the main socket's two threads; the line a user edits, byte by byte;
`ChatMainFunction` on both sides, with the requests to send a file; and the
file's chunks. `ChatTransfer` and `ChatFile` rest on the service that `MbTcp`
gives: what `SendData` gives to the connection arrives once and in order.

A user may ask to send a file at any time, also when the last request is not
answered yet: `MBCSendFile` asks nothing about it, and the new request takes the
place of the old one (`SendFileRequest`), whose answer is then taken for its
own. The history `crossed` remembers of a side that it ever asked before its
last request was settled: nothing of it to be answered, or answered and on its
way (`Settled`). `TransfersAgree` is about the sides that did not.

### PeerDownload, Bencoding

`PeerDownload` has the thread that takes a peer's messages out of what the
connection gives, the thread that retrieves pieces, and the handler's loop that
assigns them. `StartDownload` tries the peers one after the other with one
connection object: a peer that closes, or answers the handshake with another
torrent's hash, is followed by the next, in front of whose stream stays what
the last one has sent behind its handshake (`p_InitiateHandshake`). When these
are whole messages they are handled as the next peer's first ones. When the
last of them is only a part, the next peer's bytes are read as its rest: the
history `torn` says so, a message's size and kind may then be anything, and
`PeerDataInOrder` says nothing more. `Bencoding` has the texts: torrents,
trackers' answers, bit fields, and the order in which trackers are asked.

### HttpStream, HttpChunks

`HttpStream` composes three layers: `HTTPFileStream`, which is opened, again
too, seeks and reads by ranges; `HTTPClient`, which cuts responses out of a
connection; and the website's own answer to a range. Whether the connection is
up (`linked`) and whether the socket believes it (`connected`) are two things:
the code asks for the second, and learns of the first when it sends or
receives. `HttpChunks` is the older client, which the crawler uses, on a
response cut into pieces anywhere.

### JsonTexts, Grammars, DnsMessages, BigIntegers, SearchIndex

Algorithms without state of their own, as operators. Each module states at its
end what should come out, independently of how the code does it: that a value
written is the value read (`JsonIsRead`, `BinaryIsRead`, `RulesAreRead`,
`DefinitionsAreRead`, `TorrentIsRead`, `AnswersAreRead`), that arithmetic is
that of the integers (`NumbersAre`; where the code loses a carry or borrows
without need, `SumIsRight` and `DifferenceIsRight` say for exactly which
operands it does, and which way the result is wrong), that a grammar accepts
what its rules say (`WordIsRead`), that a header declares before it uses
(`HeaderIsInOrder`), that a query finds the documents that satisfy it
(`QueryIsAnswered`), also in an index that was saved and loaded. What a loaded
index would copy into another file is compared with the lists it was made of;
its last list has no end in the code (1272), so that it cannot be saved whole
(`EndIsThere`). `Grammars` has both the rules of `BNFParser` and the
definitions of the parser generator, which are read in the same manner.

## What the runs check

| Run | Instance | Shows |
|---|---|---|
| `pool_crawl` | 2 workers, 1 client, 4 tasks of which two add others | `OneTaskPerWorker`, and the pool implements `TaskPool` (`KeepsPromise`) |
| `pool_shutdown` | 2 workers, 2 clients, spurious wake-ups; one adds while the other starts and stops | `TypeOK`, `NoEmptyFront`, `Conservation`, `OneClaim`, `Termination` |
| `pool_late_add` (violation) | a client adds to a running pool and waits | `WaitMeansDone` fails |
| `crawl_complete` | 2 threads, 3 pages linked in a ring and back | `TypeOK`, `NoLinkForgotten`, `CrawlIsComplete`, `Termination` |
| `mbtcp_loss` | 2 strings of one batch, up to 3 lost or repeated datagrams | the transfer implements `MessageService` (`KeepsService`) |
| `mbtcp_storm` | 1 string, datagrams late and in any order | `AskingMeansMissing`: what is asked for again is never nothing |
| `http_server` | 2 connections over TLS, one with a body longer than is kept in memory followed by a request without one | `AnswersWholeRequests`, `RemovedOnce`, `EveryRequestIsAnswered`, `ClosedIsRemoved` |
| `tls_records` | 5 records: shorter and longer than a header, a warning, a fatal alert | `GivenInOrder`, `EmptyMeansOver`, `EverythingIsGiven` |
| `tls_handshake` | 2 connections: two browsers at our server, or our client at our server and at another | `Agreement` on keys and numbers, `CachedIsFinished`: a session in the cache was finished, `HandshakeEnds` |
| `website` | 2 threads, any 2 of 31 requests, uploads that break off, a failed incorporation or a killed server | `BackendSeesItsRequest`, `PacketsAreConsistent`, `FolderIsKnown`, `EveryRequestEnds` |
| `protocols` | chat, peers and stream, each by itself | `AgreeOnPort`, `CursorInInput`, `TransfersAgree`, `FileArrives`, `PeerDataInOrder`, `ReadsAreTheFile`, `NeverStarved` |
| `algorithms` | all algorithms on bounded inputs | `TlsMessagesAgree`, `NumbersAgree`, `TextsAgree`, `WiresAgree`, `SearchesAgree` |

`MCProtocols` and `MCAlgorithms` hold several models that share nothing, so
that one run checks all of them: the first step chooses which part is checked,
and in `MCAlgorithms` also the input.

### Bounds, and why they are enough

- *Pool.* Two workers are the least with which one can be woken while another
  enters standby, and each of the two levels of locks is contended. Four tasks
  make a worker fetch, be assigned to and find nothing. What two workers cannot
  show is covered by the proofs, which hold for every number.
- *Crawl.* Three pages: one is linked from two, so that two threads reach it at
  once, and there is a cycle. The proofs hold for every site.
- *MBTCP.* A record carries 2 bytes and a batch has 2 or 3 records (492 and 100
  in the code; only the comparisons matter). `NetCapacity` and `QueueLimit`
  bound what is in flight; what is sent into a full network is dropped, without
  being counted as a fault, as a full buffer would do. `MaxFaults` is at
  most `MaxTimeouts`, since a sender that hears nothing for that long gives up,
  which is a failure the code announces. `Prompt` says that no datagram is
  later than a timeout: with later ones the promise does not hold, since
  records have nothing that tells two transfers apart, and `mbtcp_storm` checks
  what holds even then. `MaxStrings` bounds what the receiver returns. Strings
  have one batch and its last record is not lost, see below.
- *HTTP server.* Two connections use every step of accepting, removing and
  joining while another does, and handles 1 and 2 on the stack show its order.
  `MaxDataInMemory` is 1 unit and the body has 3, so that it is read in one,
  two or three calls. `HeadersAreWhole`: a header arrives in one piece; without
  it `AnswersWholeRequests` does not hold, see below.
- *TLS records.* Records of 1, 2, 2, 6 and 2 units behind headers of 5 arrive
  in every cut into pieces of at least `MinPiece` = 3, so that a header always
  takes two reads at most, as the code expects.
- *TLS handshake.* Resumption needs one connection that fills the cache and one
  that uses it; with two, they also run at once. Each may break between any two
  messages and carry one alert.
- *Website.* Two threads contend for each mutex and each file; one request of
  each kind and of each early return (31), of which any two come, in any order.
  One failure or crash, since a second one meets what the first has left,
  besides uploads that break off, which both may; two packets, the fewest
  between which an index can mix up.
- *Chat.* Two chats, of which each may call first; ports in use on either side,
  of which one side's are part of the other's, and one call each (otherwise the
  agreement can fail, see below); a queue of one datagram. Two bytes between
  two Enters make every combination of a key's first byte and what follows.
  Files of no chunk, less than one, one and a half, and two chunks; two failed
  sends, one of which loses the data and one only the answer. One side asks
  to send two files, at any time, and the other enters up to three lines: a
  request can be declined, or accepted and named, before or after the next one.
- *BitTorrent.* Torrents of one piece of more bytes than a request asks for, of
  two pieces, and of a shorter last one; one unasked message of the peer
  anywhere; two peers, so that one may be given up for the other.
- *HTTP stream.* Files that are empty, shorter than what the first request asks
  for, longer, and several buffers long; two reads with a seek between them.
- *Algorithms.* Inputs are all texts or trees up to a size over an alphabet
  that has each character the code treats by itself, and numbers around each
  border (127 and 255 bytes, a full unit). A unit of a big integer has 2 bits,
  so that all carries come in numbers below 64. The values a written structure
  is read back from are those the reader accepts; the next section says which
  are not.

### Fairness

Every thread that can run runs (weak fairness of each thread's steps): the
operating system schedules them, and a thread that waits for a mutex gets it,
since the holder never waits for long. A condition variable wakes unasked only
finitely often. In the crawler, the owner's loop notifies until it ends. In
MBTCP, datagrams that are not lost arrive, the listener runs, and time passes
when nothing else happens (`QuietSecond`). In HTTP, a client that has not
closed goes on sending; nothing makes it close. In TLS records, the peer goes
on writing what it has to send until it closes. In the TLS handshake, each side
takes its steps, and a side that has failed closes its connection (`Failed` and
`Break`). In the website, threads take their steps under strong fairness: a
mutex that is released again and again is got in the end by a thread that keeps
asking, as the systems' mutexes do. `protocols` and `algorithms` check safety
only.

## Where the code and its comments disagree

`pool_late_add` violates one property; `PROJECT.json` quotes the lines.
`AddTask` looks for a worker under one lock and queues under another; in
between the last worker goes on standby, the task stays queued, and
`WaitForThreadsToFinish` returns.

## Met while modelling

What follows was read in the code, is kept in the models where it is reached,
and limits what the properties can promise. No run shows it by itself.

*Threads and servers*

- A worker of the pool decides to end on a read of `ShouldStop` (554) later
  than the one on which it sets its task aside (544): a stop in between loses
  the task.
- Two crawler threads find the same link in neither map (103), and the page is
  fetched and saved twice.
- The thread of a connection starts before its `std::thread` is assigned (864):
  when it ends at once, the worker joins an empty object and the program ends.
- From the second batch of an MBTCP string on, records start at the wrong byte
  (`MBChatConnection.cpp` 269); the resend of the last record of a batch asks
  for the index -1 (322).
- An HTTP header cut after its Content-Length line hides the length from
  `GetHTTPRequest` (1453), and the body is taken for a request.
- A TLS header that arrives in pieces shorter than it, one after the other, is
  read from behind what has come (2157, 2169).
- `p_ViewMBDBObject` (1369) gives the full path to `LoadMBDBObject`, which puts
  the folder before it once more: no object is found, so that playlists
  (1277-1363) and embedded objects (1201-1276) are never reached. Of several
  reported packets only half are handled (476). The sense of the permission in
  `ListDirectory` (2755) is inverted; git's CONTENT_TYPE and REMOTE_USER are
  never unset.

*Chat*

- Two chats with different ports in use connect on two ports: with the first
  port in use on one side only and the next one only on the other, the
  suggestions cross (1484, 1486). So do the answers to a cancelled call with
  the next call's. `AgreeOnPort` is checked, and proved, without these. A lost
  echo leaves one side connected and the other calling. The second call to the
  same address gets no pipe, and its end removes the other's (309-320).
- The sender waits before it looks at its queue (1101); of several lines and
  messages only half are taken, since the loops count up while they remove.
- One pair of variables remembers one request to send a file: a second request
  before the answer to the first, or between the two copies of an acceptance
  (1283, 1271), starts the transfer of the second when the first is accepted.
- The last chunk of a file is padded; a chunk sent again after a failure that
  had delivered it is in the file twice (`FileArrives` says when the file is
  right).
- Arrows never work on Linux (795-806).

*Clients*

- A read beyond a file's end is announced with a size that is no 64-bit number;
  `stoll` throws, and the response stays in the buffer. A range of the last
  bytes (`bytes=-N`) is announced with one byte more and sends none.
- A chunk's header cut by the end of a piece is lost (976); the line after the
  last chunk, and the beginning of a next response, join the data; after a
  closed connection `HTTPGetData` waits for ever.
- The crawler's scan of a page never ends at a link that is not closed (166). A
  place a page has moved to is never found, since the search is given a length
  longer than its pattern (178); a link that begins with a slash counts as
  external, and a longer domain that begins with ours as ours; one without
  anything behind the domain is saved beside the output folder.
- BitTorrent: a tier with more than one tracker, the list form of peers and a
  URL without a port end the program; the bit field's message has its type
  before its length, and only the first byte of a bit field is read; keep-alive
  is handled as choke; `AssignedPiecesAreFinished` (431-451) is always true,
  and `TransferAssignedPieces` empties what `p_SavePiecesAndState` reads. What a
  peer that is given up has sent is read as the next one's (32-35, 943-950).

*Texts and numbers*

- DNS: the bit that asks for recursion is written twice, AuthorativeAnswer in
  the place of a count; authorities are written twice, the additional records
  never; the rest of an answer over TCP is read from a socket that was never
  connected (269); servers that name each other are asked for ever, and so is a
  pointer to itself.
- JSON: `\t` is read as `\b`; an array needs no end; names are not escaped;
  UBJSON arrays with a count get a null after each element. BNF: `{2,3}` is
  dropped, any closing sign ends any bracket, a range over nothing loops for
  ever.
- Parser generator: definitions with rules are refused where those without are
  meant (603), and a struct with a parent always (430).
- Big integers: a carry is lost where two full units meet one (57), a full unit
  borrows wrongly (111), a difference that changes its sign falls into the
  branch after its own (1584-1612: 3 - 5 gives -7), so that operands of other
  signs are right by `operator+=` only; `SetBitByIndex` never clears.
- Search: a negated term never finds the last document (481); mixed operators
  without parentheses are accepted, since depths are looked up as positions
  (548); words of one letter count only at the end; scores are not divided by
  lengths (1465); a loaded index does not see its own updates, and saving it
  reads past the map of its lists (1272).

## What is proved

`ThreadPool_proof` proves, from `PoolAssumption` (any number of workers and
clients, any programs and tasks):

- `TypeCorrectness`: `Spec => []TypeOK`;
- `ClaimsAreExclusive`: `Spec => []OneClaim`, a worker is on standby or being
  assigned to, once, never both;
- `QueueBound`: `Spec => []OneTaskPerWorker`;
- `FrontIsDefined`: `Spec => []NoEmptyFront`.

None is inductive alone. `IInv` adds what each thread has established at its
place (`WorkerAt`, `ClientAt`) and that whoever is on standby or taken off it
is idle (`ClaimedAreIdle`). The argument: a push finds an idle worker, whose
queue is empty; a worker adds itself to standby only from a place where it is
not idle, hence claimed by nobody; and past the gate it has a task or was told
to stop, which is undone only after its thread has ended.

From `SubmissionAssumption` as well, that every call of `AddTask` makes a task
of its own (it binds its arguments to a new `std::function`):

- `TasksAreConserved`: `Spec => []Conservation`, an accepted task is in one
  queue until it is executed, once.

`TaskInv` strengthens `IInv`. `Booked` says how the queues, the accepted tasks
and the executed ones agree, and a step moves a task from one queue to another,
takes the first of one away, adds a new one or concerns none (`QueueMoved`,
`QueueExecuted`, `QueueAdded`, `QuietFrame`). That the added one is new
(`AddedIsNew`) needs more: each accepted task is one whose call has been made,
or whose parent has come to it (`WasSubmitted`); a worker runs the first of one
queue, so no two run the same task (`OneRunner`), and what it has yet to add is
the rest of that task's children (`RunsItsChildren`).

For the programs that submit everything before `Start`, later tasks coming only
from running ones (`SubmitsBeforeStart`, which the crawler's program
satisfies):

- `PoolKeepsPromise`: the safety part of `KeepsPromise`, every step of the pool
  is a step of `TaskPool` or none;
- `WaitingMeansDone`: `Spec => WaitMeansDone`, the property that the run
  `pool_late_add` violates with a program of the other kind.

Both rest on `PromiseInv`: when all workers are on standby the pool's queue is
empty, since a worker goes there only after it has found it so and whoever puts
a task into it is not on standby: a running worker, or a client before `Start`,
when no worker is there (`SubmitsFirst`). All of them on standby are all there
are (`EveryoneStands`, an injection into a finite set of the same size), so all
are idle, no task is anywhere (`FullIsDone`) and nobody is about to add one
(`FullIsQuiet`): the crawler's two reads, of the active workers and of the
queue, may as well be one.

`MbTcp_proof` proves, from `SizesAreGiven` (any strings, any sizes of records
and batches), for a network that loses, repeats and delays anything:

- `AskingMeansLacking`: `Spec => []AskingMeansMissing`.

`AskInv` keeps the kinds of what travels in either direction and in both
queues, whichever call reads it, and that the receiver's count is at least the
number of records that it keeps, each under another number. A batch's numbers
differ, so a count below their number leaves one of them out
(`CountedMeansMissing`). That this one is found and asked for is a fact about
finite sets of integers (`RanksAreTaken`).

For a network that delays and reorders nothing (`PromptBatches`) it proves:

- `PromiseIsKept`: the safety part of `KeepsService`, every step of the
  transfer is a step of `MessageService` or none.

`ServiceInv` lists the phases of the string that is sent (`Initiating`,
`Ready`, `Waiting`, `Gathering`, `Returned`) and says in each what both sides
know and what is on the way between them (`Wire`, `Back`: a channel and the
queue behind it). `SendData` counts a batch as sent when it gives up asking, so
the promise needs that it never does so too early: `Patient` says that the
sender has timed out less often than there were faults, unless what it waits
for is on its way. A string comes out once since a record that arrives is
always one that was lacking: a request for records is made only when nothing
else travels, and what it asks for is sent once (`Travels`). That the records
of a string, joined in the order of their numbers, are the string
(`RecordsReachTheEnd`) is an induction over their number.

`PromptBatches` is what the run `mbtcp_loss` assumes, for any values: each
string fits in one batch, its last record arrives, only initiates and responses
are repeated, no more faults happen than a side has timeouts
(`MaxFaults <= MaxTimeouts`), and a channel has room for a batch and the
repeated initiates. Each of them is needed: in that run's model TLC finds a
string given twice, changed or confirmed without having come out when any one
is dropped. The second batch of a string, for instance, is read from a place
counted in records and used in bytes, a record repeated after the string has
come out is taken for the first of another, and with more faults than timeouts
`SendData` reports success for a string that never came out.

`CrawlCoordinator_proof` proves, from `SiteAssumption` (any site, any number of
threads):

- `TypeCorrectness`, `LinksAreNotForgotten` (`NoLinkForgotten`) and
  `ReturnedIsComplete` (`CrawlIsComplete`).

`IInv` adds that what is queued, or about to be marked so, is known already
(`QueuedIsKnown`: the task is added before the mark), and that a thread with a
response has indexed its resource (`ResponseIsIndexed`). That the unlocked map
loses entries does no harm to completeness: a lost entry only makes a page be
taken twice.

`HttpServer_proof` proves, from `HttpAssumption`, `ConnectionsAssumption` and
`ServerAssumption` (any requests, any number of connections):

- `ConnectionsAreRemovedOnce` (`RemovedOnce`), from `ConnectionsInv`: every
  object made has one handle on its way to the removing thread, and what is
  being removed is not served any more;
- `RequestsAreAnswered`: `AnswersWholeRequests`, if `HeadersAreWhole` (no
  arrival cuts a header in two). `RequestInv` says where in the stream the
  thread is (`OnRequest`): inside the header, at the end of the body, or with a
  known part of it still to come. The hypothesis is that of the run; without it
  the code answers early, which is the hazard at `MrPostOGet.cpp:1453`.

`Website_proof` proves, for any number of threads, requests and uploads:

- `GitAnswersItsRequest` (`BackendSeesItsRequest`), `PacketsStayConsistent`
  (`PacketsAreConsistent`) and `PagesKnowTheFolder` (`FolderIsKnown`).

`SiteInv` is one invariant for the three: a thread between the lock and the
unlock of a mutex is its holder (`Places`), and only a holder has changed what
the mutex protects. For the packets it says what `PacketsAreConsistent` says at
every step, not only when nobody has them: each cut through an incorporation
(`CutShort`) leaves every object in one of the packet's directories
(`CutShortFacts`), a part that is not in doubt has been written by the last
whole incorporation (`Renewed`), and an upload that waits is reported, by the
last report of its packet (`LastIsUpload`), or in doubt. A part in doubt may be
wrong, and the theorem does not say otherwise: it says which parts these are,
and when they are again what they should be. `RequestsAssumption` asks that
"nobody" is no thread, and `PacketsAssumption` that an upload is for one of the
kinds of computer there are.

`TlsRecords_proof` proves, from `RecordsAssumption` (any records, any cutting):

- `RecordsAreGivenInOrder`: `GivenInOrder`;
- `EmptyEndsTheConnection`: `EmptyMeansOver`, if a call of `recv` returns at
  least three bytes while there are as many. With one byte a time it is false,
  as the hazard at `TLSHandler.cpp:2173` says.

`RecordsInv` ties every string the code keeps to the stream: the records split
off or put aside are those after the last one decrypted, in order, and the
bytes kept begin where the last of them ends. `PiecesInv` adds how many bytes
each step has at least; the last piece, which may be shorter, ends with a whole
record.

`TlsHandshake_proof` proves, from `RolesAssumption` (any number of connections,
with any of the three kinds of ends, each of which may break or be given up):

- `SidesAgree` (`Agreement`) and `CachedSessionsAreFinished`
  (`CachedIsFinished`), both from `HandshakeInvariant`.

`HandshakeInv` goes through the phases of the server (`Starts`, `Exchanges`,
`IsDone`, `Resumes`, `HasResumed`, `IsOver`). In each, what a channel holds
besides an alert is the beginning of what the other side has said last, and all
of it unless the connection has broken (`Delivered`); so a side that has read
enough has read exactly that, and computes the keys and the finished message
that the other has computed. A step concerns one connection alone
(`StepsAreLocal`, `OthersAreKept`); what connections share is the cache, where
a session stays what its own server ended with (`CacheOK`), and the session of
a client that offers it, which never changes after its end (`SessionsStay`).
`Content`, which is a channel without its alert, is what most lemmas are about:
what is left of it when a part is read, appended to or cut (`Reading`,
`Writing`, `Cutting`).

`Protocols_proof` proves, about the chat, a download from a peer and the HTTP
client's stream:

- `CursorStaysInInput` (`CursorInInput`), for any characters and any length;
- `FileArrivesInOrder` (`FileArrives`), from `FileAssumption` (any length, any
  size of a chunk): the chunks that are on their way follow each other, and the
  last one ends the file (`FileInv`);
- `TransfersStayAgreed` (`TransfersAgree`), for two chats, any number of lines
  and requests, about a side that never asks before its last request is settled
  (`crossed`): `TransferInv` goes through what one request can have been told by
  each side (`Asks`, `Asked`, `Promised`, `Declined`), and shows that the other
  side's view is as old as what is still on its way;
- `PortsAreAgreed` (`AgreeOnPort`), for any ports in use of which one side's
  are part of the other's, and one call each, over any network. `PortsInv`
  keeps what each side may have said so far (`Said`): besides the first
  suggestion, only the side with fewer ports in use ever names another port
  than the one the two end up on;
- `PeerDataStaysInOrder` (`PeerDataInOrder`), from `PeerAssumption`, for pieces
  of any sizes and any number of peers and messages, until a peer that is given
  up leaves a part of a message (`torn`). `PeerInv` says that what is kept of a
  message, what is received behind it and what is on its way are together the
  units of the peer's next messages (`InOrder`), so that the units a message is
  made of are the first of these (`FirstWholeMessage`); that whatever can come
  as a piece's data is an answer to a request (`Answers`); and that the first
  piece's data are its blocks in their order, whose number of bytes is
  `CurrentOffset` (`FirstPiece`);
- `StreamGivesTheFile` (`ReadsAreTheFile`) and `StreamIsAnswered`
  (`NeverStarved`), from `StreamAssumption`, for files, buffers and blocks of
  any size. `StreamInv` says that what the client has and what is on its way
  are together the beginning of the answer, of which the server keeps the rest
  (`Coming`), and that between two reads nothing is left on either side. It
  says nothing after a read beyond the file's end, whose size is announced as a
  huge number: until the next URL, reads may give anything.

Where the proofs need induction (the length of a stream of requests, the places
of records), it is over a set of numbers: the least number that lacks a
property comes after one that has it (`HasLeast`, `InductionUpTo`,
`SmallestNumber`), from the library's `WFMin`.

Only model-checked: all liveness, that of `KeepsPromise` and `KeepsService`
included (the prover has no fairness argument for it), and the algorithms
(`NumbersAgree`, `TextsAgree`, `WiresAgree`, `SearchesAgree`,
`TlsMessagesAgree`), which are recursive over texts and trees: that is out of
the prover's reach.

## What is not modelled, and why

`PROJECT.json` lists every component with its status.

- *Sockets* are thin wrappers of the system's calls; what they answer is part
  of the models that use them.
- *Mail server:* a sketch. Nothing calls `p_HandleConnection`, `p_VerifyUser`
  asserts false, and every sender is rejected (590).
- *Database:* a wrapper of SQLite and an interpreter of object descriptions,
  sequential and without state between calls; the website's two connections are
  `SiteDatabase`.
- *Unicode, MIME, system, crypto wrappers, demos:* tables, conversions,
  wrappers.

Within the modelled ones: `InStandby` of the pool, which nothing calls; the
walk through the folders of a copied site; the key exchange and encryption of
the chat, which are arithmetic around one transfer each way, its configuration
file and several connections at once; chunked requests, HTTP/2 and the
destructor of the connection handler, which the server never reaches; the
values of TLS' ciphers, of which key and number are kept; the website's
functions that no handler calls (`DBAPI_*` 2019-2352, 2472-2610) and its HTML;
the saving of a torrent's pieces, which reads an emptied vector; the division
of big integers, which gives no quotient for most divisors (856-870), and the
decimal strings that use it; rules in the parser generator, its tables and the
parser it writes, which are never reached; lists of the index written in parts
(the search for a list in an older file, `MBSearchEngine.cpp` 1266-1280, does
not end when the newest one lacks it); the lengths of 257 or 513 bytes that the
client insists on in a certificate's modulus (`TLSHandler.cpp` 487-491), for
which shorter ones stand;
`ConnectToHost`; floating-point numbers. Formatting, logging and the wording of
responses are left out everywhere.

Seven hazards have no property, since the code has the bad outcome and the
models show it: the resend index of `MBChatConnection.cpp` 322 and the cut
header of `MrPostOGet.cpp` 1453, which the runs of the properties they break
exclude; the empty thread object of `MrPostOGet.cpp` 864 (`JoinEmpty`); the flag
that `AssignPieces` sets and notifies without the mutex (`MBBitTorrent.cpp`
393), so that assigned pieces may never be asked for; the open link of
`MBCrawler.cpp` 166 and the endless read of `MBDNSHandler.cpp` 269, which the
models give as outcomes; and the cut chunk header of `MrBoboSockets.cpp` 976.
Others are caught in part, and `PROJECT.json` says of each which part: datagrams
later than a timeout or repeated records (MBTCP), suggestions that cross and
cancelled calls, requests that cross, chunks that arrived although their sending
failed, a torn message of a peer given up, the parts of a packet in doubt, TLS
pieces of less than three bytes, the last document under a negation.
