# wavplayeralsa in TLA+

Models, model-checking runs and machine-checked proofs of
[wavplayeralsa](../src/README.md), a player of wav files for ALSA that is
controlled over HTTP and reports what it plays over MQTT and web sockets.

## 1. The system

One process. The **main thread** runs one `boost::asio::io_service`: HTTP requests,
handlers posted by other threads, timers, the MQTT client and the web socket server
take turns on it. Each play has an `AlsaPlaybackService` with an io_service and a
**playback thread** of its own, which the main thread starts (`Play`) and joins (`Stop`).
Pages of the **web control** run in browsers and talk to the process over HTTP.

| part (source under `src/src`) | state | operations | talks to |
|---|---|---|---|
| `CurrentSongController` (`current_song_controller.cc`) | `play_seq_id_`, `alsa_service_`, `last_status_msg_`, throttle timer | `NewSongRequest`, `StopPlayRequest`, `UpdateLastStatusMsg`, `ReportCurrentSongToServices` | creates, plays, stops and deletes a service; hands messages to MQTT and web sockets |
| `AlsaPlaybackService` (`services/alsa_service.cc`) | the file and its position, the ALSA handle, the start time last reported, the thread and its io_service | constructor (open and configure), `Play`, `Stop`, the thread's `FramesToPcmTransferLoop`, `PcmDrainLoop`, `CheckSongStartTime` | posts messages to the main io_service (`PlayerEventsIfc`) |
| `HttpApi` (`http_api.cc`) | the uuid of this run | `OnPutCurrentSong`, `OnGetAvailableFiles`, `OnWebGet` | calls the controller, waits for its answer |
| `WebSocketsApi` (`web_sockets_api.cc`) | the connections, `last_status_msg_` | `OnOpen`, `OnClose`, `ReportCurrentSong` | sends to each client |
| `MqttApi` (`mqtt_api.cc`) | the client, reconnect timer, `last_status_msg_` | `ReportCurrentSong`, `OnConnAck`, `OnError` | publishes a retained message |
| `ConfigService` (`services/config_service.cc`) | the options | `InitFromCmdArguments` | read once at start-up |
| `AudioFilesManager` (`audio_files_manager.cc`) | the wav directory | `QueryFiles` | lists files for HTTP |
| `WavPlayerAlsa` (`wavplayeralsa.cpp`) | owns the parts | `CreateUUID`, `InitializeComponents`, `Start` | start-up order, initial file |
| web control (`../player-web-control/src`) | the tree of files, `fileToPlay`, `responseText` | load, choose, type, `play`, `stop`, and their answers | HTTP requests to the player |

Outside: the Python tools, which send the same requests, and the vendored libraries
(web sockets, MQTT, HTTP, JSON, options, logging).

### How the parts interact

- A button of a page sends a request of its own and does not wait for the one before. The
  server takes up requests in any order, one at a time. Its answer carries the uuid of this
  run and the `play_seq_id`, by which clients match it with the reports of MQTT.
- An HTTP request runs `NewSongRequest` or `StopPlayRequest` on the main thread. Both
  first call `AlsaPlaybackService::Stop` on the service at hand, which **blocks the main
  thread** until the playback thread has ended, and delete the service.
- A playback thread reports through `PlayerEventsIfc`: `NewSongStatus` and
  `NoSongPlayingStatus` build a message and post `UpdateLastStatusMsg` to the main
  io_service. Nothing else crosses from a playback thread to the main one.
- `UpdateLastStatusMsg` keeps the message and arms a 50 ms throttle timer; when it
  expires, `ReportCurrentSongToServices` hands the message last kept to MQTT and then to
  the web sockets. Messages that come meanwhile replace each other.
- `MqttApi` and `WebSocketsApi` keep the message, too: the one to publish it again after
  a reconnect, the other to greet new clients with it.

### What is hard

- Stop, the end of a song by itself, and the reports of two successive threads interleave;
  the service is deleted while its thread may still be anywhere in its handlers.
- Status messages are queued, conflated and compared in three places; none may be lost
  for good, hidden by an equal one, or overtaken.
- `snd_pcm_writei` may take less than it is given, reads are short at the end, ALSA plays
  on between two calls, and Stop may come at any point. Times and offsets are converted
  between milliseconds and frames with three kinds of rounding.
- Connections of clients and of the broker come and go while messages are sent; an
  exception in any handler of the main io_service ends the process.
- Requests are lost, sent twice by the browser, or served late after their page has gone;
  answers overtake each other; the player is started again while old answers are held.

`PROJECT.json` lists the hazards line by line, with the properties that address them.

### What makes each part correct

| part | properties |
|---|---|
| controller | a thread never outlives its service; every request is answered; statuses are published in order, neighbours in the queue differ, and the last one is always published |
| playback service | every frame of the file goes to ALSA once, in its place; every song ends; start times are not early beyond the roundings; silence once the end was reported |
| web sockets | every open client knows the last message |
| MQTT | a lost connection is always retried; the broker ends up with the last message and never goes back |
| all of these together | nobody is left with the word that a song is played whose thread has ended; the end of every play is heard |
| set-up of ALSA | ALSA takes the bytes for what they are in the file, but for the files of which it is known that it does not |
| configuration | command line before file before default; the port of the broker goes with its host |
| HTTP | a uuid and a `play_seq_id` name one play; an answer of the controller holds until its number is outdated |
| file list | each file has one id in a list, which is never empty and leads back to that file |
| web control | every click comes to an end; a user who waits for answers never sees the player go back |

## 2. The modules

| module | models | checked by |
|---|---|---|
| `StatusMsg` | the status messages and their place in the history of the player (`Rank`) | - |
| `StatusFeed` | abstract: what listeners are promised. Statuses in order, superseded ones may be skipped, the last never | `FeedInOrder`, `FeedKeepsUp` |
| `PlaybackThread` | abstract: what the controller relies on from a service and its thread | `ThreadsAsPromised`, `ThreadAsPromised`, `ThreadEndsAsPromised` |
| `SongControl` | abstract: what those rely on who ask for songs | `SongsAsControlled` |
| `CurrentSongController` | the controller, its requests, posted messages, throttle timer, and the threads of all plays | `controller` |
| `AlsaPlaybackService` | one service from `Play` to the end of its thread, with file and sound card | `alsa_*` |
| `WebSocketsApi` | the clients and what each was given | `ws_*` |
| `MqttApi` | the connection to the broker, the retry timer, the retained message | `mqtt_client` |
| `Services` | `WebSocketsApi` and `MqttApi` side by side, for the two modules below | `player` |
| `Player` | composition: `CurrentSongController` with `Services` | `player` |
| `StatusListeners` | abstract: `StatusFeed` with `Services`, which is what a listener can see of the player | `ListenersAsComposed` |
| `AudioFilesManager` | file ids as parts of paths | `web_control` |
| `HttpApi` | composition: requests of all clients, with `SongControl` and `AudioFilesManager` behind the server; the process and its restarts | `web_control` |
| `WebControl` | composition: pages in browsers with `HttpApi` | `web_control` |
| `AlsaSetup` | the constructor: what libsndfile says, what ALSA is told | `setup_*` |
| `ConfigService` | the merge of the options | `config_safety` |
| `*_proofs` | proofs about the module of that name; those about `CurrentSongController` are in `Player_proofs`, those about `AudioFilesManager` in `WebControl_proofs` | TLAPS |

`MC*` modules give the constants of the TLC instances their values.

The abstract modules cut the system in four. `AlsaPlaybackService` implements
`PlaybackThread`; `CurrentSongController` moves its threads only as `PlaybackThread`
allows, and implements both `StatusFeed` and `SongControl`; `HttpApi` composes the clients
with `SongControl`, and `StatusListeners` the services with `StatusFeed`, in place of the
controller. So each run stays small, and together they lead from a click to a frame of
the file, and from there to what a listener is told. That `StatusFeed` may stand for the
controller is shown twice: `FeedInOrder` of the controller alone, and `ListenersAsComposed`
of `Player`, where the controller itself works with the same two services. What
`StatusListeners` promises is proved of it once, and holds of `Player` by that refinement.

### State and actions against the code

**CurrentSongController.** Variables with a trailing underscore are the members of that
name. A service is named by its `play_seq_id`, so that the members of all services are
functions of `Plays`; `alsa_service_ = 0` is the null pointer. `main` is where the main
thread stands inside a request: `Stop` is cut at the points where the playback thread can
tell the difference (reading `ios_.stopped()`, stopping the io_service, joining). A
posted handler is the message it carries (`posted`). The handlers of a playback thread
are atomic here: they touch nothing that the main thread reads, except through the
posts. `LoadFails`, `LoadFailsAfterOpen` and `LoadAndPlay` are the ways
`NewSongRequest` can end; the second leaves the ALSA handle open. `Start` is the start-up
with an initial file, whose failure ends the process.

**AlsaPlaybackService.** `FramesToPcmTransferLoop` is cut where ALSA or the clock may move
on: filling the buffer (`PrepareChunk`, `EndOfFile`), `snd_pcm_writei` (`WriteI`),
`snd_pcm_delay` (`QueryDelay`), `gettimeofday` (`ReadClock`). The part of a read that
came back short is `Leftover`, what the uninitialised buffer held. The clock of the model
ticks once per frame; whatever the code holds in milliseconds is computed from it with
`FrameRate`, by the division of C++, which cuts toward zero (`Cut`). The offset goes
through a double, which may come out just below a whole number of frames (9 ms at 48 kHz
are cut to 431): `FramesOf` allows both results. Waiting 5 ms for room in the ring is not
an action: the handler is simply not enabled until there is room. A short read is
modelled at the end of the file only, and a file that cannot be read is not modelled.

**WebSocketsApi.** The library's view of a session (`session`) runs ahead of
`connections_`: between a close frame and the close handler, `send` throws.
`thrown` stands for an exception that leaves `io_service::run`; nothing happens after it.

**MqttApi.** `link` is the state of the client and of the network together. A publish
without a connection sends nothing; a publish to a connection that is lost already
may seem to succeed. Every attempt to connect resolves the host again, which may throw
(`ResolveThrows`), also while the read of the lost connection is still pending. What the
library does is translated from the vendored `mqtt_cpp`; the network and the broker are
assumptions. The broker takes messages in order. QoS 2 handshakes are left out:
the session is clean, so nothing but the last message is ever sent again.

**Player.** Every handler of the main io_service is an action that needs the main thread to
be idle: requests, posted messages, the throttle timer, clients of the web sockets
(`ClientStep`) and what comes from the broker (`MqttHandler`). While a request waits in
`Stop`, only playback threads, the network and the broker move. `Report` is the whole
handler of the timer: the message goes to MQTT and then to the web sockets, and either may
throw, which ends the process (`Running`). `MqttInitialize` is taken during the start-up,
if the player is configured with MQTT. The members of the same name in the
controller and the services (`last_status_msg_`) are told apart by `ws_` and `mqtt_`.

**AudioFilesManager.** A path is the sequence of its names and slashes. `Entry` is the path
that the directory iterator yields, `CutWavDir` the `substr` behind the length of
`wav_dir`, `FilesNamed` what `canonical` finds when a play puts the id behind the
directory again. A canonical path is reduced to its names, each with its place among them
(`Canonical`), since that is all by which two of them differ. Both ways to name the
directory, with and without a slash at its end, are instances; links and dots in paths are
left out.

**HttpApi.** A request is a record: who sent it, its body, how far the server has come with
it (`served`), whether its client still waits (`awaited`), and the answer. A body is
reduced to what `OnPutCurrentSong` tells apart: no JSON, a `file_id` that is absent, empty,
no string or a name, an offset that is no number. Serving is two or more actions: the
request is taken up, the song at hand is stopped, and the answer is given; no other
request is taken up meanwhile. An exception in `QueryFiles` is caught by the library,
which sends nothing and closes the connection. `NeverArrives` is a request whose client or
connection has gone; until then it may be served, with nobody waiting. `GoesDown` is the
end of the process, for whatever reason; `StartsAgain` runs `main` anew, with another
uuid, numbers from 0, and perhaps an initial file. A request that is over is reduced to
the number that it was told (`Settled`).

**WebControl.** A page is the fields of `AppComponent`. Loading it bootstraps a new
component, aborts what the old one waited for, and asks for the files. `Show` is both
subscribers of a button, with the answer or with the event that the browser makes of a
lost connection, at any time; `SentAgain` is the browser that sends a request again on a
new connection. `patient` is a history variable: no button was pressed while another
one waited.

**AlsaSetup** and **ConfigService** are small and sequential. A file is what its header
says; the two tables of the code are the two tables of the model. A configuration file is
a sequence of lines; empty lines and comments are left out.

## 3. The runs

| run | shows | instance |
|---|---|---|
| `controller` | requests, threads, posts and timer in every order: threads stay within their service, requests are answered, statuses are in order, ends are published; `StatusFeed` and `SongControl` are implemented; the inductive invariant holds | 3 plays, the first of them the initial file; start times within and beyond the jitter; 146 117 states |
| `alsa_thread` | frames complete and in order, every song ends, start times not early, the promise to the controller | 7 frames at 1500 a second; buffers of 3 and 5; starts before, at, in and behind the file; 86 602 states |
| `alsa_short_read` | finding 1 | the same |
| `alsa_short_song` | finding 2 | the same |
| `ws_safety` | open clients are up to date; only leaving ones refuse | 4 clients, 3 messages, symmetric |
| `ws_leaving_client` | finding 3 | 3 clients, 2 messages |
| `mqtt_client` | the retry is never forgotten, nothing overtakes the last message, the broker catches up | 3 messages, 3 failures |
| `player` | all of these together: listeners cannot tell the controller from its feed and never see it go back; the end of every play is heard; nobody is left with the word of a song that is over | 2 plays, 1 client, 1 failure; 345 431 states |
| `web_control` | clicks come to an end, answers name one play and hold, patience is rewarded, each node of the tree is a file | 1 page, 1 other client, 3 requests, 2 runs of the player; 406 390 states |
| `setup_safety` | the tables agree with each other; which files are given to ALSA as what they are not | all sample types, 2 containers and an unknown one |
| `setup_24_bit` | finding 4 | the same |
| `config_safety` | precedence; the rule of the port | 4 options, up to 2 lines; 93 312 states |

### Bounds

- `MaxPlays`: a play only meets its predecessor (which is joined before it starts) and the
  messages that predecessor left; three plays show every such pair twice over.
- `MaxBacklog`, `MaxInFlight`: messages that wait. Conflation and order compare
  neighbours and the last. The bounds stop only further reports, never the end of
  a play: with `MaxBacklog` 1 the end of one play, the report of the next and the message
  that the timer is set for still meet.
- `MaxClock` stops the clock of a device that does not play; one that plays is bounded by
  the frames it was given.
- `Total`, `Capacity`, `BufferSize`: chosen so that neither buffer divides the file or the
  other, that the file does not fit in the ring, and that the last read is short.
  `FrameRate`: 1500, so that neither a frame nor a millisecond is a whole number of the
  other, and every rounding happens.
- `player` has one client, one failure and `MaxInFlight` 1: what clients share is in
  `connections_`, which `ws_safety` has four of, and its proofs cover any number. That two
  different messages are on their way to the broker at once is left to `mqtt_client` and to
  the proofs, which cover any number of them. Two plays
  are the one that ends and the one whose request, report or end comes between.
- `MaxFailures`: a failure takes the model back to a state it was in before but for
  messages and timer; the second failure may meet the timer of the first.
- Clients of the web sockets: one that leaves, one that stays, one that comes; a fourth
  checks that no property depends on there being three.
- `MaxRequests`, `MaxRuns`: requests under way, and answers that are remembered. Every
  property of `web_control` speaks of two answers at most; the third request is the one
  that comes between. Two runs are the one of an old answer and the one of a new answer.
  One page and one other client suffice, since pages share nothing but the player, to
  which a second page is another client; the proofs cover any number.
- Bodies of other clients: one that is refused, and one with an id that only the directory
  written with a slash at its end lists, while the other naming finds the file as well.

### Fairness

- Weak fairness of each thread and of the steps inside a request: the operating system
  runs every thread.
- **Strong** fairness of posted handlers and of the expired timer: requests could keep the
  main thread busy again and again, but its io_service serves handlers in FIFO order.
- Weak fairness of `Tick`: a device that plays goes on playing. A device that fails is
  covered by an action of its own, without fairness.
- In `mqtt_client`, weak fairness of `LinkStep`: the network answers, and the system reports a lost
  connection. The client sets no keep-alive, so a broker that vanishes without a reset is
  noticed at the next write at the earliest; such a half-open connection is not modelled
  as lasting for ever. `Breaks`, clients and requests have no fairness. A player
  that is configured without MQTT is the case in which `link` stays `"none"`; its
  safety is covered, its liveness is that of the web sockets alone.
- In `player`, **strong** fairness of `MqttHandler`: its handlers wait in the same FIFO as
  those of the controller and get their turn between two requests. The broker takes
  messages by itself (weak fairness of `BrokerTakes`). Clients, their sessions and
  `LinkBreaks` have none, nor has `MqttInitialize`: with the last left out, the run is that
  of a player without MQTT.
- In `web_control`, weak fairness of the server's steps as a whole (the main thread comes
  back from each request, which `RequestsAreAnswered` shows of the controller) and of
  telling a page what has become of its requests. Users, other clients, the loss of
  connections and the end of the process have none.

## 4. What is proved

For any files, start times, buffers, clients, pages, messages and bounds, in the modules
`*_proofs`:

| theorem | property |
|---|---|
| **`Player_proofs`**, of the controller | |
| `Invariant`, `TypeCorrect` | the inductive invariant, the types |
| `ThreadsHaveTheirService` | no thread outlives its service, at most one plays |
| `ThrottlingForgetsNothing` | what is not published has its timer |
| `NoRepeatedStatus` | neighbours in the queue differ, and its first one from the message kept |
| `StopWithoutEffect` | "stop had no effect" never cuts a song short |
| `HistoryIsMonotonic` | statuses never go back |
| `ControllerImplementsFeed` | the controller refines `StatusFeed` (safety) |
| `ControllerImplementsSongControl` | the controller refines `SongControl` |
| `ThreadsMoveAsPromised` | the controller moves its threads as `PlaybackThread` allows |
| **`Player_proofs`**, of the player | |
| `PlayerRunsController`, `PlayerRunsServices` | in the player, the controller and the services behave as their modules say, so that all that is proved of them holds there |
| `PlayerImplementsListeners` | the player implements `StatusListeners` (safety) |
| `PlayerNeverGoesBack` | no client and no broker of the player sees it go back |
| `NobodyIsLeftWithAGhost` | once nothing is on its way, no listener believes in a song whose thread has ended |
| **`AlsaPlaybackService_proofs`** | |
| `TypeCorrect`, `FileKeepsUp` | types; the file is where the next frame is |
| `EveryFrameInItsPlace` | silence, then each frame once and in order |
| `SongIsHeardToItsEnd`, `SilenceIsTrue` | a song that ends by itself was heard; its end is silent |
| `NeverTwoMillisecondsEarly` | start times are early by less than 2 ms, at every frame rate |
| `ServiceImplementsPlaybackThread` | the service refines `PlaybackThread` (safety) |
| **`WebControl_proofs`** | |
| `Invariance`, `PairsNameOnePlay` | the inductive invariant; a uuid and a number name one play |
| `AnswersHoldUntilOutdated` | nothing is heard but what the answer at the present number says |
| `PatienceIsRewarded` | a patient user never sees the player go back |
| `IdNamesItsFile` | an id names the file it was listed for, and no other one |
| `TreesShowFiles` | each node of a tree is one file, and each file has a node |
| **`StatusListeners_proofs`** | |
| `NobodySeesPlayerGoBack` | the order in which each listener is told, by any feed |
| **`WebSocketsApi_proofs`**, **`MqttApi_proofs`** | |
| `ClientsAreUpToDate`, `RefusalsAreOfLeavingClients` | web sockets |
| `TypeCorrect`, `LostConnectionsAreRetried`, `NothingOvertakesLastMessage` | MQTT |
| **`AlsaSetup_proofs`**, **`ConfigService_proofs`** | |
| `AcceptedAlwaysHasFormat` | there is a format for every sample type that is accepted; whether the device takes it is another matter |
| `OthersKeepTheirMeaning` | exactly the files packed in 24 bits come out in the wrong width, exactly those in the other byte order than their container's in the wrong order, and none in the wrong kind |
| `CommandLineComesFirst` | precedence of all options but the port of the broker, for files of any length |
| `HostAndPortBelongTogether` | the port of the file is never used for a host of the command line, nor the other way round |

**The controller.** None of the properties is inductive alone. That statuses never go
back needs to know what a live thread may still post, hence `NewestInv`: nothing
posted so far is later than what a live thread, which is the one of the service at hand,
may post. That in turn rests on `ThreadHasItsService` (only one thread is alive) and on
`RequestInv` (where the main thread holds which service): a new play starts only after the
old thread was joined, so everything the old one posted is already in the queue. That
messages differ needs the start time last remembered by the service to be the one in the
newest message. `IInv` is the conjunction; one step of the proof per action, one under it
per conjunct that the action can disturb.

**The feed and the control of songs.** The mapping to `StatusFeed` takes the message that
waits for the throttle timer, followed by the queue, for `pending`. A post is `Advance`, the
expiry of the timer is `Publish`, and a new message kept over one that waits is `Skip`; every
other step leaves both variables alone. A message that waits may be the one published last:
when a start time changes and changes back within the throttle time, listeners are told the
same again. The mapping to `SongControl` takes
for the song the file of the thread that is in a handler, or may still get there. That the
controller moves its threads as `PlaybackThread` allows needs one more fact, `EndedInv`: a
thread is over only once its io_service is stopped.

**The player.** Each step of the player is a step of the controller or leaves it alone, and
the same of the services, which are handed nothing but statuses (`IInv`); so the
theorems of all three are cited, not proved again. That the player implements
`StatusListeners` adds the mapping above to what the services do in the same step; the bound
that `StatusListeners` puts on messages that wait has to be met, which is `BacklogInv`:
beyond the reports, the end of each play waits at most once. `NoGhostSong` follows a message
along its whole way: the newest one speaks of a song only as long as its thread has not
posted the end (`NewestIsTrue`); with no timer set and the queue empty it is the one
published; MQTT and the web sockets keep what was published (`PublishedIsKept`); and what
they keep is what open clients and the broker have (`ClientsAreUpToDate`,
`NothingOvertakesLastMessage`).

**The playback service.** `FramesInOrder` says nothing of the frames that wait between the
read and the write, and the write moves the file back only in some cases: `ChunkInv` says
what the chunk holds and where the cursor stands behind it, `RoomInv` that no more is
written than ALSA has room for, `DeviceInv` and `HandlerInv` which states of ALSA and of
the thread meet. `TimeInv` relates the clock, the frames heard and the delay: when the
delay was read, `now - position + delay` was the true start, and it only grows until the
clock is read. What is left are the roundings of the two conversions, each below a
millisecond (`StartTimeRounding`).

**The pages.** `AnswersInv` says that no answer is of a play to come, and that the buttons
of a page are answered by the controller, since a page sends no body that is refused.
`PagesInv` says the same of what a page shows, and that a patient page waits for one button
at most, whose answer, once given, is not before the one shown. A restart keeps both because
the uuid grows; that the uuid of a new run was never used before is the model's reading of
a random one. The two numbers of an answer are unique because every attempt takes a
number, also one that fails.

**The listeners.** Statuses that wait are sorted by their place in the history and not
before the one published; what either service keeps, what a client was given and what is on
its way to the broker form a chain that ends with it. A connection that breaks cuts the chain
at any place, and the next one starts from the message kept.

**Web sockets and MQTT.** For web sockets the invariant adds that open clients are in
`connections_` and that whoever is in it is open or leaving. For MQTT the two properties
with `TypeOK` are inductive; the lemma `Publishing` says once what a publish does.

**File ids and trees.** A concatenation, cut behind its first part, is its second part, so
an id is the relative path, with or without a slash in front (`IdOfFile`). The canonical
path of a concatenation is that of its first part with that of its second part moved
behind it (`CanonicalOfConcat`): a slash more or less makes no difference
(`SlashesAreNoNames`), and two files below the same directory differ in a name
(`CanonicalNamesFile`), because names and slashes take turns in the path of a file. That
trees show nothing else is a second inductive invariant, `TreesInv`: a tree is empty or the
list under some name of the directory, as are the answers that trees wait for.

**Configuration.** While the configuration file is read, an option has the value of the last
line so far that names it (`MergedSoFar`).

Assumptions are the ones the modules declare on their constants: natural numbers for
bounds, positive buffers, rates and start times, and special values that are no messages,
files or answers; the relative path of a file is names with one slash between any two
of them (`FilesAssumption`), as the directory iterator of boost builds it.

Only liveness is only model-checked (`RequestsAreAnswered`, `EndIsPublished`,
`FeedKeepsUp`, `EndIsHeard`, `EverySongEnds`, `ThreadEndsAsPromised`, `BrokerCatchesUp`,
`ClicksAreAnswered`): fairness speaks of ENABLED, which is out of the
prover's reach.

## 5. Findings

1. **Leftovers are played** (`alsa_short_read`). After a short read,
   `frames_to_deliver` is not reduced: ALSA gets the rest of an uninitialised buffer
   behind the last frame, unless the last read happens to be a full one
   (`alsa_service.cc:483-500`).
2. **Short songs are not announced** (`alsa_short_song`). With fewer than 4096 frames
   in ALSA no start time is computed, and without it no message is sent
   (`alsa_service.cc:556`).
3. **A client that leaves ends the player** (`ws_leaving_client`). `server_.send` throws for
   a session that is closing, out of the timer handler and of `io_service::run`
   (`web_sockets_api.cc:49`).
4. **24 bit files** (`setup_24_bit`). Packed samples of three bytes are announced to
   ALSA in a format of four; it also reads behind the end of the buffer
   (`alsa_service.cc:342,350`).

Two more places where a comment says otherwise have no run of their own:

- the byte order is taken from the container (`alsa_service.cc:187-198`), so the samples
  of RIFX and little endian AIFF-C files are swapped, while `alsa_frames_transfer.h:54-60`
  says that it is read from the header; `MisreadFilesAreKnown` says exactly which files
  that concerns;
- an id begins with a slash when `wav_dir` has none at its end, and both forms are accepted
  and name the same file (`audio_files_manager.cc:22`, `current_song_controller.cc:82-91`),
  while `alsa_frames_transfer.h:82-85` asks for canonical ids, "so that each file is always
  identify uniquely". `EveryNodeIsAFile` speaks of the ids that are listed: in one list they
  differ, and each leads back to its file.

Seen while modelling, where nothing in the repository says otherwise:

- a client that connects before the first report is sent an empty text
  (`web_sockets_api.cc:60`);
- `--mqtt_port` is ignored unless `--mqtt_host` is on the command line as well
  (`config_service.cc:69-73`; `Precedence` leaves it out);
- the ALSA handle stays open when `InitAlsa` throws (`alsa_service.cc:244`);
- Play with nothing chosen stops the song, as a body without `file_id` is the request to
  stop (`player.service.ts:37`, `http_api.cc:125`);
- answers that overtake each other show an outdated state to a user who does not wait for
  them (`app.component.ts:35`; `PatientUserSeesOrder` speaks of users who wait);
- a status that is changed and changed back within the throttle time is published twice
  (`current_song_controller.cc:173`);
- the page shows `[object ProgressEvent]` when its connection is lost
  (`player.service.ts:29,39`), and nothing when the list of files fails
  (`app.component.ts:12`);
- the offset of a song may come out one frame short (`alsa_service.cc:407`).

## 6. Not modelled

- Wording of answers and logs, HTTP headers, the speed (always 1.0), lay-out and styles.
- `HttpApi::OnWebGet`, which sends the static files of the page: it reads files and
  changes no state of the player.
- Which node of the tree is marked as active: state of the tree component, a package.
- The exhaustion of MQTT packet ids, QoS handshakes, a write that blocks the main thread.
- Links, dots and case in paths; files that appear or vanish while the player runs.
- `polyfills.ts`, `karma.conf.js`, `test.ts`, the environments and the routing table (which
  has no routes) of the web control: configuration of its build and its tests.
- The loggers that `main` sets up; the Python mock of the player; the vendored libraries,
  except for what the models need of them.

## 7. Plan

Done: the core (controller, feed, playback thread), the playback service with its
conversions, both services that report, their composition with the abstract feed and with the controller
itself, set-up, configuration, the
HTTP interface with the file list and restarts, the web control; proofs of all safety
properties that the passing runs check.

Left, should the code grow in these directions:

1. `OnWebGet`: several downloads share one static buffer, which is safe as long as the
   library copies what is written at once and the server has one thread.
2. Files that change while the player runs, between the list and the play.
3. A second page in `web_control`: the proofs cover it, the liveness check does not.
