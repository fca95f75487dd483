------------------------------ MODULE HttpApi ------------------------------
(***************************************************************************)
(* The HTTP interface: requests of any client over any number of           *)
(* connections.  The main thread serves one of them at a time, in any      *)
(* order; the controller behind is present as the SongControl that it is   *)
(* shown to implement.  A connection may break before or after the request *)
(* on it is served, and the player may go down and be started again.       *)
(***************************************************************************)
EXTENDS SongControl, AudioFilesManager

CONSTANTS WavDirs,        \* ways to name the wav directory
          Pages, Others,  \* web pages, and all other clients: curl, the Python tools
          NoOne,
          Absent,         \* a field that the JSON lacks, or has the value undefined
          NotText,        \* a JSON value that is no string
          OtherBodies,    \* what the other clients send
          MaxRequests,    \* bound: requests under way, and answers that name a play
          MaxRuns         \* bound: starts of the player

\* There is no directory without a name.
ASSUME WavDirsAssumption == WavDirs \subseteq Seq(Parts) \ {<<>>}
ASSUME BoundsAssumption == MaxRequests \in Nat /\ MaxRuns \in Nat \ {0}
ASSUME SongsAssumption ==
    /\ {NoSong, Absent, NotText, <<>>} \cap Songs = {} /\ NotText \notin {Absent, <<>>}
    /\ \A wav_dir \in WavDirs : QueryFiles(wav_dir) \subseteq Songs

Requests == 1..MaxRequests

\* The body of a PUT: whether it is JSON, its "file_id", and whether its
\* "start_offset_ms", if there is one, is a number.  An array or a scalar has no
\* fields, just as {}.
Body(file_id) == [json |-> TRUE, file_id |-> file_id, offset |-> TRUE]

Bodies == [json : BOOLEAN, file_id : Songs \cup {<<>>, Absent, NotText},
           offset : BOOLEAN]

ASSUME OtherBodiesAssumption == OtherBodies \subseteq Bodies

\* What a client is told.  A plain text has no uuid, and 0 stands for the number
\* that is left out of the JSON; files are the ids listed, or the song to be played.
Answer(kind, uuid, seq_id, files) ==
    [kind |-> kind, uuid |-> uuid, play_seq_id |-> seq_id, files |-> files]

NoAnswer == Answer("none", 0, 0, {})

Answers == [kind : {"none", "files", "refused", "stopped", "playing", "failed"},
            uuid : 0..MaxRuns, play_seq_id : Nat, files : SUBSET Songs]

\* The answers of the controller, which carry the uuid and a play_seq_id.
OfController(answer) == answer.kind \in {"stopped", "playing", "failed"}

\* A request, what was pressed to send it, how far the server has come with it (never
\* any further, if it is gone), whether the client still waits for it, and its answer.
Request(by, what, body, served, awaited) ==
    [by |-> by, what |-> what, body |-> body, served |-> served, awaited |-> awaited,
     answer |-> NoAnswer]

Unused == Request(NoOne, "none", Body(Absent), "none", FALSE)

VARIABLES wav_dir_,   \* of this run of the player
          uuid_,      \* of this run of the player: the number of its start
          running,    \* the process is there
          request

playerVars == <<controlVars, wav_dir_, uuid_, running>>
httpVars   == <<playerVars, request>>

HttpTypeOK ==
    /\ song \in Songs \cup {NoSong}
    /\ play_seq_id \in Nat
    /\ wav_dir_ \in WavDirs
    /\ uuid_ \in 1..MaxRuns
    /\ running \in BOOLEAN
    /\ request \in [Requests ->
          [by : Pages \cup Others \cup {NoOne},
           what : {"none", "files", "stop", "play", "other"},
           body : Bodies,
           served : {"none", "waiting", "serving", "answered", "gone"},
           awaited : BOOLEAN,
           answer : Answers]]

\* The initial file, if there is one, is the first play of the run.
FirstSong ==
    \/ song' = NoSong /\ play_seq_id' = 0
    \/ song' \in Songs /\ play_seq_id' = 1

HttpInit ==
    /\ \/ ControlInit
       \/ song \in Songs /\ play_seq_id = 1
    /\ wav_dir_ \in WavDirs
    /\ uuid_ = 1
    /\ running = TRUE
    /\ request = [r \in Requests |-> Unused]

-----------------------------------------------------------------------------
(* The clients' side of a connection.                                       *)

NextUnused(r) ==
    /\ request[r].served = "none"
    /\ \A q \in 1..(r - 1) : request[q].served # "none"

\* A request sets out, or finds nobody at the other end.
Sent(by, what, body) ==
    Request(by, what, body, IF running THEN "waiting" ELSE "gone", TRUE)

\* Of a request that is over on both sides only the number it was told is remembered.
Settled(req) ==
    IF req.served \in {"answered", "gone"} /\ ~req.awaited
    THEN [Unused EXCEPT !.served = "answered",
             !.answer = IF OfController(req.answer) THEN req.answer ELSE NoAnswer]
    ELSE req

Become(r, req) == request' = [request EXCEPT ![r] = Settled(req)]

\* Whether another client waits for its answer makes no difference to anybody.
OtherSends(r, by, body) ==
    /\ running
    /\ NextUnused(r)
    /\ Become(r, Request(by, "other", body, "waiting", FALSE))
    /\ UNCHANGED playerVars

\* The client has gone, or its connection: the request may never have come through.
NeverArrives(r) ==
    /\ request[r].served = "waiting" /\ ~request[r].awaited
    /\ Become(r, [request[r] EXCEPT !.served = "gone"])
    /\ UNCHANGED playerVars

-----------------------------------------------------------------------------
(* The server: HttpApi with the files manager and the controller.           *)

\* The main thread is between two handlers, and the request is read.
Arrives(r) ==
    /\ running
    /\ request[r].served = "waiting"
    /\ \A q \in Requests : request[q].served # "serving"

Answered(r, answer) ==
    Become(r, [request[r] EXCEPT !.served = "answered", !.answer = answer])

OnGetAvailableFiles(r) ==
    /\ Arrives(r) /\ request[r].what = "files"
    /\ Answered(r, Answer("files", 0, 0, QueryFiles(wav_dir_)))
    /\ UNCHANGED playerVars

\* The directory cannot be read, or a name in it is no UTF-8: the library catches the
\* exception, sends nothing, and closes the connection in the end.
QueryFilesThrows(r) ==
    /\ Arrives(r) /\ request[r].what = "files"
    /\ Become(r, [request[r] EXCEPT !.served = "gone"])
    /\ UNCHANGED playerVars

\* json::parse or one of the conversions throws.
Invalid(body) == ~body.json \/ body.file_id = NotText \/ ~body.offset

OnPutRefused(r) ==
    /\ Arrives(r) /\ request[r].what # "files"
    /\ Invalid(request[r].body)
    /\ Answered(r, Answer("refused", 0, 0, {}))
    /\ UNCHANGED playerVars

\* The controller is called; it first stops the song, if one is played.
OnPutCurrentSong(r) ==
    /\ Arrives(r) /\ request[r].what # "files"
    /\ ~Invalid(request[r].body)
    /\ Become(r, [request[r] EXCEPT !.served = "serving"])
    /\ UNCHANGED playerVars

\* Faulty variant: the song is not told to stop, its own end is waited for.
WaitsForItsEnd(r) == request[r].served = "serving" /\ song = NoSong

Serving(r) == request[r].served = "serving"

StopSong(r) ==
    /\ Serving(r)
    /\ SongEnds
    /\ UNCHANGED <<wav_dir_, uuid_, running, request>>

\* file_id.empty(): the field is empty or was not there.
NoFileNamed(body) == body.file_id \in {<<>>, Absent}

\* Faulty variant: the song is told to stop, but not waited for.
StoppedAtOnce == TRUE

Stopped == song = NoSong

StopPlayRequest(r) ==
    /\ Serving(r) /\ NoFileNamed(request[r].body)
    /\ Stopped
    /\ Answered(r, Answer("stopped", uuid_, play_seq_id, {}))
    /\ UNCHANGED playerVars

\* Whether a file can be played at all is up to the file and to the device.
NewSongRequest(r, success) ==
    LET file_id == request[r].body.file_id IN
    /\ Serving(r) /\ ~NoFileNamed(request[r].body)
    /\ success => FilesNamed(wav_dir_, file_id) # {}
    /\ NewPlay(file_id, success)
    /\ Answered(r, IF success
                   THEN Answer("playing", uuid_, play_seq_id', {file_id})
                   ELSE Answer("failed", uuid_, play_seq_id', {}))
    /\ UNCHANGED <<wav_dir_, uuid_, running>>

ServerStep(r) ==
    \/ OnGetAvailableFiles(r)
    \/ QueryFilesThrows(r)
    \/ OnPutRefused(r)
    \/ OnPutCurrentSong(r)
    \/ StopSong(r)
    \/ StopPlayRequest(r)
    \/ \E success \in BOOLEAN : NewSongRequest(r, success)

\* The song comes to its end while nobody asks for anything.
SongEndsByItself == SongEnds /\ UNCHANGED <<wav_dir_, uuid_, running, request>>

-----------------------------------------------------------------------------
(* The process.                                                             *)

\* The player ends.  What it has not answered is lost with its connection; an answer
\* may still be on its way.
GoesDown ==
    /\ running
    /\ running' = FALSE
    /\ song' = NoSong
    /\ request' = [r \in Requests |->
          IF request[r].served \in {"waiting", "serving"}
          THEN Settled([request[r] EXCEPT !.served = "gone"]) ELSE request[r]]
    /\ UNCHANGED <<play_seq_id, wav_dir_, uuid_>>

\* Faulty variant: the uuid is a fixed name of the player.
SameUUID == uuid_

CreateUUID == uuid_ + 1

StartsAgain ==
    /\ ~running /\ uuid_ < MaxRuns
    /\ running' = TRUE
    /\ uuid_' = CreateUUID
    /\ wav_dir_' \in WavDirs
    /\ FirstSong
    /\ UNCHANGED request

HttpNext ==
    \/ \E r \in Requests :
          \/ ServerStep(r)
          \/ \E by \in Others, body \in OtherBodies : OtherSends(r, by, body)
          \/ NeverArrives(r)
    \/ SongEndsByItself
    \/ GoesDown
    \/ StartsAgain

-----------------------------------------------------------------------------
(* Properties.                                                              *)

IsPlay(answer) == answer.kind \in {"playing", "failed"}

\* A uuid and a play_seq_id name one play: no two requests for a song are answered
\* with the same pair, whether they succeed or fail, however often the player is
\* started again (HttpApi adds both to every answer, so that a client can match it
\* with the reports of MQTT).
PlaysAreIdentified ==
    \A q, r \in Requests :
        /\ IsPlay(request[q].answer) /\ IsPlay(request[r].answer)
        /\ request[q].answer.uuid = request[r].answer.uuid
        /\ request[q].answer.play_seq_id = request[r].answer.play_seq_id
        => q = r

\* An answer holds until its play_seq_id is outdated: as long as the player that
\* gave it is at that number, nothing is heard but the song it names, and nothing at
\* all after a stop or a failure, whatever other clients ask for, whatever is served
\* late, and whoever still waits for an answer.
AnswerHolds ==
    \A r \in Requests :
        /\ OfController(request[r].answer)
        /\ request[r].answer.uuid = uuid_
        /\ request[r].answer.play_seq_id = play_seq_id
        => song \in request[r].answer.files \cup {NoSong}

=============================================================================
