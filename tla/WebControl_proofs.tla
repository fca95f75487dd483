-------------------------- MODULE WebControl_proofs --------------------------
(***************************************************************************)
(* Proofs about WebControl, for any files, pages, other clients and bodies,*)
(* and for any bounds on requests and on starts of the player; at the end  *)
(* those about the file ids of AudioFilesManager.                          *)
(***************************************************************************)
EXTENDS WebControl, SequenceTheorems, FiniteSetTheorems, TLAPS

RequestRecords ==
    [by : Pages \cup Others \cup {NoOne},
     what : {"none", "files", "stop", "play", "other"},
     body : Bodies,
     served : {"none", "waiting", "serving", "answered", "gone"},
     awaited : BOOLEAN,
     answer : Answers]

\* What PagesInv says of one page.
PageInv(p) ==
    /\ page[p].responseText \in Answers =>
          /\ OfController(page[p].responseText)
          /\ NotAfter(page[p].responseText, Now)
    /\ page[p].patient =>
          /\ \A q, r \in Buttons(p) : q = r
          /\ \A r \in Buttons(p) :
                /\ request[r].served = "answered"
                /\ page[p].responseText \in Answers
                => NotAfter(page[p].responseText, request[r].answer)

-----------------------------------------------------------------------------
(* Records.                                                                 *)

LEMMA NoAnswerType == NoAnswer \in Answers /\ ~OfController(NoAnswer)
BY BoundsAssumption DEF NoAnswer, Answer, Answers, OfController

LEMMA BodyType ==
    ASSUME NEW file_id \in Songs \cup {<<>>, Absent}
    PROVE  Body(file_id) \in Bodies /\ ~Invalid(Body(file_id))
<1>1. file_id # NotText
    BY SongsAssumption, Zenon
<1> QED BY <1>1 DEF Body, Bodies, Invalid

\* A request that a page sends.
LEMMA SentType ==
    ASSUME TypeOK, NEW by \in Pages, NEW what \in {"files", "stop", "play"},
           NEW body \in Bodies
    PROVE  LET req == Sent(by, what, body) IN
           /\ req \in RequestRecords
           /\ req.by = by /\ req.what = what /\ req.body = body /\ req.awaited
           /\ req.served \in {"waiting", "gone"}
           /\ ~OfController(req.answer)
BY NoAnswerType DEF Sent, Request, RequestRecords

\* A request that is over is remembered without its client, and with its answer only
\* if that names a play.
LEMMA SettledType ==
    ASSUME NEW req \in RequestRecords
    PROVE  LET settled == Settled(req) IN
           /\ settled \in RequestRecords
           /\ settled.awaited <=> req.awaited
           /\ settled.served = "serving" <=> req.served = "serving"
           /\ req.awaited => settled = req
           /\ settled.served = "serving" => settled = req
           /\ OfController(settled.answer) => settled.answer = req.answer
<1> DEFINE settled == Settled(req)
<1>1. CASE req.served \in {"answered", "gone"} /\ ~req.awaited
    <2> DEFINE answer == IF OfController(req.answer) THEN req.answer ELSE NoAnswer
    <2>1. settled = [Unused EXCEPT !.served = "answered", !.answer = answer]
        BY <1>1 DEF Settled
    <2>2. answer \in Answers /\ (OfController(answer) => answer = req.answer)
        BY NoAnswerType DEF RequestRecords
    <2>3. Unused \in RequestRecords /\ Unused.awaited = FALSE
        BY NoAnswerType DEF Unused, Request, RequestRecords, Body, Bodies
    <2> HIDE DEF answer
    <2>4. settled \in RequestRecords /\ settled.awaited = FALSE
          /\ settled.served = "answered" /\ settled.answer = answer
        BY <2>1, <2>2, <2>3 DEF RequestRecords
    <2> QED BY <1>1, <2>2, <2>4
<1>2. CASE ~(req.served \in {"answered", "gone"} /\ ~req.awaited)
    <2>1. settled = req
        BY <1>2, Zenon DEF Settled
    <2> QED BY <2>1
<1> QED BY <1>1, <1>2

LEMMA ClosedType ==
    ASSUME NEW req \in RequestRecords
    PROVE  LET closed == Closed(req) IN
           /\ closed \in RequestRecords
           /\ ~closed.awaited
           /\ closed.served = "serving" => req.served = "serving" /\ closed.body = req.body
           /\ OfController(closed.answer) => closed.answer = req.answer
<1> DEFINE left == [req EXCEPT !.awaited = FALSE]
<1>1. /\ left \in RequestRecords /\ left.awaited = FALSE
      /\ left.served = req.served /\ left.body = req.body /\ left.answer = req.answer
    BY DEF RequestRecords
<1> HIDE DEF left
<1>2. Closed(req) = Settled(left)
    BY DEF left, Closed
<1> QED BY <1>1, <1>2, SettledType

-----------------------------------------------------------------------------
(* What a step may do to the player and to the requests.                    *)

\* The player has come further, or it is where it was and no other song is heard.
PlayerMovesOn ==
    /\ uuid_ < uuid_' \/ (uuid_ = uuid_' /\ play_seq_id <= play_seq_id')
    /\ uuid_' = uuid_ /\ play_seq_id' = play_seq_id => song' \in {song, NoSong}

AnsweredNow(r) ==
    /\ OfController(request'[r].answer)
    /\ request'[r].answer.uuid = uuid_' /\ request'[r].answer.play_seq_id = play_seq_id'

KeepsItsAnswer(r) ==
    OfController(request'[r].answer) => request'[r].answer = request[r].answer

RequestsMoveOn ==
    \A r \in Requests :
        /\ KeepsItsAnswer(r) \/ AnsweredNow(r)
        /\ request'[r].served = "serving" => ~Invalid(request'[r].body)
        /\ request'[r].awaited =>
              request'[r].by \in Pages /\ ~Invalid(request'[r].body)
        /\ request'[r].awaited /\ request'[r].served = "answered"
           /\ request'[r].what # "files"
              => request'[r] = request[r] \/ AnsweredNow(r)

LEMMA AnswersMoveOn ==
    ASSUME IInv, TypeOK', PlayerMovesOn, RequestsMoveOn
    PROVE  AnswersInv'
<1> SUFFICES ASSUME NEW r \in Requests
             PROVE  /\ OfController(request'[r].answer) => NotAfter(request[r].answer, Now)'
                    /\ request'[r].served = "serving" => ~Invalid(request'[r].body)
                    /\ request'[r].awaited =>
                          /\ request'[r].by \in Pages
                          /\ ~Invalid(request'[r].body)
                          /\ request'[r].served = "answered"
                             /\ request'[r].what # "files"
                                => OfController(request'[r].answer)
    BY DEF AnswersInv
<1>1. /\ uuid_ \in Int /\ uuid_' \in Int /\ play_seq_id \in Int /\ play_seq_id' \in Int
      /\ request[r].answer \in Answers /\ request'[r].answer \in Answers
    BY BoundsAssumption DEF IInv, TypeOK, HttpTypeOK
<1>2. ASSUME OfController(request'[r].answer) PROVE NotAfter(request[r].answer, Now)'
    <2>1. CASE AnsweredNow(r)
        BY <1>1, <2>1 DEF AnsweredNow, NotAfter, Now
    <2>2. CASE KeepsItsAnswer(r)
        <3>1. request'[r].answer = request[r].answer
            BY <1>2, <2>2 DEF KeepsItsAnswer
        <3>2. NotAfter(request[r].answer, Now)
            BY <1>2, <3>1 DEF IInv, AnswersInv
        <3>3. request[r].answer.uuid \in Int /\ request[r].answer.play_seq_id \in Int
            BY <1>1, BoundsAssumption DEF Answers
        <3> QED BY <1>1, <3>1, <3>2, <3>3 DEF NotAfter, Now, PlayerMovesOn
    <2> QED BY <2>1, <2>2 DEF RequestsMoveOn
<1>3. ASSUME request'[r].awaited, request'[r].served = "answered",
             request'[r].what # "files"
      PROVE  OfController(request'[r].answer)
    BY <1>3 DEF RequestsMoveOn, AnsweredNow, IInv, AnswersInv
<1> QED BY <1>2, <1>3 DEF RequestsMoveOn

LEMMA OldAnswersHold ==
    ASSUME IInv, TypeOK', PlayerMovesOn, \A r \in Requests : KeepsItsAnswer(r)
    PROVE  PlaysAreIdentified' /\ AnswerHolds'
<1>1. PlaysAreIdentified'
    <2> SUFFICES ASSUME NEW q \in Requests, NEW r \in Requests,
                        IsPlay(request'[q].answer), IsPlay(request'[r].answer),
                        request'[q].answer.uuid = request'[r].answer.uuid,
                        request'[q].answer.play_seq_id = request'[r].answer.play_seq_id
                 PROVE  q = r
        BY DEF PlaysAreIdentified
    <2>1. request'[q].answer = request[q].answer /\ request'[r].answer = request[r].answer
        BY DEF KeepsItsAnswer, OfController, IsPlay
    <2> QED BY <2>1 DEF IInv, PlaysAreIdentified
<1>2. AnswerHolds'
    <2> SUFFICES ASSUME NEW r \in Requests, OfController(request'[r].answer),
                        request'[r].answer.uuid = uuid_',
                        request'[r].answer.play_seq_id = play_seq_id'
                 PROVE  song' \in request'[r].answer.files \cup {NoSong}
        BY DEF AnswerHolds
    <2>1. request'[r].answer = request[r].answer
        BY DEF KeepsItsAnswer
    <2>2. NotAfter(request[r].answer, Now)
        BY <2>1 DEF IInv, AnswersInv
    <2>3. /\ uuid_ \in Int /\ uuid_' \in Int /\ play_seq_id \in Int /\ play_seq_id' \in Int
        BY BoundsAssumption DEF IInv, TypeOK, HttpTypeOK
    <2>4. uuid_ = uuid_' /\ play_seq_id = play_seq_id'
        BY <2>1, <2>2, <2>3 DEF NotAfter, Now, PlayerMovesOn
    <2>5. song \in request[r].answer.files \cup {NoSong}
        BY <2>1, <2>4 DEF IInv, AnswerHolds
    <2> QED BY <2>1, <2>4, <2>5 DEF PlayerMovesOn
<1> QED BY <1>1, <1>2

\* What a page shows does not become an answer of a play to come.
LEMMA UpToDate ==
    ASSUME IInv, TypeOK', PlayerMovesOn, NEW p \in Pages,
           page[p].responseText \in Answers
    PROVE  LET text == page[p].responseText IN
           /\ OfController(text)
           /\ \/ text.uuid < uuid_'
              \/ text.uuid = uuid_' /\ text.play_seq_id <= play_seq_id'
<1> DEFINE text == page[p].responseText
<1>1. OfController(text) /\ NotAfter(text, Now)
    BY DEF IInv, PagesInv
<1>2. text.uuid \in Int /\ text.play_seq_id \in Int
    BY BoundsAssumption DEF Answers
<1>3. /\ uuid_ \in Int /\ uuid_' \in Int /\ play_seq_id \in Int /\ play_seq_id' \in Int
    BY BoundsAssumption DEF IInv, TypeOK, HttpTypeOK
<1> QED BY <1>1, <1>2, <1>3 DEF NotAfter, Now, PlayerMovesOn

LEMMA PageStays ==
    ASSUME IInv, TypeOK', PlayerMovesOn, RequestsMoveOn, NEW p \in Pages,
           page'[p].responseText = page[p].responseText,
           page'[p].patient => page[p].patient,
           Buttons(p)' \subseteq Buttons(p)
    PROVE  PageInv(p)'
<1> DEFINE text == page[p].responseText
<1>1. PageInv(p)
    BY DEF IInv, PagesInv, PageInv
<1>2. ASSUME text \in Answers
      PROVE  /\ OfController(text)
             /\ text.uuid < uuid_'
                \/ (text.uuid = uuid_' /\ text.play_seq_id <= play_seq_id')
    BY <1>2, UpToDate
<1>3. ASSUME page'[p].patient
      PROVE  /\ \A q, r \in Buttons(p)' : q = r
             /\ \A r \in Buttons(p)' :
                   request'[r].served = "answered" /\ text \in Answers
                   => NotAfter(page[p].responseText, request[r].answer)'
    <2>1. \A q, r \in Buttons(p)' : q = r
        BY <1>1, <1>3 DEF PageInv
    <2>2. ASSUME NEW r \in Buttons(p)', request'[r].served = "answered", text \in Answers
          PROVE  NotAfter(page[p].responseText, request[r].answer)'
        <3>1. request'[r].awaited /\ request'[r].what # "files" /\ r \in Requests
            BY <2>2 DEF Buttons, Waiting
        <3>2. CASE request'[r] = request[r]
            BY <1>1, <1>3, <2>2, <3>2 DEF PageInv, NotAfter
        <3>3. CASE AnsweredNow(r)
            BY <1>2, <2>2, <3>3 DEF AnsweredNow, NotAfter
        <3> QED BY <2>2, <3>1, <3>2, <3>3 DEF RequestsMoveOn
    <2> QED BY <2>1, <2>2
<1> QED BY <1>2, <1>3 DEF PageInv, NotAfter, Now

\* The server or the network deals with one request.
LEMMA OneRequestMovesOn ==
    ASSUME IInv, NEW r \in Requests, NEW req \in RequestRecords, Become(r, req),
           req.by = request[r].by, req.what = request[r].what,
           req.body = request[r].body, req.awaited = request[r].awaited,
           req.served = "serving" => ~Invalid(req.body),
           \/ req.answer = request[r].answer /\ req.served # "answered"
           \/ ~OfController(req.answer) /\ (~req.awaited \/ req.what = "files")
           \/ /\ OfController(req.answer)
              /\ req.answer.uuid = uuid_' /\ req.answer.play_seq_id = play_seq_id'
    PROVE  /\ request' \in [Requests -> RequestRecords]
           /\ RequestsMoveOn
           /\ \A p \in Pages : Buttons(p)' \subseteq Buttons(p)
           /\ \A q \in Requests \ {r} : request'[q] = request[q]
           /\ OfController(request'[r].answer) => request'[r].answer = req.answer
<1>1. request \in [Requests -> RequestRecords]
    BY DEF IInv, TypeOK, HttpTypeOK, RequestRecords
<1>2. /\ Settled(req) \in RequestRecords
      /\ Settled(req).awaited <=> req.awaited
      /\ req.awaited => Settled(req) = req
      /\ Settled(req).served = "serving" => Settled(req) = req
      /\ OfController(Settled(req).answer) => Settled(req).answer = req.answer
    BY SettledType
<1>3. /\ request' \in [Requests -> RequestRecords]
      /\ request'[r] = Settled(req)
      /\ \A q \in Requests \ {r} : request'[q] = request[q]
    BY <1>1, <1>2 DEF Become
<1>4. /\ request[r].awaited => request[r].by \in Pages /\ ~Invalid(request[r].body)
      /\ \A q \in Requests \ {r} :
            /\ request[q].served = "serving" => ~Invalid(request[q].body)
            /\ request[q].awaited => request[q].by \in Pages /\ ~Invalid(request[q].body)
    BY DEF IInv, AnswersInv
<1>5. /\ KeepsItsAnswer(r) \/ AnsweredNow(r)
      /\ request'[r].awaited /\ request'[r].served = "answered"
         /\ request'[r].what # "files" => AnsweredNow(r)
    BY <1>2, <1>3 DEF KeepsItsAnswer, AnsweredNow
<1>6. RequestsMoveOn
    BY <1>2, <1>3, <1>4, <1>5 DEF RequestsMoveOn, KeepsItsAnswer
<1>7. ASSUME NEW p \in Pages, NEW q \in Buttons(p)' PROVE q \in Buttons(p)
    <2>1. q \in Requests /\ request'[q].by = p /\ request'[q].awaited
          /\ request'[q].what # "files"
        BY <1>7 DEF Buttons, Waiting
    <2>2. CASE q = r
        BY <1>2, <1>3, <2>1, <2>2 DEF Buttons, Waiting
    <2>3. CASE q # r
        BY <1>3, <2>1, <2>3 DEF Buttons, Waiting
    <2> QED BY <2>2, <2>3
<1> QED BY <1>2, <1>3, <1>6, <1>7

-----------------------------------------------------------------------------
(* The server, the other clients and the process.                           *)

PlayerTypeOK ==
    /\ song \in Songs \cup {NoSong}
    /\ play_seq_id \in Nat
    /\ wav_dir_ \in WavDirs
    /\ uuid_ \in 1..MaxRuns
    /\ running \in BOOLEAN

LEMMA PlayerRests ==
    ASSUME IInv, UNCHANGED playerVars
    PROVE  PlayerTypeOK' /\ PlayerMovesOn
BY BoundsAssumption DEF IInv, TypeOK, HttpTypeOK, PlayerTypeOK, PlayerMovesOn,
                        playerVars, controlVars

\* The pages notice nothing.
LEMMA BehindThePages ==
    ASSUME IInv, UNCHANGED page, PlayerTypeOK', PlayerMovesOn,
           request' \in [Requests -> RequestRecords], RequestsMoveOn,
           \A p \in Pages : Buttons(p)' \subseteq Buttons(p)
    PROVE  /\ TypeOK' /\ AnswersInv' /\ PagesInv'
           /\ (\A r \in Requests : KeepsItsAnswer(r)) => IInv'
<1>1. TypeOK'
    BY DEF IInv, TypeOK, HttpTypeOK, PlayerTypeOK, RequestRecords
<1>2. AnswersInv'
    BY <1>1, AnswersMoveOn
<1>3. PagesInv'
    <2>1. ASSUME NEW p \in Pages PROVE PageInv(p)'
        BY <1>1, PageStays
    <2> QED BY <2>1 DEF PagesInv, PageInv
<1>4. (\A r \in Requests : KeepsItsAnswer(r)) => PlaysAreIdentified' /\ AnswerHolds'
    BY <1>1, OldAnswersHold
<1> QED BY <1>1, <1>2, <1>3, <1>4 DEF IInv

\* One request is dealt with, and none is answered by the controller.
LEMMA WithoutTheController ==
    ASSUME IInv, UNCHANGED page, UNCHANGED playerVars,
           NEW r \in Requests, NEW req \in RequestRecords, Become(r, req),
           req.by = request[r].by, req.what = request[r].what,
           req.body = request[r].body, req.awaited = request[r].awaited,
           req.served = "serving" => ~Invalid(req.body),
           \/ req.answer = request[r].answer /\ req.served # "answered"
           \/ ~OfController(req.answer) /\ (~req.awaited \/ req.what = "files")
    PROVE  IInv'
<1>1. /\ request' \in [Requests -> RequestRecords]
      /\ RequestsMoveOn
      /\ \A p \in Pages : Buttons(p)' \subseteq Buttons(p)
      /\ \A q \in Requests \ {r} : request'[q] = request[q]
      /\ OfController(request'[r].answer) => request'[r].answer = req.answer
    BY OneRequestMovesOn
<1>2. \A q \in Requests : KeepsItsAnswer(q)
    BY <1>1 DEF KeepsItsAnswer
<1>3. PlayerTypeOK' /\ PlayerMovesOn
    BY PlayerRests
<1> QED BY <1>1, <1>2, <1>3, BehindThePages

LEMMA TypesOfInv ==
    ASSUME IInv
    PROVE  /\ PlayerTypeOK
           /\ request \in [Requests -> RequestRecords]
           /\ page \in [Pages -> AppComponent]
           /\ uuid_ \in Int /\ play_seq_id \in Int
BY BoundsAssumption DEF IInv, TypeOK, HttpTypeOK, PlayerTypeOK, RequestRecords

LEMMA AnswerType ==
    ASSUME NEW kind \in {"none", "files", "refused", "stopped", "playing", "failed"},
           NEW uuid \in 0..MaxRuns, NEW seq_id \in Nat, NEW files \in SUBSET Songs
    PROVE  LET answer == Answer(kind, uuid, seq_id, files) IN
           /\ answer \in Answers
           /\ answer.kind = kind /\ answer.uuid = uuid
           /\ answer.play_seq_id = seq_id /\ answer.files = files
           /\ OfController(answer) <=> kind \in {"stopped", "playing", "failed"}
BY DEF Answer, Answers, OfController

LEMMA FilesKeep ==
    ASSUME IInv, NEW r \in Requests, UNCHANGED page,
           OnGetAvailableFiles(r) \/ QueryFilesThrows(r)
    PROVE  IInv'
<1>1. request[r] \in RequestRecords
    BY TypesOfInv
<1>2. CASE OnGetAvailableFiles(r)
    <2> DEFINE answer == Answer("files", 0, 0, QueryFiles(wav_dir_))
               req == [request[r] EXCEPT !.served = "answered", !.answer = answer]
    <2>1. QueryFiles(wav_dir_) \in SUBSET Songs
        BY SongsAssumption, TypesOfInv DEF PlayerTypeOK
    <2>2. answer \in Answers /\ ~OfController(answer)
        BY <2>1, AnswerType, BoundsAssumption
    <2>3. Become(r, req) /\ request[r].what = "files" /\ UNCHANGED playerVars
        BY <1>2 DEF OnGetAvailableFiles, Answered
    <2> HIDE DEF answer
    <2>4. /\ req \in RequestRecords /\ req.served = "answered" /\ req.answer = answer
          /\ req.by = request[r].by /\ req.what = request[r].what
          /\ req.body = request[r].body /\ req.awaited = request[r].awaited
        BY <1>1, <2>2 DEF RequestRecords
    <2> HIDE DEF req
    <2> QED BY <2>2, <2>3, <2>4, WithoutTheController
<1>3. CASE QueryFilesThrows(r)
    <2> DEFINE req == [request[r] EXCEPT !.served = "gone"]
    <2>1. Become(r, req) /\ UNCHANGED playerVars
        BY <1>3 DEF QueryFilesThrows
    <2>2. /\ req \in RequestRecords /\ req.served = "gone"
          /\ req.answer = request[r].answer
          /\ req.by = request[r].by /\ req.what = request[r].what
          /\ req.body = request[r].body /\ req.awaited = request[r].awaited
        BY <1>1 DEF RequestRecords
    <2> HIDE DEF req
    <2> QED BY <2>1, <2>2, WithoutTheController
<1> QED BY <1>2, <1>3

LEMMA RefusedKeeps ==
    ASSUME IInv, NEW r \in Requests, UNCHANGED page, OnPutRefused(r)
    PROVE  IInv'
<1> DEFINE answer == Answer("refused", 0, 0, {})
           req == [request[r] EXCEPT !.served = "answered", !.answer = answer]
<1>1. request[r] \in RequestRecords
    BY TypesOfInv
<1>2. answer \in Answers /\ ~OfController(answer)
    BY AnswerType, BoundsAssumption
<1>3. Become(r, req) /\ Invalid(request[r].body) /\ UNCHANGED playerVars
    BY DEF OnPutRefused, Answered
<1> HIDE DEF answer
<1>4. /\ req \in RequestRecords /\ req.served = "answered" /\ req.answer = answer
      /\ req.by = request[r].by /\ req.what = request[r].what
      /\ req.body = request[r].body /\ req.awaited = request[r].awaited
    BY <1>1, <1>2 DEF RequestRecords
<1>5. ~req.awaited
    BY <1>3, <1>4 DEF IInv, AnswersInv
<1> HIDE DEF req
<1> QED BY <1>2, <1>3, <1>4, <1>5, WithoutTheController

LEMMA TakenUpKeeps ==
    ASSUME IInv, NEW r \in Requests, UNCHANGED page, OnPutCurrentSong(r)
    PROVE  IInv'
<1> DEFINE req == [request[r] EXCEPT !.served = "serving"]
<1>1. Become(r, req) /\ ~Invalid(request[r].body) /\ UNCHANGED playerVars
    BY DEF OnPutCurrentSong
<1>2. /\ req \in RequestRecords /\ req.served = "serving"
      /\ req.answer = request[r].answer
      /\ req.by = request[r].by /\ req.what = request[r].what
      /\ req.body = request[r].body /\ req.awaited = request[r].awaited
    BY TypesOfInv DEF RequestRecords
<1> HIDE DEF req
<1> QED BY <1>1, <1>2, WithoutTheController

LEMMA GoneKeeps ==
    ASSUME IInv, NEW r \in Requests, UNCHANGED page, NeverArrives(r)
    PROVE  IInv'
<1> DEFINE req == [request[r] EXCEPT !.served = "gone"]
<1>1. Become(r, req) /\ UNCHANGED playerVars
    BY DEF NeverArrives
<1>2. /\ req \in RequestRecords /\ req.served = "gone"
      /\ req.answer = request[r].answer
      /\ req.by = request[r].by /\ req.what = request[r].what
      /\ req.body = request[r].body /\ req.awaited = request[r].awaited
    BY TypesOfInv DEF RequestRecords
<1> HIDE DEF req
<1> QED BY <1>1, <1>2, WithoutTheController

\* The controller answers: the answer is of the number that the player is at.
LEMMA ControllerAnswers ==
    ASSUME IInv, NEW r \in Requests, UNCHANGED page, PlayerTypeOK', PlayerMovesOn,
           NEW answer \in Answers, OfController(answer),
           answer.uuid = uuid_', answer.play_seq_id = play_seq_id',
           Answered(r, answer),
           song' \in answer.files \cup {NoSong},
           ~IsPlay(answer) \/ (uuid_' = uuid_ /\ play_seq_id' = play_seq_id + 1)
    PROVE  IInv'
<1> DEFINE req == [request[r] EXCEPT !.served = "answered", !.answer = answer]
<1>1. Become(r, req)
    BY DEF Answered
<1>2. /\ req \in RequestRecords /\ req.served = "answered" /\ req.answer = answer
      /\ req.by = request[r].by /\ req.what = request[r].what
      /\ req.body = request[r].body /\ req.awaited = request[r].awaited
    BY TypesOfInv DEF RequestRecords
<1> HIDE DEF req
<1>3. /\ request' \in [Requests -> RequestRecords]
      /\ RequestsMoveOn
      /\ \A p \in Pages : Buttons(p)' \subseteq Buttons(p)
      /\ \A q \in Requests \ {r} : request'[q] = request[q]
      /\ OfController(request'[r].answer) => request'[r].answer = req.answer
    BY <1>1, <1>2, OneRequestMovesOn
<1>4. TypeOK' /\ AnswersInv' /\ PagesInv'
    BY <1>3, BehindThePages
<1>5. ASSUME NEW q \in Requests \ {r}, OfController(request[q].answer)
      PROVE  /\ NotAfter(request[q].answer, Now)
             /\ request[q].answer.uuid \in Int /\ request[q].answer.play_seq_id \in Int
    BY <1>5, TypesOfInv, BoundsAssumption DEF IInv, AnswersInv, RequestRecords, Answers
<1>6. PlaysAreIdentified'
    <2> SUFFICES ASSUME NEW i \in Requests, NEW j \in Requests,
                        IsPlay(request'[i].answer), IsPlay(request'[j].answer),
                        request'[i].answer.uuid = request'[j].answer.uuid,
                        request'[i].answer.play_seq_id = request'[j].answer.play_seq_id,
                        i # j
                 PROVE  FALSE
        BY DEF PlaysAreIdentified
    <2>1. ASSUME NEW q \in Requests, q # r, IsPlay(request'[q].answer),
                 IsPlay(request'[r].answer),
                 request'[q].answer.uuid = request'[r].answer.uuid,
                 request'[q].answer.play_seq_id = request'[r].answer.play_seq_id
          PROVE  FALSE
        <3>1. request'[r].answer = answer /\ request'[q].answer = request[q].answer
            BY <1>2, <1>3, <2>1 DEF IsPlay, OfController
        <3>2. uuid_' = uuid_ /\ play_seq_id' = play_seq_id + 1
            BY <2>1, <3>1
        <3>3. NotAfter(request[q].answer, Now)
            BY <1>5, <2>1, <3>1 DEF IsPlay, OfController
        <3> QED BY <2>1, <3>1, <3>2, <3>3, TypesOfInv DEF NotAfter, Now
    <2>2. CASE i # r /\ j # r
        BY <1>3, <2>2 DEF IInv, PlaysAreIdentified
    <2>3. CASE i = r \/ j = r
        BY <2>1, <2>3
    <2> QED BY <2>2, <2>3
<1>7. AnswerHolds'
    <2> SUFFICES ASSUME NEW q \in Requests, OfController(request'[q].answer),
                        request'[q].answer.uuid = uuid_',
                        request'[q].answer.play_seq_id = play_seq_id'
                 PROVE  song' \in request'[q].answer.files \cup {NoSong}
        BY DEF AnswerHolds
    <2>1. CASE q = r
        BY <1>2, <1>3, <2>1
    <2>2. CASE q # r
        <3>1. request'[q].answer = request[q].answer
            BY <1>3, <2>2
        <3>2. NotAfter(request[q].answer, Now)
            BY <1>5, <2>2, <3>1
        <3>3. uuid_' \in Int /\ play_seq_id' \in Int
            BY BoundsAssumption DEF PlayerTypeOK
        <3>4. uuid_ = uuid_' /\ play_seq_id = play_seq_id'
            BY <3>1, <3>2, <3>3, TypesOfInv DEF NotAfter, Now, PlayerMovesOn
        <3>5. song \in request[q].answer.files \cup {NoSong}
            BY <3>1, <3>4 DEF IInv, AnswerHolds
        <3> QED BY <3>1, <3>4, <3>5 DEF PlayerMovesOn
    <2> QED BY <2>1, <2>2
<1> QED BY <1>4, <1>6, <1>7 DEF IInv

LEMMA StopIsAnswered ==
    ASSUME IInv, NEW r \in Requests, UNCHANGED page, StopPlayRequest(r)
    PROVE  IInv'
<1> DEFINE answer == Answer("stopped", uuid_, play_seq_id, {})
<1>1. /\ answer \in Answers /\ OfController(answer) /\ ~IsPlay(answer)
      /\ answer.uuid = uuid_ /\ answer.play_seq_id = play_seq_id /\ answer.files = {}
    BY AnswerType, TypesOfInv, BoundsAssumption DEF PlayerTypeOK, IsPlay
<1>2. Answered(r, answer) /\ song = NoSong /\ UNCHANGED playerVars
    BY DEF StopPlayRequest, Stopped
<1>3. PlayerTypeOK' /\ PlayerMovesOn
    BY <1>2, PlayerRests
<1>4. uuid_' = uuid_ /\ play_seq_id' = play_seq_id /\ song' = NoSong
    BY <1>2 DEF playerVars, controlVars
<1> HIDE DEF answer
<1>5. /\ answer.uuid = uuid_' /\ answer.play_seq_id = play_seq_id'
      /\ song' \in answer.files \cup {NoSong}
    BY <1>1, <1>4
<1> QED BY <1>1, <1>2, <1>3, <1>5, ControllerAnswers

LEMMA PlayIsAnswered ==
    ASSUME IInv, NEW r \in Requests, NEW success \in BOOLEAN, UNCHANGED page,
           NewSongRequest(r, success)
    PROVE  IInv'
<1> DEFINE file_id == request[r].body.file_id
           answer == IF success THEN Answer("playing", uuid_, play_seq_id', {file_id})
                     ELSE Answer("failed", uuid_, play_seq_id', {})
<1>1. file_id \in Songs
    <2>1. request[r].served = "serving" /\ file_id \notin {<<>>, Absent}
        BY DEF NewSongRequest, Serving, NoFileNamed
    <2>2. file_id # NotText
        BY <2>1 DEF IInv, AnswersInv, Invalid
    <2>3. file_id \in Songs \cup {<<>>, Absent, NotText}
        BY TypesOfInv DEF RequestRecords, Bodies
    <2> QED BY <2>1, <2>2, <2>3
<1>2. /\ play_seq_id' = play_seq_id + 1
      /\ song' = IF success THEN file_id ELSE NoSong
      /\ UNCHANGED <<wav_dir_, uuid_, running>>
      /\ Answered(r, answer)
    BY DEF NewSongRequest, NewPlay, TakeNumber
<1> HIDE DEF file_id
<1>3. PlayerTypeOK' /\ PlayerMovesOn
    BY <1>1, <1>2, TypesOfInv DEF PlayerTypeOK, PlayerMovesOn
<1>4. /\ answer \in Answers /\ OfController(answer)
      /\ answer.uuid = uuid_' /\ answer.play_seq_id = play_seq_id'
      /\ song' \in answer.files \cup {NoSong}
    <2>1. uuid_ \in 0..MaxRuns /\ play_seq_id' \in Nat
        BY <1>3, TypesOfInv, BoundsAssumption DEF PlayerTypeOK
    <2>2. CASE success
        <3>1. answer = Answer("playing", uuid_, play_seq_id', {file_id})
              /\ song' = file_id
            BY <1>2, <2>2
        <3>2. {file_id} \in SUBSET Songs
            BY <1>1
        <3> HIDE DEF answer
        <3> QED BY <1>2, <2>1, <3>1, <3>2, AnswerType
    <2>3. CASE ~success
        <3>1. answer = Answer("failed", uuid_, play_seq_id', {}) /\ song' = NoSong
            BY <1>2, <2>3
        <3> HIDE DEF answer
        <3> QED BY <1>2, <2>1, <3>1, AnswerType
    <2> QED BY <2>2, <2>3
<1> HIDE DEF answer
<1> QED BY <1>2, <1>3, <1>4, ControllerAnswers

\* The song ends, whoever is the reason.
LEMMA EndKeeps ==
    ASSUME IInv, SongEnds, UNCHANGED <<wav_dir_, uuid_, running, request, page>>
    PROVE  IInv'
<1>1. PlayerTypeOK' /\ PlayerMovesOn
    BY TypesOfInv DEF PlayerTypeOK, PlayerMovesOn, SongEnds
<1>2. /\ request' \in [Requests -> RequestRecords]
      /\ \A r \in Requests : KeepsItsAnswer(r)
      /\ \A p \in Pages : Buttons(p)' \subseteq Buttons(p)
    BY TypesOfInv DEF KeepsItsAnswer, Buttons, Waiting
<1>3. RequestsMoveOn
    BY <1>2 DEF RequestsMoveOn, IInv, AnswersInv
<1> QED BY <1>1, <1>2, <1>3, BehindThePages

LEMMA OtherKeeps ==
    ASSUME IInv, NEW r \in Requests, NEW by \in Others, NEW body \in OtherBodies,
           UNCHANGED page, OtherSends(r, by, body)
    PROVE  IInv'
<1> DEFINE req == Request(by, "other", body, "waiting", FALSE)
<1>1. /\ req \in RequestRecords /\ req.served = "waiting" /\ req.awaited = FALSE
      /\ ~OfController(req.answer)
    BY OtherBodiesAssumption, NoAnswerType DEF Request, RequestRecords
<1>2. request' = [request EXCEPT ![r] = Settled(req)] /\ UNCHANGED playerVars
    BY DEF OtherSends, Become
<1> HIDE DEF req
<1>3. /\ Settled(req) \in RequestRecords /\ ~Settled(req).awaited
      /\ Settled(req).served # "serving" /\ ~OfController(Settled(req).answer)
    BY <1>1, SettledType
<1>4. /\ request' \in [Requests -> RequestRecords]
      /\ request'[r] = Settled(req)
      /\ \A q \in Requests \ {r} : request'[q] = request[q]
    BY <1>2, <1>3, TypesOfInv
<1>5. RequestsMoveOn /\ \A q \in Requests : KeepsItsAnswer(q)
    BY <1>3, <1>4 DEF RequestsMoveOn, KeepsItsAnswer, IInv, AnswersInv
<1>6. ASSUME NEW p \in Pages PROVE Buttons(p)' \subseteq Buttons(p)
    BY <1>3, <1>4 DEF Buttons, Waiting
<1>7. PlayerTypeOK' /\ PlayerMovesOn
    BY <1>2, PlayerRests
<1> QED BY <1>4, <1>5, <1>6, <1>7, BehindThePages

LEMMA GoesDownKeeps ==
    ASSUME IInv, UNCHANGED page, GoesDown
    PROVE  IInv'
<1>1. PlayerTypeOK' /\ PlayerMovesOn
    <2>1. running' = FALSE /\ song' = NoSong
          /\ play_seq_id' = play_seq_id /\ wav_dir_' = wav_dir_ /\ uuid_' = uuid_
        BY Zenon DEF GoesDown
    <2>2. PlayerTypeOK'
        BY <2>1, TypesOfInv, Zenon DEF PlayerTypeOK
    <2>3. PlayerMovesOn
        BY <2>1, TypesOfInv DEF PlayerMovesOn
    <2> QED BY <2>2, <2>3
<1>2. ASSUME NEW r \in Requests
      PROVE  /\ request'[r] \in RequestRecords
             /\ request'[r] = request[r]
                \/ (request'[r].awaited => /\ request'[r].by = request[r].by
                                           /\ request'[r].what = request[r].what
                                           /\ request'[r].body = request[r].body
                                           /\ request'[r].served = "gone"
                                           /\ request[r].awaited)
             /\ request'[r].served = "serving" => request'[r] = request[r]
             /\ KeepsItsAnswer(r)
    <2> DEFINE req == [request[r] EXCEPT !.served = "gone"]
    <2>1. /\ req \in RequestRecords /\ req.served = "gone"
          /\ req.answer = request[r].answer
          /\ req.by = request[r].by /\ req.what = request[r].what
          /\ req.body = request[r].body /\ req.awaited = request[r].awaited
        BY TypesOfInv DEF RequestRecords
    <2>2. CASE request'[r] = Settled(req)
        <3> HIDE DEF req
        <3> QED BY <2>1, <2>2, SettledType DEF KeepsItsAnswer
    <2>3. CASE request'[r] = request[r]
        BY <2>3, TypesOfInv DEF KeepsItsAnswer
    <2>4. request'[r] = IF request[r].served \in {"waiting", "serving"}
                        THEN Settled(req) ELSE request[r]
        BY DEF GoesDown
    <2> QED BY <2>2, <2>3, <2>4, Zenon
<1>3. request' \in [Requests -> RequestRecords]
    BY <1>2 DEF GoesDown
<1>4. RequestsMoveOn
    BY <1>2 DEF RequestsMoveOn, IInv, AnswersInv
<1>5. ASSUME NEW p \in Pages PROVE Buttons(p)' \subseteq Buttons(p)
    BY <1>2 DEF Buttons, Waiting
<1> QED BY <1>1, <1>2, <1>3, <1>4, <1>5, BehindThePages

LEMMA StartsAgainKeeps ==
    ASSUME IInv, UNCHANGED page, StartsAgain
    PROVE  IInv'
<1>1. PlayerTypeOK' /\ PlayerMovesOn
    BY TypesOfInv, BoundsAssumption
       DEF PlayerTypeOK, PlayerMovesOn, StartsAgain, CreateUUID, FirstSong
<1>2. UNCHANGED request
    BY DEF StartsAgain
<1>3. /\ request' \in [Requests -> RequestRecords]
      /\ \A r \in Requests : KeepsItsAnswer(r)
      /\ \A p \in Pages : Buttons(p)' \subseteq Buttons(p)
    BY <1>2, TypesOfInv DEF KeepsItsAnswer, Buttons, Waiting
<1>4. RequestsMoveOn
    BY <1>2, <1>3 DEF RequestsMoveOn, IInv, AnswersInv
<1> QED BY <1>1, <1>3, <1>4, BehindThePages

LEMMA HttpNextKeeps ==
    ASSUME IInv, HttpNext, UNCHANGED page
    PROVE  IInv'
<1>1. ASSUME NEW r \in Requests, ServerStep(r) PROVE IInv'
    <2>1. CASE StopSong(r)
        BY <2>1, EndKeeps DEF StopSong
    <2> QED BY <1>1, <2>1, FilesKeep, RefusedKeeps, TakenUpKeeps, StopIsAnswered,
               PlayIsAnswered DEF ServerStep
<1>2. CASE SongEndsByItself
    BY <1>2, EndKeeps DEF SongEndsByItself
<1> QED BY <1>1, <1>2, OtherKeeps, GoneKeeps, GoesDownKeeps, StartsAgainKeeps
        DEF HttpNext

-----------------------------------------------------------------------------
(* The pages.                                                               *)

\* A request of page p that was just sent.
NewlySent(p, q) ==
    /\ request'[q].by = p
    /\ ~Invalid(request'[q].body)
    /\ request'[q].served \in {"waiting", "gone"}
    /\ ~OfController(request'[q].answer)

\* A request that was just closed.
NoLongerAwaited(q) ==
    /\ ~request'[q].awaited
    /\ request'[q].served = "serving" =>
          request[q].served = "serving" /\ request'[q].body = request[q].body
    /\ KeepsItsAnswer(q)

LEMMA ClosedIsNoLongerAwaited ==
    ASSUME IInv, NEW q \in Requests,
           \/ request'[q] = Closed(request[q])
           \/ request'[q] = Settled(Closed(request[q]))
    PROVE  request'[q] \in RequestRecords /\ NoLongerAwaited(q)
<1> DEFINE closed == Closed(request[q])
<1>1. /\ closed \in RequestRecords /\ ~closed.awaited
      /\ closed.served = "serving" =>
            request[q].served = "serving" /\ closed.body = request[q].body
      /\ OfController(closed.answer) => closed.answer = request[q].answer
    BY TypesOfInv, ClosedType
<1> HIDE DEF closed
<1>2. CASE request'[q] = closed
    BY <1>1, <1>2 DEF NoLongerAwaited, KeepsItsAnswer
<1>3. CASE request'[q] = Settled(closed)
    BY <1>1, <1>3, SettledType DEF NoLongerAwaited, KeepsItsAnswer
<1> QED BY <1>2, <1>3 DEF closed

\* A page closes some requests and sends some.
LEMMA BeforeTheServer ==
    ASSUME IInv, UNCHANGED playerVars, NEW p \in Pages,
           page' \in [Pages -> AppComponent],
           request' \in [Requests -> RequestRecords],
           \A q \in Requests :
              \/ request'[q] = request[q]
              \/ NoLongerAwaited(q)
              \/ NewlySent(p, q)
    PROVE  /\ TypeOK' /\ PlayerMovesOn /\ RequestsMoveOn
           /\ PlaysAreIdentified' /\ AnswerHolds' /\ AnswersInv'
           /\ \A other \in Pages \ {p} :
                 page'[other] = page[other] => PageInv(other)'
<1>1. PlayerTypeOK' /\ PlayerMovesOn
    BY PlayerRests
<1>2. TypeOK'
    BY <1>1 DEF TypeOK, HttpTypeOK, PlayerTypeOK, RequestRecords
<1>3. \A q \in Requests : KeepsItsAnswer(q)
    BY DEF NoLongerAwaited, KeepsItsAnswer, NewlySent
<1>4. RequestsMoveOn
    BY <1>3 DEF RequestsMoveOn, NoLongerAwaited, NewlySent, IInv, AnswersInv
<1>5. PlaysAreIdentified' /\ AnswerHolds' /\ AnswersInv'
    BY <1>1, <1>2, <1>3, <1>4, OldAnswersHold, AnswersMoveOn
<1>6. ASSUME NEW other \in Pages \ {p}, page'[other] = page[other]
      PROVE  PageInv(other)'
    <2>1. Buttons(other)' \subseteq Buttons(other)
        BY DEF Buttons, Waiting, NoLongerAwaited, NewlySent
    <2> QED BY <1>1, <1>2, <1>4, <1>6, <2>1, PageStays
<1> QED BY <1>1, <1>2, <1>4, <1>5, <1>6

LEMMA BootstrapKeeps ==
    ASSUME IInv, NEW p \in Pages, NEW r \in Requests, BootstrapModule(p, r)
    PROVE  IInv'
<1> DEFINE new == QueryFilesOf(p)
<1>1. /\ new \in RequestRecords /\ new.by = p /\ new.what = "files"
      /\ new.served \in {"waiting", "gone"}
      /\ ~Invalid(new.body) /\ ~OfController(new.answer)
    BY SentType, BodyType DEF QueryFilesOf, IInv
<1> HIDE DEF new
<1>2. /\ request' = [Aborted(p) EXCEPT ![r] = new]
      /\ page' = [page EXCEPT ![p] = NewComponent(TRUE)]
      /\ UNCHANGED playerVars
    BY DEF BootstrapModule, AppModule, new
<1>3. ASSUME NEW q \in Requests
      PROVE  /\ request'[q] \in RequestRecords
             /\ \/ request'[q] = request[q] /\ q \notin Waiting(p)
                \/ NoLongerAwaited(q)
                \/ NewlySent(p, q) /\ request'[q].what = "files"
    <2>1. CASE q = r
        BY <1>1, <1>2, <2>1 DEF Aborted, NewlySent
    <2>2. CASE q # r /\ q \in Waiting(p)
        BY <1>2, <2>2, ClosedIsNoLongerAwaited DEF Aborted
    <2>3. CASE q # r /\ q \notin Waiting(p)
        BY <1>2, <2>3, TypesOfInv DEF Aborted
    <2> QED BY <2>1, <2>2, <2>3
<1>4. request' \in [Requests -> RequestRecords]
    BY <1>2, <1>3 DEF Aborted
<1>5. /\ page' \in [Pages -> AppComponent]
      /\ page'[p].responseText = NoText
      /\ \A other \in Pages \ {p} : page'[other] = page[other]
    BY <1>2, TypesOfInv DEF NewComponent, AppComponent
<1>6. /\ TypeOK' /\ PlaysAreIdentified' /\ AnswerHolds' /\ AnswersInv'
      /\ \A other \in Pages \ {p} : PageInv(other)'
    BY <1>2, <1>3, <1>4, <1>5, BeforeTheServer
<1>7. Buttons(p)' = {}
    <2> SUFFICES ASSUME NEW q \in Requests, request'[q].by = p, request'[q].awaited,
                        request'[q].what # "files"
                 PROVE  FALSE
        BY DEF Buttons, Waiting
    <2>1. request'[q] = request[q] /\ q \notin Waiting(p)
        BY <1>3 DEF NoLongerAwaited
    <2> QED BY <2>1 DEF Waiting
<1>8. PageInv(p)'
    BY <1>5, <1>7, TextsAssumption DEF PageInv
<1> QED BY <1>6, <1>8 DEF IInv, PagesInv, PageInv

\* The page leaves its text and its buttons as they are, or takes buttons away.
LEMMA TextStays ==
    ASSUME IInv, UNCHANGED playerVars, NEW p \in Pages,
           page' \in [Pages -> AppComponent],
           \A any \in Pages : /\ page'[any].responseText = page[any].responseText
                              /\ page'[any].patient = page[any].patient,
           request' \in [Requests -> RequestRecords],
           \A q \in Requests : request'[q] = request[q] \/ NoLongerAwaited(q)
    PROVE  IInv'
<1>1. /\ TypeOK' /\ PlayerMovesOn /\ RequestsMoveOn
      /\ PlaysAreIdentified' /\ AnswerHolds' /\ AnswersInv'
    BY BeforeTheServer
<1>2. ASSUME NEW any \in Pages PROVE PageInv(any)'
    <2>1. Buttons(any)' \subseteq Buttons(any)
        BY DEF Buttons, Waiting, NoLongerAwaited
    <2> QED BY <1>1, <2>1, PageStays
<1> QED BY <1>1, <1>2 DEF IInv, PagesInv, PageInv

LEMMA OnFilesKeeps ==
    ASSUME IInv, NEW p \in Pages, NEW r \in Requests, OnFiles(p, r)
    PROVE  IInv'
<1>1. /\ request' = [request EXCEPT ![r] = Settled(Closed(request[r]))]
      /\ UNCHANGED playerVars
      /\ UNCHANGED page \/ page' = [page EXCEPT ![p].nodes = request[r].answer.files]
    BY DEF OnFiles, Become
<1>2. request[r].answer.files \in SUBSET Songs
    BY TypesOfInv DEF RequestRecords, Answers
<1>3. /\ page' \in [Pages -> AppComponent]
      /\ \A any \in Pages : /\ page'[any].responseText = page[any].responseText
                            /\ page'[any].patient = page[any].patient
    BY <1>1, <1>2, TypesOfInv DEF AppComponent
<1>4. request'[r] \in RequestRecords /\ NoLongerAwaited(r)
    BY <1>1, TypesOfInv, ClosedIsNoLongerAwaited
<1>5. /\ request' \in [Requests -> RequestRecords]
      /\ \A q \in Requests : request'[q] = request[q] \/ NoLongerAwaited(q)
    BY <1>1, <1>4, TypesOfInv
<1> QED BY <1>1, <1>3, <1>5, TextStays

LEMMA ChoiceKeeps ==
    ASSUME IInv, NEW p \in Pages,
           \/ \E id \in Songs : OnActivate(p, id)
           \/ \E text \in Typed : OnInput(p, text)
    PROVE  IInv'
<1>1. PICK chosen \in Songs \cup {<<>>} :
         page' = [page EXCEPT ![p].fileToPlay = chosen]
    BY TypedAssumption DEF OnActivate, OnInput
<1>2. UNCHANGED playerVars /\ UNCHANGED request
    BY DEF OnActivate, OnInput, httpVars
<1>3. /\ page' \in [Pages -> AppComponent]
      /\ \A any \in Pages : /\ page'[any].responseText = page[any].responseText
                            /\ page'[any].patient = page[any].patient
    BY <1>1, TypesOfInv DEF AppComponent
<1> QED BY <1>2, <1>3, TypesOfInv, TextStays

LEMMA ClickKeeps ==
    ASSUME IInv, NEW p \in Pages, NEW r \in Requests,
           NEW what \in {"stop", "play"}, NEW file_id \in Songs \cup {<<>>, Absent},
           Click(p, r, what, Body(file_id))
    PROVE  IInv'
<1> DEFINE new == Sent(p, what, Body(file_id))
<1>1. /\ new \in RequestRecords /\ new.by = p /\ new.served \in {"waiting", "gone"}
      /\ ~Invalid(new.body) /\ ~OfController(new.answer)
    BY SentType, BodyType DEF IInv
<1>2. /\ request' = [request EXCEPT ![r] = new]
      /\ page' = [page EXCEPT ![p].patient =
                     @ /\ \A q \in Waiting(p) : request[q].what = "files"]
      /\ UNCHANGED playerVars
    BY DEF Click
<1> HIDE DEF new
<1>3. /\ request' \in [Requests -> RequestRecords]
      /\ NewlySent(p, r)
      /\ \A q \in Requests \ {r} : request'[q] = request[q]
    BY <1>1, <1>2, TypesOfInv DEF NewlySent
<1>4. /\ page' \in [Pages -> AppComponent]
      /\ page'[p].responseText = page[p].responseText
      /\ page'[p].patient => \A q \in Waiting(p) : request[q].what = "files"
      /\ \A other \in Pages \ {p} : page'[other] = page[other]
    BY <1>2, TypesOfInv DEF AppComponent
<1>5. /\ TypeOK' /\ PlayerMovesOn
      /\ PlaysAreIdentified' /\ AnswerHolds' /\ AnswersInv'
      /\ \A other \in Pages \ {p} : PageInv(other)'
    BY <1>2, <1>3, <1>4, BeforeTheServer
<1>6. ASSUME page'[p].patient
      PROVE  \A q \in Buttons(p)' : q = r /\ request'[q].served # "answered"
    BY <1>3, <1>4, <1>6 DEF Buttons, Waiting, NewlySent
<1>7. PageInv(p)'
    <2>1. ASSUME page'[p].responseText \in Answers
          PROVE  /\ OfController(page'[p].responseText)
                 /\ NotAfter(page[p].responseText, Now)'
        BY <1>4, <1>5, <2>1, UpToDate DEF NotAfter, Now
    <2> QED BY <1>6, <2>1 DEF PageInv
<1> QED BY <1>5, <1>7 DEF IInv, PagesInv, PageInv

\* What Show puts on the page: an answer of the controller, or none at all.
LEMMA ShownText ==
    ASSUME IInv, NEW p \in Pages, NEW r \in Requests, Show(p, r)
    PROVE  /\ r \in Buttons(p)
           /\ page' = [page EXCEPT ![p].responseText = page'[p].responseText]
           /\ \/ page'[p].responseText = ProgressEvent
              \/ /\ page'[p].responseText = request[r].answer
                 /\ request[r].served = "answered"
                 /\ request[r].answer \in Answers
                 /\ OfController(request[r].answer)
                 /\ NotAfter(request[r].answer, Now)
<1>1. r \in Buttons(p)
    BY DEF Show, Buttons
<1>2. PICK text \in {request[r].answer, ProgressEvent} :
         Response(r, text) /\ page' = [page EXCEPT ![p].responseText = text]
    BY DEF Show
<1>3. /\ page'[p].responseText = text
      /\ page' = [page EXCEPT ![p].responseText = page'[p].responseText]
    BY <1>2, TypesOfInv DEF AppComponent
<1>4. CASE text = ProgressEvent
    BY <1>1, <1>3, <1>4
<1>5. CASE text = request[r].answer /\ request[r].served = "answered"
    <2>1. request[r].answer \in Answers
        BY TypesOfInv DEF RequestRecords
    <2>2. OfController(request[r].answer) /\ NotAfter(request[r].answer, Now)
        BY <1>1, <1>5 DEF Buttons, Waiting, IInv, AnswersInv
    <2> QED BY <1>1, <1>3, <1>5, <2>1, <2>2
<1> QED BY <1>2, <1>4, <1>5 DEF Response

LEMMA ShowKeeps ==
    ASSUME IInv, NEW p \in Pages, NEW r \in Requests, Show(p, r)
    PROVE  IInv'
<1> DEFINE text == page'[p].responseText
<1>1. /\ request' = [request EXCEPT ![r] = Settled(Closed(request[r]))]
      /\ UNCHANGED playerVars
    BY DEF Show, Become
<1>2. request'[r] \in RequestRecords /\ NoLongerAwaited(r)
    BY <1>1, TypesOfInv, ClosedIsNoLongerAwaited
<1>3. /\ request' \in [Requests -> RequestRecords]
      /\ \A q \in Requests \ {r} : request'[q] = request[q]
    BY <1>1, <1>2, TypesOfInv
<1>4. /\ page' \in [Pages -> AppComponent]
      /\ page'[p].patient = page[p].patient
      /\ \A other \in Pages \ {p} : page'[other] = page[other]
    BY ShownText, TypesOfInv DEF AppComponent
<1>5. /\ TypeOK' /\ PlaysAreIdentified' /\ AnswerHolds' /\ AnswersInv'
      /\ \A other \in Pages \ {p} : PageInv(other)'
    BY <1>1, <1>2, <1>3, <1>4, BeforeTheServer
<1>6. Buttons(p)' \subseteq Buttons(p) \ {r}
    BY <1>2, <1>3 DEF Buttons, Waiting, NoLongerAwaited
<1>7. ASSUME page'[p].patient PROVE Buttons(p)' = {}
    <2>1. \A q \in Buttons(p) : q = r
        BY <1>4, <1>7, ShownText DEF IInv, PagesInv
    <2> QED BY <1>6, <2>1
<1>8. ASSUME text \in Answers
      PROVE  OfController(text) /\ NotAfter(page[p].responseText, Now)'
    <2>1. text = request[r].answer /\ OfController(text) /\ NotAfter(text, Now)
        BY <1>8, ShownText, TextsAssumption
    <2>2. UNCHANGED <<uuid_, play_seq_id>>
        BY <1>1 DEF playerVars, controlVars
    <2> QED BY <2>1, <2>2 DEF NotAfter, Now
<1>9. PageInv(p)'
    BY <1>7, <1>8 DEF PageInv
<1> QED BY <1>5, <1>9 DEF IInv, PagesInv, PageInv

LEMMA SentAgainKeeps ==
    ASSUME IInv, NEW p \in Pages, NEW q \in Requests, NEW r \in Requests,
           SentAgain(p, q, r)
    PROVE  IInv'
<1> DEFINE new == Sent(p, request[q].what, request[q].body)
<1>1. /\ request[q] \in RequestRecords /\ request[q].by = p /\ request[q].awaited
      /\ ~Invalid(request[q].body)
    BY TypesOfInv DEF SentAgain, Waiting, IInv, AnswersInv
<1>2. /\ new \in RequestRecords /\ new.by = p /\ new.what = request[q].what
      /\ new.served \in {"waiting", "gone"}
      /\ ~Invalid(new.body) /\ ~OfController(new.answer)
    BY <1>1, TypesOfInv, NoAnswerType DEF Sent, Request, RequestRecords
<1>3. /\ request' = [request EXCEPT ![q] = Closed(@), ![r] = new]
      /\ UNCHANGED playerVars /\ UNCHANGED page
    BY DEF SentAgain
<1> HIDE DEF new
<1>4. /\ request'[r] = new /\ NewlySent(p, r)
      /\ \A other \in Requests \ {q, r} : request'[other] = request[other]
    BY <1>2, <1>3, TypesOfInv DEF NewlySent
<1>5. ASSUME q # r PROVE request'[q] \in RequestRecords /\ NoLongerAwaited(q)
    <2>1. request'[q] = Closed(request[q])
        BY <1>3, <1>5, TypesOfInv
    <2> QED BY <2>1, ClosedIsNoLongerAwaited
<1>6. ASSUME NEW any \in Requests
      PROVE  /\ request'[any] \in RequestRecords
             /\ \/ request'[any] = request[any]
                \/ NoLongerAwaited(any)
                \/ NewlySent(p, any)
    BY <1>2, <1>4, <1>5, TypesOfInv
<1>7. request' \in [Requests -> RequestRecords]
    BY <1>3, <1>6, TypesOfInv
<1>8. page' \in [Pages -> AppComponent] /\ \A other \in Pages : page'[other] = page[other]
    BY <1>3, TypesOfInv
<1>9. /\ TypeOK' /\ PlayerMovesOn /\ RequestsMoveOn
      /\ PlaysAreIdentified' /\ AnswerHolds' /\ AnswersInv'
      /\ \A other \in Pages \ {p} : PageInv(other)'
    BY <1>3, <1>6, <1>7, <1>8, BeforeTheServer
<1>10. CASE request[q].what = "files"
    <2>1. Buttons(p)' \subseteq Buttons(p)
        BY <1>2, <1>4, <1>5, <1>10 DEF Buttons, Waiting, NoLongerAwaited
    <2>2. PageInv(p)'
        BY <1>3, <1>9, <2>1, PageStays
    <2> QED BY <1>9, <2>2 DEF IInv, PagesInv, PageInv
<1>11. CASE request[q].what # "files"
    <2>1. ASSUME page'[p].patient
          PROVE  \A any \in Buttons(p)' : any = r /\ request'[any].served # "answered"
        <3>1. \A any \in Buttons(p) : any = q
            BY <1>1, <1>3, <1>11, <2>1 DEF IInv, PagesInv, Buttons, Waiting
        <3>2. ASSUME NEW any \in Buttons(p)', any # r PROVE FALSE
            <4>1. any # q
                BY <1>5, <3>2 DEF Buttons, Waiting, NoLongerAwaited
            <4>2. any \in Buttons(p)
                BY <1>4, <3>2, <4>1 DEF Buttons, Waiting
            <4> QED BY <3>1, <4>1, <4>2
        <3> QED BY <1>4, <3>2 DEF NewlySent
    <2>2. ASSUME page'[p].responseText \in Answers
          PROVE  /\ OfController(page'[p].responseText)
                 /\ NotAfter(page[p].responseText, Now)'
        BY <1>3, <1>9, <2>2, UpToDate DEF NotAfter, Now
    <2>3. PageInv(p)'
        BY <2>1, <2>2 DEF PageInv
    <2> QED BY <1>9, <2>3 DEF IInv, PagesInv, PageInv
<1> QED BY <1>10, <1>11

-----------------------------------------------------------------------------
(* The theorems.                                                            *)

LEMMA InitEstablishes == Init => IInv
<1> SUFFICES ASSUME Init PROVE IInv
    OBVIOUS
<1>1. Unused \in RequestRecords /\ ~Unused.awaited /\ Unused.served = "none"
      /\ ~OfController(Unused.answer)
    BY NoAnswerType DEF Unused, Request, RequestRecords, Body, Bodies
<1>2. request = [r \in Requests |-> Unused]
    BY DEF Init, HttpInit
<1>3. request \in [Requests -> RequestRecords]
    BY <1>1, <1>2
<1>4. PlayerTypeOK
    BY BoundsAssumption DEF Init, HttpInit, ControlInit, PlayerTypeOK
<1>5. page \in [Pages -> AppComponent]
      /\ \A p \in Pages : page[p].responseText = NoText
    BY DEF Init, NewComponent, AppComponent
<1>6. TypeOK
    BY <1>3, <1>4, <1>5 DEF TypeOK, HttpTypeOK, PlayerTypeOK, RequestRecords
<1>7. PlaysAreIdentified /\ AnswerHolds /\ AnswersInv
    BY <1>1, <1>2 DEF PlaysAreIdentified, AnswerHolds, AnswersInv, IsPlay, OfController
<1>8. PagesInv
    BY <1>1, <1>2, <1>5, TextsAssumption DEF PagesInv, Buttons, Waiting
<1> QED BY <1>6, <1>7, <1>8 DEF IInv

LEMMA PageStepKeeps ==
    ASSUME IInv, NEW p \in Pages, PageStep(p)
    PROVE  IInv'
<1>1. page[p].fileToPlay \in Songs \cup {<<>>, Absent}
    BY TypesOfInv DEF AppComponent
<1>2. ASSUME NEW r \in Requests, Stop(p, r) \/ Play(p, r) PROVE IInv'
    BY <1>1, <1>2, ClickKeeps DEF Stop, Play, StopAudio, PlayAudio
<1> QED BY <1>2, BootstrapKeeps, OnFilesKeeps, ShowKeeps, SentAgainKeeps, ChoiceKeeps
        DEF PageStep

LEMMA StepPreserves == IInv /\ [Next]_vars => IInv'
<1> SUFFICES ASSUME IInv, [Next]_vars PROVE IInv'
    OBVIOUS
<1>1. CASE HttpNext /\ UNCHANGED page
    BY <1>1, HttpNextKeeps
<1>2. ASSUME NEW p \in Pages, PageStep(p) PROVE IInv'
    BY <1>2, PageStepKeeps
<1>3. CASE UNCHANGED vars
    <2>1. UNCHANGED playerVars /\ UNCHANGED request /\ UNCHANGED page
        BY <1>3 DEF vars, httpVars
    <2>2. PlayerTypeOK' /\ PlayerMovesOn
        BY <2>1, PlayerRests
    <2>3. /\ request' \in [Requests -> RequestRecords]
          /\ \A r \in Requests : KeepsItsAnswer(r)
          /\ \A p \in Pages : Buttons(p)' \subseteq Buttons(p)
        BY <2>1, TypesOfInv DEF KeepsItsAnswer, Buttons, Waiting
    <2>4. RequestsMoveOn
        BY <2>1, <2>3 DEF RequestsMoveOn, IInv, AnswersInv
    <2> QED BY <2>1, <2>2, <2>3, <2>4, BehindThePages
<1> QED BY <1>1, <1>2, <1>3 DEF Next

THEOREM Invariance == Spec => []IInv
BY InitEstablishes, StepPreserves, PTL DEF Spec

\* However many clients ask, whatever is lost or sent twice, and however often the
\* player is started again: a uuid and a play_seq_id name one play.
THEOREM PairsNameOnePlay == Spec => []PlaysAreIdentified
<1>1. IInv => PlaysAreIdentified
    BY DEF IInv
<1> QED BY <1>1, Invariance, PTL

\* An answer of the controller tells what is heard until its number is outdated.
THEOREM AnswersHoldUntilOutdated == Spec => []AnswerHolds
<1>1. IInv => AnswerHolds
    BY DEF IInv
<1> QED BY <1>1, Invariance, PTL

\* A user who waits for each answer never sees the numbers of the player go back.
THEOREM PatienceIsRewarded == Spec => PatientUserSeesOrder
<1> DEFINE InOrder(p) ==
        /\ page'[p].patient
        /\ page[p].responseText \in Answers /\ page'[p].responseText \in Answers
        => NotAfter(page[p].responseText, page'[p].responseText)
<1>1. IInv /\ [Next]_vars => [\A p \in Pages : InOrder(p)]_page
    <2> SUFFICES ASSUME IInv, [Next]_vars PROVE [\A p \in Pages : InOrder(p)]_page
        OBVIOUS
    <2>1. ASSUME NEW p \in Pages,
                 \/ page'[p].responseText = page[p].responseText
                 \/ page'[p].responseText \notin Answers
          PROVE  InOrder(p)
        <3>1. ASSUME page[p].responseText \in Answers
              PROVE  /\ page[p].responseText.uuid \in Int
                     /\ page[p].responseText.play_seq_id \in Int
            BY <3>1, BoundsAssumption DEF Answers
        <3> QED BY <2>1, <3>1 DEF NotAfter
    <2>2. CASE UNCHANGED page
        BY <2>2
    <2>3. ASSUME NEW p \in Pages, NEW r \in Requests, BootstrapModule(p, r),
                 NEW any \in Pages
          PROVE  InOrder(any)
        <3>1. page' = [page EXCEPT ![p] = NewComponent(TRUE)]
            BY <2>3 DEF BootstrapModule, AppModule
        <3>2. page'[any].responseText \in {page[any].responseText, NoText}
            BY <3>1, TypesOfInv DEF NewComponent
        <3> QED BY <2>1, <3>2, TextsAssumption
    <2>4. ASSUME NEW p \in Pages, NEW r \in Requests, Show(p, r), NEW any \in Pages
          PROVE  InOrder(any)
        <3>1. page' = [page EXCEPT ![p].responseText = page'[p].responseText]
            BY <2>4, ShownText
        <3>2. CASE any # p
            <4>1. page'[any].responseText = page[any].responseText
                BY <3>1, <3>2, TypesOfInv
            <4> QED BY <2>1, <4>1
        <3>3. CASE any = p /\ page'[p].responseText = ProgressEvent
            BY <2>1, <3>3, TextsAssumption
        <3>4. CASE any = p /\ page'[p].responseText = request[r].answer
                           /\ request[r].served = "answered"
            <4> SUFFICES ASSUME page'[p].patient, page[p].responseText \in Answers
                         PROVE  NotAfter(page[p].responseText, request[r].answer)
                BY <3>4 DEF NotAfter
            <4>1. page[p].patient
                BY <3>1, TypesOfInv DEF AppComponent
            <4>2. r \in Buttons(p)
                BY <2>4, ShownText
            <4> QED BY <3>4, <4>1, <4>2 DEF IInv, PagesInv
        <3> QED BY <2>4, <3>2, <3>3, <3>4, ShownText
    <2>5. ASSUME NEW p \in Pages, NEW any \in Pages,
                 \/ \E r \in Requests : OnFiles(p, r) \/ Stop(p, r) \/ Play(p, r)
                 \/ \E id \in Songs : OnActivate(p, id)
                 \/ \E text \in Typed : OnInput(p, text)
          PROVE  InOrder(any)
        <3>1. page'[any].responseText = page[any].responseText
            BY <2>5, TypesOfInv DEF OnFiles, Stop, Play, Click, OnActivate, OnInput,
                                    AppComponent
        <3> QED BY <2>1, <3>1
    <2>6. ASSUME NEW p \in Pages, PageStep(p)
          PROVE  (\A any \in Pages : InOrder(any)) \/ UNCHANGED page
        BY <2>3, <2>4, <2>5, <2>6 DEF PageStep, SentAgain
    <2> QED BY <2>2, <2>6 DEF Next, vars
<1>2. Spec => [][\A p \in Pages : InOrder(p)]_page
    BY <1>1, Invariance, PTL DEF Spec
<1> QED BY <1>2 DEF PatientUserSeesOrder

-----------------------------------------------------------------------------
(* File ids, for paths of any length and any wav directory.                 *)

NamesIn(path) == Cardinality(NamesUpTo(path, Len(path)))

LEMMA NamesAreCounted ==
    ASSUME NEW path, NEW last \in Int
    PROVE  /\ IsFiniteSet(NamesUpTo(path, last))
           /\ Cardinality(NamesUpTo(path, last)) \in Nat
<1>1. IsFiniteSet(1..last)
    BY FS_Interval
<1>2. NamesUpTo(path, last) \in SUBSET (1..last)
    BY DEF NamesUpTo
<1> QED BY <1>1, <1>2, FS_Subset, FS_CardinalityType

\* The names of a concatenation are those of its first part, and behind them those of
\* its second part.
LEMMA NamesOfConcat ==
    ASSUME NEW left \in Seq(Parts), NEW right \in Seq(Parts)
    PROVE  /\ \A i \in 1..Len(left) : NamesUpTo(left \o right, i) = NamesUpTo(left, i)
           /\ \A i \in 1..Len(right) :
                 Cardinality(NamesUpTo(left \o right, Len(left) + i)) =
                     NamesIn(left) + Cardinality(NamesUpTo(right, i))
<1> DEFINE path == left \o right
           n == Len(left)
<1>1. /\ n \in Nat /\ Len(right) \in Nat
      /\ \A i \in 1..n + Len(right) :
            path[i] = IF i <= n THEN left[i] ELSE right[i - n]
    BY ConcatProperties, LenProperties
<1> HIDE DEF path, n
<1>2. \A i \in 1..n : NamesUpTo(path, i) = NamesUpTo(left, i)
    BY <1>1 DEF NamesUpTo
<1>3. ASSUME NEW last \in 1..Len(right)
      PROVE  Cardinality(NamesUpTo(path, n + last)) =
                 Cardinality(NamesUpTo(left, n)) + Cardinality(NamesUpTo(right, last))
    <2> DEFINE L == NamesUpTo(left, n)
               R == NamesUpTo(right, last)
               Moved == {n + j : j \in R}
    <2>1. NamesUpTo(path, n + last) = L \cup Moved
        <3>1. ASSUME NEW i \in 1..n PROVE i \in NamesUpTo(path, n + last) <=> i \in L \cup Moved
            BY <1>1, <3>1 DEF NamesUpTo
        <3>2. ASSUME NEW i \in n + 1..n + last
              PROVE  i \in NamesUpTo(path, n + last) <=> i \in L \cup Moved
            <4>1. i - n \in 1..last /\ path[i] = right[i - n] /\ i \in 1..n + last /\ i \notin 1..n
                BY <1>1
            <4>2. i \in NamesUpTo(path, n + last) <=> i - n \in R
                BY <4>1 DEF NamesUpTo
            <4>3. i \in Moved <=> i - n \in R
                BY <1>1, <4>1 DEF NamesUpTo
            <4> QED BY <4>1, <4>2, <4>3 DEF NamesUpTo
        <3>3. NamesUpTo(path, n + last) \subseteq (1..n) \cup (n + 1..n + last)
            BY <1>1 DEF NamesUpTo
        <3>4. L \cup Moved \subseteq (1..n) \cup (n + 1..n + last)
            BY <1>1 DEF NamesUpTo
        <3> QED BY <3>1, <3>2, <3>3, <3>4
    <2>2. L \cap Moved = {}
        BY <1>1 DEF NamesUpTo
    <2>3. IsFiniteSet(L) /\ IsFiniteSet(R) /\ Cardinality(L) \in Nat /\ Cardinality(R) \in Nat
        BY <1>1, NamesAreCounted
    <2>4. IsFiniteSet(Moved) /\ Cardinality(Moved) = Cardinality(R)
        <3>1. [j \in R |-> n + j] \in Bijection(R, Moved)
            BY <1>1 DEF NamesUpTo, Bijection, Injection, Surjection, IsInjective
        <3>2. ExistsBijection(R, Moved)
            BY <3>1 DEF ExistsBijection
        <3> QED BY <2>3, <3>2, FS_Bijection
    <2> HIDE DEF L, R, Moved
    <2>5. Cardinality(L \cup Moved) = Cardinality(L) + Cardinality(Moved) - Cardinality(L \cap Moved)
        BY <2>3, <2>4, FS_Union
    <2>6. Cardinality(L \cap Moved) = 0
        BY <2>2, FS_EmptySet
    <2>7. Cardinality(L \cup Moved) = Cardinality(L) + Cardinality(R)
        BY <2>3, <2>4, <2>5, <2>6
    <2> QED BY <2>1, <2>7 DEF L, R
<1> QED BY <1>2, <1>3 DEF path, n, NamesIn

\* So a canonical path goes on behind its directory.
LEMMA CanonicalOfConcat ==
    ASSUME NEW left \in Seq(Parts), NEW right \in Seq(Parts)
    PROVE  /\ Canonical(left \o right) =
                  Canonical(left) \cup
                      {<<NamesIn(left) + c[1], c[2]>> : c \in Canonical(right)}
           /\ \A c \in Canonical(left) : c[1] <= NamesIn(left)
<1> DEFINE path == left \o right
           n == Len(left)
           Behind == {<<NamesIn(left) + c[1], c[2]>> : c \in Canonical(right)}
<1>1. /\ n \in Nat /\ Len(right) \in Nat /\ Len(path) = n + Len(right)
      /\ \A i \in 1..n + Len(right) :
            path[i] = IF i <= n THEN left[i] ELSE right[i - n]
    BY ConcatProperties, LenProperties
<1>2. /\ \A i \in 1..n : NamesUpTo(path, i) = NamesUpTo(left, i)
      /\ \A i \in 1..Len(right) :
            Cardinality(NamesUpTo(path, n + i)) =
                NamesIn(left) + Cardinality(NamesUpTo(right, i))
    BY NamesOfConcat
<1> HIDE DEF path, n
<1>3. Canonical(path) \subseteq Canonical(left) \cup Behind
    <2> SUFFICES ASSUME NEW i \in 1..n + Len(right), path[i] # Slash
                 PROVE  <<Cardinality(NamesUpTo(path, i)), path[i]>>
                            \in Canonical(left) \cup Behind
        BY <1>1 DEF Canonical, NamesUpTo
    <2>1. CASE i <= n
        <3>1. i \in NamesUpTo(left, n) /\ path[i] = left[i]
            BY <1>1, <2>1 DEF NamesUpTo
        <3>2. NamesUpTo(path, i) = NamesUpTo(left, i)
            BY <1>1, <1>2, <2>1
        <3> QED BY <3>1, <3>2 DEF Canonical, n
    <2>2. CASE i > n
        <3> DEFINE j == i - n
        <3>1. j \in 1..Len(right) /\ path[i] = right[j] /\ i = n + j
            BY <1>1, <2>2
        <3>2. j \in NamesUpTo(right, Len(right))
            BY <3>1 DEF NamesUpTo
        <3>3. <<Cardinality(NamesUpTo(right, j)), right[j]>> \in Canonical(right)
            BY <3>2 DEF Canonical
        <3>4. Cardinality(NamesUpTo(path, i)) = NamesIn(left) + Cardinality(NamesUpTo(right, j))
            BY <1>2, <3>1
        <3> HIDE DEF j
        <3> QED BY <3>1, <3>3, <3>4
    <2> QED BY <1>1, <2>1, <2>2
<1>4. Canonical(left) \subseteq Canonical(path)
    <2> SUFFICES ASSUME NEW i \in NamesUpTo(left, n)
                 PROVE  <<Cardinality(NamesUpTo(left, i)), left[i]>> \in Canonical(path)
        BY DEF Canonical, n
    <2>1. i \in NamesUpTo(path, Len(path)) /\ path[i] = left[i]
        BY <1>1 DEF NamesUpTo
    <2>2. NamesUpTo(path, i) = NamesUpTo(left, i)
        BY <1>2 DEF NamesUpTo
    <2> QED BY <2>1, <2>2 DEF Canonical
<1>5. Behind \subseteq Canonical(path)
    <2> SUFFICES ASSUME NEW j \in NamesUpTo(right, Len(right))
                 PROVE  <<NamesIn(left) + Cardinality(NamesUpTo(right, j)), right[j]>>
                            \in Canonical(path)
        BY DEF Canonical
    <2>1. j \in 1..Len(right) /\ n + j \in NamesUpTo(path, Len(path)) /\ path[n + j] = right[j]
        BY <1>1 DEF NamesUpTo
    <2>2. Cardinality(NamesUpTo(path, n + j)) = NamesIn(left) + Cardinality(NamesUpTo(right, j))
        BY <1>2, <2>1
    <2> QED BY <2>1, <2>2 DEF Canonical
<1>6. ASSUME NEW i \in NamesUpTo(left, n)
      PROVE  Cardinality(NamesUpTo(left, i)) <= NamesIn(left)
    <2>1. NamesUpTo(left, i) \in SUBSET NamesUpTo(left, n)
        BY <1>1 DEF NamesUpTo
    <2>2. IsFiniteSet(NamesUpTo(left, n))
        BY <1>1, NamesAreCounted
    <2> QED BY <2>1, <2>2, FS_Subset DEF NamesIn, n
<1>7. \A c \in Canonical(left) : c[1] <= NamesIn(left)
    BY <1>6 DEF Canonical, n
<1> QED BY <1>3, <1>4, <1>5, <1>7 DEF path

LEMMA CanonicalPairs ==
    ASSUME NEW path \in Seq(Parts)
    PROVE  \A c \in Canonical(path) : c[1] \in Nat /\ c = <<c[1], c[2]>>
<1>1. ASSUME NEW i \in NamesUpTo(path, Len(path))
      PROVE  Cardinality(NamesUpTo(path, i)) \in Nat
    <2>1. i \in Int
        BY LenProperties DEF NamesUpTo
    <2> QED BY <2>1, NamesAreCounted
<1> QED BY <1>1 DEF Canonical

\* A second slash makes no difference.
LEMMA SlashesAreNoNames ==
    ASSUME NEW left \in Seq(Parts), NEW right \in Seq(Parts)
    PROVE  Canonical(left \o (<<Slash>> \o right)) = Canonical(left \o right)
<1>1. /\ <<Slash>> \in Seq(Parts) /\ Len(<<Slash>>) = 1 /\ <<Slash>>[1] = Slash
      /\ <<Slash>> \o right \in Seq(Parts)
    BY DEF Parts
<1>2. NamesUpTo(<<Slash>>, 1) = {}
    BY DEF NamesUpTo
<1>3. Canonical(<<Slash>>) = {} /\ NamesIn(<<Slash>>) = 0
    BY <1>1, <1>2, FS_EmptySet DEF Canonical, NamesIn
<1>4. Canonical(<<Slash>> \o right) = {<<0 + c[1], c[2]>> : c \in Canonical(right)}
    <2>1. Canonical(<<Slash>> \o right) =
              Canonical(<<Slash>>) \cup
                  {<<NamesIn(<<Slash>>) + c[1], c[2]>> : c \in Canonical(right)}
        BY <1>1, CanonicalOfConcat
    <2> QED BY <1>3, <2>1, Zenon
<1>5. \A c \in Canonical(right) : c = <<0 + c[1], c[2]>>
    BY CanonicalPairs
<1>6. Canonical(<<Slash>> \o right) = Canonical(right)
    BY <1>4, <1>5
<1> QED BY <1>1, <1>6, CanonicalOfConcat

\* In the path of a file names and slashes take turns.
LEMMA CanonicalOfFile ==
    ASSUME NEW file \in Files
    PROVE  Canonical(file) =
               {<<(i + 1) \div 2, file[i]>> : i \in {j \in 1..Len(file) : j % 2 = 1}}
<1> DEFINE Odd(last) == {j \in 1..last : j % 2 = 1}
<1>1. /\ Len(file) \in Nat
      /\ \A i \in 1..Len(file) : file[i] = Slash <=> i % 2 = 0
    BY FilesAssumption, LenProperties
<1>2. ASSUME NEW i \in Nat PROVE i % 2 = 0 \/ i % 2 = 1
    OBVIOUS
<1>3. \A last \in 1..Len(file) : NamesUpTo(file, last) = Odd(last)
    BY <1>1, <1>2 DEF NamesUpTo
<1>4. NamesUpTo(file, Len(file)) = Odd(Len(file))
    BY <1>1, <1>2 DEF NamesUpTo
<1>5. ASSUME NEW last \in Odd(Len(file))
      PROVE  Cardinality(NamesUpTo(file, last)) = (last + 1) \div 2
    <2> DEFINE count == (last + 1) \div 2
    <2>1. count \in Nat /\ last = 2 * count - 1
        BY <1>1
    <2>2. [k \in 1..count |-> 2 * k - 1] \in Bijection(1..count, Odd(last))
        <3> DEFINE f == [k \in 1..count |-> 2 * k - 1]
        <3> HIDE DEF count
        <3>1. f \in [1..count -> Odd(last)]
            BY <2>1
        <3>2. \A a, b \in 1..count : f[a] = f[b] => a = b
            BY <2>1
        <3>3. \A t \in Odd(last) : \E k \in 1..count : f[k] = t
            <4> TAKE t \in Odd(last)
            <4>1. (t + 1) \div 2 \in 1..count /\ 2 * ((t + 1) \div 2) - 1 = t
                BY <2>1
            <4> QED BY <4>1
        <3> QED BY <3>1, <3>2, <3>3 DEF Bijection, Injection, Surjection, IsInjective
    <2>3. Cardinality(1..count) = count /\ IsFiniteSet(1..count)
        BY <2>1, FS_Interval
    <2>4. Cardinality(Odd(last)) = count
        BY <2>2, <2>3, FS_Bijection DEF ExistsBijection
    <2> QED BY <1>3, <2>4
<1> QED BY <1>4, <1>5 DEF Canonical

\* Files with the same canonical path are the same file.
LEMMA CanonicalNamesFile ==
    ASSUME NEW directory \in Seq(Parts), NEW f \in Files, NEW g \in Files,
           Canonical(directory \o f) = Canonical(directory \o g)
    PROVE  f = g
<1> DEFINE n == NamesIn(directory)
           Odd(file) == {j \in 1..Len(file) : j % 2 = 1}
<1>1. /\ f \in Seq(Parts) /\ g \in Seq(Parts)
      /\ Len(f) \in Nat /\ Len(g) \in Nat
      /\ Len(f) % 2 = 1 /\ Len(g) % 2 = 1
      /\ n \in Nat
    BY FilesAssumption, LenProperties, NamesAreCounted DEF NamesIn
<1> HIDE DEF n
<1>2. ASSUME NEW x \in Files, NEW y \in Files,
             Canonical(directory \o x) = Canonical(directory \o y)
      PROVE  \A i \in Odd(x) : i \in Odd(y) /\ x[i] = y[i]
    <2> TAKE i \in Odd(x)
    <2> DEFINE rank == (i + 1) \div 2
    <2>1. x \in Seq(Parts) /\ y \in Seq(Parts) /\ Len(x) \in Nat /\ Len(y) \in Nat
        BY FilesAssumption, LenProperties
    <2>2. rank \in Nat /\ rank > 0 /\ i = 2 * rank - 1
        BY <2>1
    <2>3. <<rank, x[i]>> \in Canonical(x)
        BY CanonicalOfFile
    <2> HIDE DEF rank
    <2>4. <<n + rank, x[i]>> \in Canonical(directory \o x)
        BY <2>1, <2>3, CanonicalOfConcat DEF n
    <2>5. <<n + rank, x[i]>> \notin Canonical(directory)
        BY <1>1, <2>1, <2>2, CanonicalOfConcat DEF n
    <2>6. <<n + rank, x[i]>> \in {<<n + c[1], c[2]>> : c \in Canonical(y)}
        BY <1>2, <2>1, <2>4, <2>5, CanonicalOfConcat DEF n
    <2>7. PICK c \in Canonical(y) : <<n + rank, x[i]>> = <<n + c[1], c[2]>>
        BY <2>6
    <2>8. PICK j \in Odd(y) : c = <<(j + 1) \div 2, y[j]>>
        BY CanonicalOfFile
    <2>9. rank = (j + 1) \div 2 /\ x[i] = y[j]
        BY <1>1, <2>1, <2>2, <2>7, <2>8
    <2>10. i = j
        BY <2>1, <2>2, <2>9
    <2> QED BY <2>9, <2>10
<1>3. \A i \in Odd(f) : i \in Odd(g) /\ f[i] = g[i]
    BY <1>2
<1>4. \A i \in Odd(g) : i \in Odd(f)
    BY <1>2
<1>5. Len(f) = Len(g)
    <2>1. Len(f) \in Odd(f) /\ Len(g) \in Odd(g)
        BY <1>1
    <2> QED BY <1>1, <1>3, <1>4, <2>1
<1>6. \A i \in 1..Len(f) : f[i] = g[i]
    <2> TAKE i \in 1..Len(f)
    <2>1. CASE i % 2 = 1
        BY <1>3, <2>1
    <2>2. CASE i % 2 = 0
        BY <1>5, <2>2, FilesAssumption
    <2>3. i % 2 = 0 \/ i % 2 = 1
        BY <1>1
    <2> QED BY <2>1, <2>2, <2>3
<1> QED BY <1>1, <1>5, <1>6, SeqEqual

\* What stands behind the wav directory is what CutWavDir leaves.
LEMMA CutLeavesTheRest ==
    ASSUME NEW wav_dir \in Seq(Parts), NEW rest \in Seq(Parts)
    PROVE  CutWavDir(wav_dir \o rest, wav_dir) = rest
<1> DEFINE path == wav_dir \o rest
           first == Len(wav_dir) + 1
<1>1. /\ Len(wav_dir) \in Nat /\ Len(rest) \in Nat
      /\ path \in Seq(Parts)
      /\ Len(path) = Len(wav_dir) + Len(rest)
      /\ \A i \in 1..Len(wav_dir) + Len(rest) :
            path[i] = IF i <= Len(wav_dir) THEN wav_dir[i] ELSE rest[i - Len(wav_dir)]
    BY ConcatProperties, LenProperties
<1>2. \A i \in first..Len(path) : path[i] \in Parts
    BY <1>1, ElementOfSeq
<1>3. /\ SubSeq(path, first, Len(path)) \in Seq(Parts)
      /\ Len(SubSeq(path, first, Len(path))) =
            IF first <= Len(path) THEN Len(path) - first + 1 ELSE 0
      /\ \A i \in 1..Len(path) - first + 1 :
            SubSeq(path, first, Len(path))[i] = path[first + i - 1]
    <2> HIDE DEF path
    <2>1. first \in Int /\ Len(path) \in Int
        BY <1>1
    <2> QED BY <1>2, <2>1, SubSeqProperties
<1>4. Len(SubSeq(path, first, Len(path))) = Len(rest)
    BY <1>1, <1>3
<1>5. \A i \in 1..Len(rest) : SubSeq(path, first, Len(path))[i] = rest[i]
    <2> TAKE i \in 1..Len(rest)
    <2>1. SubSeq(path, first, Len(path))[i] = path[Len(wav_dir) + i]
        BY <1>1, <1>3
    <2>2. path[Len(wav_dir) + i] = rest[i]
        BY <1>1
    <2> QED BY <2>1, <2>2
<1>6. SubSeq(path, first, Len(path)) = rest
    BY <1>3, <1>4, <1>5, SeqEqual
<1> QED BY <1>6 DEF CutWavDir

LEMMA FileType ==
    ASSUME NEW file \in Files
    PROVE  file \in Seq(Parts) /\ file # <<>> /\ ~BeginsWithSlash(file)
<1>1. file \in Seq(Parts) /\ Len(file) \in Nat /\ Len(file) % 2 = 1
    BY FilesAssumption, LenProperties
<1>2. 1 \in 1..Len(file)
    BY <1>1
<1>3. file[1] # Slash
    BY <1>2, FilesAssumption
<1> QED BY <1>1, <1>3 DEF BeginsWithSlash

\* What QueryFiles cuts off: the slash stays with the id, unless the wav directory
\* brings one.
LEMMA IdOfFile ==
    ASSUME NEW wav_dir \in WavDirs, NEW file \in Files
    PROVE  FileId(wav_dir, file) = IF EndsWithSlash(wav_dir) THEN file
                                   ELSE <<Slash>> \o file
<1>1. /\ wav_dir \in Seq(Parts) /\ wav_dir # <<>>
      /\ file \in Seq(Parts) /\ ~BeginsWithSlash(file)
    BY WavDirsAssumption, FileType
<1>2. CASE EndsWithSlash(wav_dir)
    BY <1>1, <1>2, CutLeavesTheRest DEF FileId, Entry, Join
<1>3. CASE ~EndsWithSlash(wav_dir)
    <2>1. <<Slash>> \in Seq(Parts) /\ <<Slash>> \o file \in Seq(Parts)
        BY <1>1, ConcatProperties DEF Parts
    <2>2. Entry(wav_dir, file) = (wav_dir \o <<Slash>>) \o file
        BY <1>1, <1>3 DEF Entry, Join
    <2>3. Entry(wav_dir, file) = wav_dir \o (<<Slash>> \o file)
        BY <1>1, <2>1, <2>2, ConcatAssociative
    <2> QED BY <1>1, <1>3, <2>1, <2>3, CutLeavesTheRest DEF FileId
<1> QED BY <1>2, <1>3

\* A file id names the file that it was listed for, and no other one, whatever the
\* wav directory was called when it was listed and is called when it is played: so
\* each id that QueryFiles lists is found by NewSongRequest, also by a player that
\* was started again since.
THEOREM IdNamesItsFile ==
    ASSUME NEW wav_dir \in WavDirs, NEW other \in WavDirs, NEW file \in Files
    PROVE  FilesNamed(other, FileId(wav_dir, file)) = {file}
<1> DEFINE id == FileId(wav_dir, file)
           directory == IF EndsWithSlash(other) THEN other ELSE other \o <<Slash>>
<1>1. /\ other \in Seq(Parts) /\ other # <<>> /\ <<Slash>> \in Seq(Parts)
      /\ directory \in Seq(Parts)
      /\ Files \subseteq Seq(Parts)
    <2>1. other \in Seq(Parts) /\ other # <<>> /\ Files \subseteq Seq(Parts)
        BY WavDirsAssumption, FilesAssumption
    <2>2. <<Slash>> \in Seq(Parts)
        BY DEF Parts
    <2>3. other \o <<Slash>> \in Seq(Parts)
        BY <2>1, <2>2, ConcatProperties
    <2> QED BY <2>1, <2>2, <2>3
<1>2. \A any \in Files : Entry(other, any) = directory \o any
    BY <1>1, FileType DEF Entry, Join
<1>3. Canonical(Join(other, id)) = Canonical(directory \o file)
    <2>1. CASE id = file
        BY <1>2, <2>1 DEF Entry
    <2>2. CASE id = <<Slash>> \o file
        <3>1. BeginsWithSlash(id)
            <4>1. id # <<>> /\ id[1] = Slash
                BY <1>1, <2>2, LenProperties, ConcatProperties
            <4> QED BY <4>1 DEF BeginsWithSlash
        <3>2. Join(other, id) = other \o (<<Slash>> \o file)
            BY <2>2, <3>1 DEF Join
        <3>3. CASE EndsWithSlash(other)
            BY <1>1, <3>2, <3>3, SlashesAreNoNames
        <3>4. CASE ~EndsWithSlash(other)
            <4>1. other \o (<<Slash>> \o file) = (other \o <<Slash>>) \o file
                BY <1>1, ConcatAssociative
            <4> QED BY <3>2, <3>4, <4>1
        <3> QED BY <3>3, <3>4
    <2> QED BY <2>1, <2>2, IdOfFile
<1> HIDE DEF id, directory
<1>4. FilesNamed(other, id) =
          {any \in Files : Canonical(directory \o file) = Canonical(directory \o any)}
    BY <1>2, <1>3 DEF FilesNamed
<1>5. \A any \in Files :
          Canonical(directory \o file) = Canonical(directory \o any) => any = file
    BY <1>1, CanonicalNamesFile
<1>6. FilesNamed(other, id) = {file}
    BY <1>4, <1>5
<1> QED BY <1>6 DEF id

-----------------------------------------------------------------------------
(* The trees of the pages.                                                  *)

Listed == {QueryFiles(wav_dir) : wav_dir \in WavDirs}

\* The answer that a tree waits for is a list of the files, and the controller is
\* never asked for one.
AnswerIsListed(req) ==
    /\ req.awaited /\ req.what = "files" /\ req.served = "answered"
          => req.answer.files \in Listed
    /\ req.served = "serving" => req.what # "files"

TreesInv ==
    /\ \A p \in Pages : page[p].nodes \in Listed \cup {{}}
    /\ \A r \in Requests : AnswerIsListed(request[r])

LEMMA SettledIsListed ==
    ASSUME NEW req, AnswerIsListed(req)
    PROVE  AnswerIsListed(Settled(req))
<1>1. CASE req.served \in {"answered", "gone"} /\ ~req.awaited
    <2>1. Settled(req).awaited = FALSE /\ Settled(req).served = "answered"
        BY <1>1 DEF Settled, Unused, Request
    <2> QED BY <2>1 DEF AnswerIsListed
<1>2. CASE ~(req.served \in {"answered", "gone"} /\ ~req.awaited)
    <2>1. Settled(req) = req
        BY <1>2, Zenon DEF Settled
    <2> QED BY <2>1
<1> QED BY <1>1, <1>2

LEMMA ClosedIsListed ==
    ASSUME NEW req \in RequestRecords, AnswerIsListed(req)
    PROVE  AnswerIsListed(Closed(req))
<1> DEFINE left == [req EXCEPT !.awaited = FALSE]
<1>1. AnswerIsListed(left)
    BY DEF RequestRecords, AnswerIsListed
<1> QED BY <1>1, SettledIsListed DEF Closed

LEMMA SentIsListed ==
    ASSUME NEW by, NEW what, NEW body
    PROVE  AnswerIsListed(Sent(by, what, body))
BY DEF AnswerIsListed, Sent, Request

LEMMA BecomeIsListed ==
    ASSUME IInv, TreesInv, NEW r \in Requests, NEW req, AnswerIsListed(req),
           Become(r, req)
    PROVE  \A q \in Requests : AnswerIsListed(request'[q])
BY TypesOfInv, SettledIsListed DEF TreesInv, Become

\* Only the files manager answers a tree.
LEMMA ServerLists ==
    ASSUME IInv, TreesInv, NEW r \in Requests, ServerStep(r)
    PROVE  \A q \in Requests : AnswerIsListed(request'[q])
<1>1. request[r] \in RequestRecords /\ AnswerIsListed(request[r])
    BY TypesOfInv DEF TreesInv
<1>2. ASSUME NEW answer, Answered(r, answer),
             request[r].what = "files" => answer.files \in Listed
      PROVE  \A q \in Requests : AnswerIsListed(request'[q])
    <2> DEFINE req == [request[r] EXCEPT !.served = "answered", !.answer = answer]
    <2>1. req.what = request[r].what /\ req.served = "answered" /\ req.answer = answer
        BY <1>1 DEF RequestRecords
    <2>2. Become(r, req)
        BY <1>2 DEF Answered
    <2> HIDE DEF req
    <2> QED BY <1>2, <2>1, <2>2, BecomeIsListed DEF AnswerIsListed
<1>3. ASSUME NEW served \in {"serving", "gone"},
             Become(r, [request[r] EXCEPT !.served = served]),
             served = "serving" => request[r].what # "files"
      PROVE  \A q \in Requests : AnswerIsListed(request'[q])
    <2> DEFINE req == [request[r] EXCEPT !.served = served]
    <2>1. req.what = request[r].what /\ req.served = served
        BY <1>1 DEF RequestRecords
    <2> HIDE DEF req
    <2>2. Become(r, req)
        BY <1>3 DEF req
    <2> QED BY <1>3, <2>1, <2>2, BecomeIsListed DEF AnswerIsListed
<1>4. Serving(r) => request[r].what # "files"
    BY <1>1 DEF Serving, AnswerIsListed
<1>5. CASE OnGetAvailableFiles(r)
    <2>1. QueryFiles(wav_dir_) \in Listed
        BY TypesOfInv DEF PlayerTypeOK, Listed
    <2>2. Answer("files", 0, 0, QueryFiles(wav_dir_)).files = QueryFiles(wav_dir_)
        BY DEF Answer
    <2> QED BY <1>2, <1>5, <2>1, <2>2 DEF OnGetAvailableFiles
<1>6. CASE QueryFilesThrows(r)
    BY <1>3, <1>6 DEF QueryFilesThrows
<1>7. CASE OnPutCurrentSong(r)
    BY <1>3, <1>7 DEF OnPutCurrentSong
<1>8. CASE StopSong(r)
    BY <1>8 DEF StopSong, TreesInv
<1>9. CASE OnPutRefused(r)
    BY <1>2, <1>9 DEF OnPutRefused
<1>10. CASE StopPlayRequest(r)
    BY <1>2, <1>4, <1>10 DEF StopPlayRequest
<1>11. ASSUME NEW success \in BOOLEAN, NewSongRequest(r, success)
       PROVE  \A q \in Requests : AnswerIsListed(request'[q])
    BY <1>2, <1>4, <1>11 DEF NewSongRequest
<1> QED BY <1>5, <1>6, <1>7, <1>8, <1>9, <1>10, <1>11 DEF ServerStep

LEMMA HttpNextLists ==
    ASSUME IInv, TreesInv, HttpNext, UNCHANGED page
    PROVE  TreesInv'
<1>1. ASSUME NEW r \in Requests, NEW by \in Others, NEW body \in OtherBodies,
             OtherSends(r, by, body)
      PROVE  \A q \in Requests : AnswerIsListed(request'[q])
    <2>1. AnswerIsListed(Request(by, "other", body, "waiting", FALSE))
        BY DEF AnswerIsListed, Request
    <2> QED BY <1>1, <2>1, BecomeIsListed DEF OtherSends
<1>2. ASSUME NEW r \in Requests, NeverArrives(r)
      PROVE  \A q \in Requests : AnswerIsListed(request'[q])
    <2>1. AnswerIsListed([request[r] EXCEPT !.served = "gone"])
        BY TypesOfInv DEF AnswerIsListed, RequestRecords
    <2> QED BY <1>2, <2>1, BecomeIsListed DEF NeverArrives
<1>3. ASSUME GoesDown, NEW r \in Requests PROVE AnswerIsListed(request'[r])
    <2> DEFINE req == [request[r] EXCEPT !.served = "gone"]
    <2>1. AnswerIsListed(req)
        BY TypesOfInv DEF AnswerIsListed, RequestRecords
    <2>2. request'[r] = IF request[r].served \in {"waiting", "serving"}
                        THEN Settled(req) ELSE request[r]
        BY <1>3 DEF GoesDown
    <2> HIDE DEF req
    <2>3. AnswerIsListed(Settled(req)) /\ AnswerIsListed(request[r])
        BY <2>1, SettledIsListed DEF TreesInv
    <2> QED BY <2>2, <2>3, Zenon
<1>4. CASE SongEndsByItself \/ StartsAgain
    BY <1>4 DEF TreesInv, SongEndsByItself, StartsAgain
<1>5. \A q \in Requests : AnswerIsListed(request'[q])
    BY <1>1, <1>2, <1>3, <1>4, ServerLists DEF HttpNext, TreesInv
<1> QED BY <1>5 DEF TreesInv

\* A page takes its tree from an answer, and has none before that.
LEMMA PageStepLists ==
    ASSUME IInv, TreesInv, NEW p \in Pages, PageStep(p)
    PROVE  TreesInv'
<1>1. \A r \in Requests : request[r] \in RequestRecords /\ AnswerIsListed(request[r])
    BY TypesOfInv DEF TreesInv
<1>2. \A r \in Requests : AnswerIsListed(Closed(request[r]))
    BY <1>1, ClosedIsListed
<1>3. page[p] \in AppComponent /\ page \in [Pages -> AppComponent]
    BY TypesOfInv
<1>4. ASSUME NEW r \in Requests, BootstrapModule(p, r) PROVE TreesInv'
    <2>1. /\ page' = [page EXCEPT ![p] = NewComponent(TRUE)]
          /\ request' = [Aborted(p) EXCEPT ![r] = QueryFilesOf(p)]
        BY <1>4 DEF BootstrapModule, AppModule
    <2>2. AnswerIsListed(QueryFilesOf(p))
        BY SentIsListed DEF QueryFilesOf
    <2>3. \A q \in Requests : AnswerIsListed(Aborted(p)[q])
        BY <1>1, <1>2 DEF Aborted
    <2>4. \A q \in Requests : AnswerIsListed(request'[q])
        BY <2>1, <2>2, <2>3 DEF Aborted
    <2>5. NewComponent(TRUE).nodes = {}
        BY DEF NewComponent
    <2> QED BY <1>3, <2>1, <2>4, <2>5 DEF TreesInv
<1>5. ASSUME NEW r \in Requests, OnFiles(p, r) PROVE TreesInv'
    <2>1. \A q \in Requests : AnswerIsListed(request'[q])
        BY <1>2, <1>5, BecomeIsListed DEF OnFiles
    <2>2. CASE UNCHANGED page
        BY <2>1, <2>2 DEF TreesInv
    <2>3. CASE /\ Response(r, request[r].answer)
               /\ page' = [page EXCEPT ![p].nodes = request[r].answer.files]
        <3>1. request[r].served = "answered"
            BY <1>1, <2>3, TextsAssumption DEF Response, RequestRecords
        <3>2. request[r].awaited /\ request[r].what = "files"
            BY <1>5 DEF OnFiles, Waiting
        <3>3. request[r].answer.files \in Listed
            BY <1>1, <3>1, <3>2 DEF AnswerIsListed
        <3>4. /\ page'[p].nodes = request[r].answer.files
              /\ \A other \in Pages \ {p} : page'[other] = page[other]
            BY <1>3, <2>3 DEF AppComponent
        <3> QED BY <2>1, <3>3, <3>4 DEF TreesInv
    <2> QED BY <1>5, <2>2, <2>3 DEF OnFiles
<1>6. ASSUME \A other \in Pages : page'[other].nodes = page[other].nodes,
             \A q \in Requests : AnswerIsListed(request'[q])
      PROVE  TreesInv'
    BY <1>6 DEF TreesInv
<1>7. ASSUME NEW r \in Requests, Stop(p, r) \/ Play(p, r) PROVE TreesInv'
    <2>1. PICK what, body : Click(p, r, what, body)
        BY <1>7 DEF Stop, Play
    <2>2. \A other \in Pages : page'[other].nodes = page[other].nodes
        BY <1>3, <2>1 DEF Click, AppComponent
    <2>3. \A q \in Requests : AnswerIsListed(request'[q])
        BY <1>1, <2>1, SentIsListed, TypesOfInv DEF Click
    <2> QED BY <1>6, <2>2, <2>3
<1>8. ASSUME NEW r \in Requests, Show(p, r) PROVE TreesInv'
    <2>1. \A other \in Pages : page'[other].nodes = page[other].nodes
        BY <1>3, <1>8 DEF Show, AppComponent
    <2>2. \A q \in Requests : AnswerIsListed(request'[q])
        BY <1>2, <1>8, BecomeIsListed DEF Show
    <2> QED BY <1>6, <2>1, <2>2
<1>9. ASSUME NEW q \in Requests, NEW r \in Requests, SentAgain(p, q, r)
      PROVE  TreesInv'
    <2> DEFINE new == Sent(p, request[q].what, request[q].body)
    <2>1. AnswerIsListed(new)
        BY SentIsListed
    <2>2. request' = [request EXCEPT ![q] = Closed(@), ![r] = new] /\ UNCHANGED page
        BY <1>9 DEF SentAgain
    <2> HIDE DEF new
    <2>3. \A any \in Requests : request'[any] \in {request[any], Closed(request[any]), new}
        BY <2>2, TypesOfInv
    <2>4. \A any \in Requests : AnswerIsListed(request'[any])
        BY <1>1, <1>2, <2>1, <2>3
    <2> QED BY <1>6, <2>2, <2>4
<1>10. ASSUME (\E id \in Songs : OnActivate(p, id)) \/ (\E text \in Typed : OnInput(p, text))
       PROVE  TreesInv'
    <2>1. /\ \A other \in Pages : page'[other].nodes = page[other].nodes
          /\ UNCHANGED request
        BY <1>3, <1>10 DEF OnActivate, OnInput, httpVars, AppComponent
    <2> QED BY <1>1, <1>6, <2>1
<1> QED BY <1>4, <1>5, <1>7, <1>8, <1>9, <1>10 DEF PageStep

LEMMA TreesAreListed == Spec => []TreesInv
<1>1. Init => TreesInv
    BY DEF Init, HttpInit, Unused, Request, NewComponent, TreesInv, AnswerIsListed
<1>2. IInv /\ TreesInv /\ [Next]_vars => TreesInv'
    <2> SUFFICES ASSUME IInv, TreesInv, [Next]_vars PROVE TreesInv'
        OBVIOUS
    <2>1. CASE UNCHANGED vars
        BY <2>1 DEF vars, httpVars, TreesInv
    <2> QED BY <2>1, HttpNextLists, PageStepLists DEF Next
<1> QED BY <1>1, <1>2, Invariance, PTL DEF Spec

\* A tree that shows anything shows each file once, under a name that is of no other
\* file, also to a player that was started again and calls its wav directory another
\* way.
THEOREM TreesShowFiles == Spec => []EveryNodeIsAFile
<1>1. IInv /\ TreesInv => EveryNodeIsAFile
    <2> SUFFICES ASSUME IInv, NEW p \in Pages, page[p].nodes # {},
                        page[p].nodes \in Listed \cup {{}}
                 PROVE  /\ \A id \in page[p].nodes :
                               \E file \in Files : FilesNamed(wav_dir_, id) = {file}
                        /\ UNION {FilesNamed(wav_dir_, id) : id \in page[p].nodes} = Files
        BY DEF TreesInv, EveryNodeIsAFile
    <2>1. PICK listed \in WavDirs : page[p].nodes = QueryFiles(listed)
        BY DEF Listed
    <2>2. wav_dir_ \in WavDirs
        BY TypesOfInv DEF PlayerTypeOK
    <2>3. \A file \in Files : FilesNamed(wav_dir_, FileId(listed, file)) = {file}
        BY <2>2, IdNamesItsFile
    <2> QED BY <2>1, <2>3 DEF QueryFiles
<1> QED BY <1>1, Invariance, TreesAreListed, PTL

=============================================================================
