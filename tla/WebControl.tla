----------------------------- MODULE WebControl -----------------------------
(***************************************************************************)
(* The web page that controls the player, in any number of tabs, with the  *)
(* HTTP interface it talks to.  Each button sends a request of its own and *)
(* does not wait for the one before: answers and errors come back in any   *)
(* order.  A page may be loaded again at any time, and the browser may     *)
(* send a request again when its connection is gone.                       *)
(***************************************************************************)
EXTENDS HttpApi

CONSTANTS Typed,           \* what users type for a file
          NoText,          \* the response text of a new page, undefined
          ProgressEvent    \* what the error of a request without an answer holds

ASSUME TypedAssumption == Typed \subseteq Songs \cup {<<>>}
ASSUME SendersAssumption == Pages \cap Others = {} /\ NoOne \notin Pages
ASSUME TextsAssumption == NoText \notin Answers /\ ProgressEvent \notin Answers

VARIABLE page   \* the AppComponent of each tab

vars == <<httpVars, page>>

\* fileToPlay is undefined at first.  patient: since the page was loaded, no button
\* was pressed while another one still waited for its answer.
NewComponent(open) ==
    [open |-> open, nodes |-> {}, fileToPlay |-> Absent, responseText |-> NoText,
     patient |-> TRUE]

AppComponent ==
    [open : BOOLEAN, nodes : SUBSET Songs,
     fileToPlay : Songs \cup {<<>>, Absent},
     responseText : Answers \cup {NoText, ProgressEvent}, patient : BOOLEAN]

TypeOK == HttpTypeOK /\ page \in [Pages -> AppComponent]

Init == HttpInit /\ page = [p \in Pages |-> NewComponent(FALSE)]

-----------------------------------------------------------------------------
(* PlayerService.                                                           *)

\* What the page waits for: the subscriptions of its requests.
Waiting(p) == {r \in Requests : request[r].by = p /\ request[r].awaited}

\* JSON.stringify leaves out a field that is undefined.
PlayAudio(fileId) == Body(fileId)

\* {} means "stop".
StopAudio == Body(Absent)

QueryFilesOf(p) == Sent(p, "files", Body(Absent))

\* What a subscriber is given: the text of the answer, which catchError takes out of
\* one that is no success, or the event of the browser that tells that the connection
\* is gone.  That may happen at any time, whatever has become of the request.
Response(r, text) ==
    \/ request[r].served = "answered" /\ text = request[r].answer
    \/ text = ProgressEvent

-----------------------------------------------------------------------------
(* AppComponent, and the browser around it.                                 *)

\* The client stops waiting, because it was told or because it is no longer there.
Closed(req) == Settled([req EXCEPT !.awaited = FALSE])

Aborted(p) ==
    [r \in Requests |-> IF r \in Waiting(p) THEN Closed(request[r]) ELSE request[r]]

\* AppModule bootstraps a new AppComponent, and ngOnInit asks for the files.
AppModule(p, r) ==
    /\ page' = [page EXCEPT ![p] = NewComponent(TRUE)]
    /\ request' = [Aborted(p) EXCEPT ![r] = QueryFilesOf(p)]

\* The page is loaded from the player, for the first time or again.
BootstrapModule(p, r) ==
    /\ running
    /\ NextUnused(r)
    /\ AppModule(p, r)
    /\ UNCHANGED playerVars

\* The files have come, and replace what the tree shows.  When they do not come,
\* nobody handles the error, and the tree stays empty.
OnFiles(p, r) ==
    /\ request[r].what = "files" /\ r \in Waiting(p)
    /\ \/ /\ Response(r, request[r].answer)
          /\ page' = [page EXCEPT ![p].nodes = request[r].answer.files]
       \/ /\ Response(r, ProgressEvent)
          /\ UNCHANGED page
    /\ Become(r, Closed(request[r]))
    /\ UNCHANGED playerVars

\* A node of the tree becomes active.
OnActivate(p, id) ==
    /\ id \in page[p].nodes
    /\ page' = [page EXCEPT ![p].fileToPlay = id]
    /\ UNCHANGED httpVars

\* [(ngModel)] of the input field.
OnInput(p, text) ==
    /\ page[p].open
    /\ page' = [page EXCEPT ![p].fileToPlay = text]
    /\ UNCHANGED httpVars

\* A button is pressed.
Click(p, r, what, body) ==
    /\ page[p].open
    /\ NextUnused(r)
    /\ page' = [page EXCEPT ![p].patient =
                   @ /\ \A q \in Waiting(p) : request[q].what = "files"]
    /\ request' = [request EXCEPT ![r] = Sent(p, what, body)]
    /\ UNCHANGED playerVars

Stop(p, r) == Click(p, r, "stop", StopAudio)

Play(p, r) == Click(p, r, "play", PlayAudio(page[p].fileToPlay))

\* next and error of both buttons: the text is replaced by whatever has come.
Show(p, r) ==
    /\ request[r].what \in {"stop", "play"} /\ r \in Waiting(p)
    /\ \E text \in {request[r].answer, ProgressEvent} :
          /\ Response(r, text)
          /\ page' = [page EXCEPT ![p].responseText = text]
    /\ Become(r, Closed(request[r]))
    /\ UNCHANGED playerVars

\* The browser may send a GET or PUT again when its connection is gone, although the
\* first one may have been served, or will be.
SentAgain(p, q, r) ==
    /\ q \in Waiting(p)
    /\ NextUnused(r)
    /\ request' = [request EXCEPT
          ![q] = Closed(@), ![r] = Sent(p, request[q].what, request[q].body)]
    /\ UNCHANGED <<playerVars, page>>

\* An answer arrives; or the system notices that there will be none.
Told(r) ==
    /\ request[r].served \in {"answered", "gone"}
    /\ \E p \in Pages : OnFiles(p, r) \/ Show(p, r)

PageStep(p) ==
    \/ \E r \in Requests :
          \/ BootstrapModule(p, r)
          \/ OnFiles(p, r)
          \/ Stop(p, r)
          \/ Play(p, r)
          \/ Show(p, r)
          \/ \E q \in Requests : SentAgain(p, q, r)
    \/ \E id \in Songs : OnActivate(p, id)
    \/ \E text \in Typed : OnInput(p, text)

Next ==
    \/ HttpNext /\ UNCHANGED page
    \/ \E p \in Pages : PageStep(p)

Spec == Init /\ [][Next]_vars

\* The main thread of the player always comes back from a request, as the controller
\* is shown to do, and the system tells a page of its answers and lost connections.
\* Users, the network and the process have no fairness.
Fairness ==
    /\ WF_vars(\E r \in Requests : ServerStep(r) /\ UNCHANGED page)
    /\ WF_vars(\E r \in Requests : Told(r))

FairSpec == Spec /\ Fairness

-----------------------------------------------------------------------------
(* Properties.                                                              *)

\* Every click comes to an end: the page shows what has become of it, unless it was
\* loaded again or the browser sent the request again.
ClicksAreAnswered ==
    \A r \in Requests : request[r].awaited ~> ~request[r].awaited

NotAfter(a, b) ==
    a.uuid < b.uuid \/ (a.uuid = b.uuid /\ a.play_seq_id <= b.play_seq_id)

\* A user who waits for each answer never sees the player go back: the number of the
\* play that the page shows only grows within a run of the player, and no answer of an
\* earlier run follows one of a later run.  This holds whatever other pages and
\* clients do, and although requests that were lost or aborted may be served late.
PatientUserSeesOrder ==
    [][\A p \in Pages :
         /\ page'[p].patient
         /\ page[p].responseText \in Answers /\ page'[p].responseText \in Answers
         => NotAfter(page[p].responseText, page'[p].responseText)]_page

\* A tree that shows anything shows a node for each file, and each node is the name
\* of exactly one file, with and without a slash at the end of the wav directory, and
\* also when the player was started again since.  So none of them is empty, and Play
\* never stops the player when a node was chosen.
EveryNodeIsAFile ==
    \A p \in Pages : page[p].nodes # {} =>
        /\ \A id \in page[p].nodes :
              \E file \in Files : FilesNamed(wav_dir_, id) = {file}
        /\ UNION {FilesNamed(wav_dir_, id) : id \in page[p].nodes} = Files

-----------------------------------------------------------------------------
(* The inductive invariant behind what the players and the pages promise.   *)

Now == [uuid |-> uuid_, play_seq_id |-> play_seq_id]

\* What is waited for behind the Stop and Play buttons of a page.
Buttons(p) == {r \in Waiting(p) : request[r].what # "files"}

\* No answer is of a play to come; the controller never sees a body that is refused,
\* and no page sends one, so that its buttons are answered by the controller.
AnswersInv ==
    \A r \in Requests :
        /\ OfController(request[r].answer) => NotAfter(request[r].answer, Now)
        /\ request[r].served = "serving" => ~Invalid(request[r].body)
        /\ request[r].awaited =>
              /\ request[r].by \in Pages
              /\ ~Invalid(request[r].body)
              /\ request[r].served = "answered" /\ request[r].what # "files"
                    => OfController(request[r].answer)

\* Nor does a page show such an answer, and the one that a patient user waits for is
\* served after the one that the page shows.
PagesInv ==
    \A p \in Pages :
        /\ page[p].responseText \in Answers =>
              /\ OfController(page[p].responseText)
              /\ NotAfter(page[p].responseText, Now)
        /\ page[p].patient =>
              /\ \A q, r \in Buttons(p) : q = r
              /\ \A r \in Buttons(p) :
                    /\ request[r].served = "answered"
                    /\ page[p].responseText \in Answers
                    => NotAfter(page[p].responseText, request[r].answer)

IInv ==
    /\ TypeOK
    /\ PlaysAreIdentified
    /\ AnswerHolds
    /\ AnswersInv
    /\ PagesInv

=============================================================================
