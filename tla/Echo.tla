-------------------------------- MODULE Echo --------------------------------
(***************************************************************************)
(* The voice conversation (imprint/voice_api.py): windows connect to it,   *)
(* ask, stop, end it and go away; a runner answers the questions in order; *)
(* spoken questions are transcribed by a task each; one worker process     *)
(* hears and speaks. All of them are tasks of one event loop: an action is *)
(* what a task does from one await to the next.                            *)
(*                                                                         *)
(* A reply is its phases and the sentences it reads aloud, what is kept of *)
(* a settled question or an ended conversation is what is still read.      *)
(* Replays, the wake word, playback credit and Chat history are left out.  *)
(***************************************************************************)
EXTENDS Naturals, FiniteSets

CONSTANTS
  Leases,            \* an engine, this chat or another: what a window asks for
  QueueLimit,        \* QUEUE_LIMIT, the questions that may wait
  Sentences,         \* the sentences of a chat reply
  MaxTurns,          \* questions in all
  MaxConversations,  \* conversations in all
  MaxVisits,         \* connections in all
  MaxStops,          \* stops and ends the user asks for, in all
  MaxFaults          \* failures and failed sends, in all

ASSUME EchoAssumption ==
  /\ Leases \subseteq [engine : {"chat", "lfm"}, other : BOOLEAN]
  /\ {QueueLimit, MaxTurns, MaxConversations} \subseteq Nat \ {0}
  /\ {Sentences, MaxVisits, MaxStops, MaxFaults} \subseteq Nat

Turns == 1..MaxTurns  \* in the order in which they are asked

Conversations == 1..MaxConversations

None == 0

(* A connection is a window of its own, numbered in the order they come.   *)
Windows == 1..MaxVisits

VARIABLES
  conversation,  \* sessions.conversation
  conv,          \* the conversations
  turn,          \* the questions
  window,        \* what the handler of each window's socket does
  worker,        \* the worker's process: off, loading or on
  speech,        \* who holds sessions.speech, and how far its request is
  astray,        \* whether what is described at Astray happened
  count          \* how often what is bounded happened

vars == <<conversation, conv, turn, window, worker, speech, astray, count>>

NewConversation(engine) ==
  [socket |-> None, queue |-> {}, current |-> None, turns |-> {},
   runner |-> "off", answer |-> "none", said |-> 0,
   ended |-> FALSE, successor |-> <<>>, engine |-> engine]

NewTurn ==
  [conv |-> None, waited |-> FALSE, state |-> "none", flag |-> FALSE,
   heard |-> "none", tries |-> 0]

Away == [at |-> "off", conv |-> None, turn |-> None, spoken |-> FALSE]

Free == [by |-> "nobody", id |-> None, at |-> "none", cut |-> FALSE]

Counted == {"turns", "conversations", "visits", "stops", "faults"}

Tick(what) == count' = [count EXCEPT ![what] = @ + 1]

(* What the code does not provide for, and after which nobody may be left  *)
(* to stop the worker: a conversation ends while another window has it, a  *)
(* question arrives while the runner lets the worker go, a spoken question *)
(* is answered before its transcription starts.                            *)
Astray(happens) == astray' = (astray \/ happens)

UserActs == count["stops"] < MaxStops /\ Tick("stops")

Fault == count["faults"] < MaxFaults /\ Tick("faults")

(* A transcription that has not ended.                                     *)
Hearing == {"want", "held"}

Connecting == {"boot", "verify", "poll"}

(* sessions.claimed: a window is connecting, and it is not w.              *)
ClaimedBut(w) == \E v \in Windows \ {w} : window[v].at \in Connecting

Claimed == ClaimedBut(None)

Busy(c) == conv[c].current # None \/ conv[c].queue # {}

(* sessions.active: nobody else may connect.                               *)
Active ==
  \/ Claimed
  \/ conversation # None /\ conv[conversation].socket # None

TypeOK ==
  /\ conversation \in {None} \cup Conversations
  /\ \A c \in Conversations :
       /\ conv[c].socket \in {None} \cup Windows
       /\ conv[c].queue \in SUBSET Turns /\ Cardinality(conv[c].queue) <= QueueLimit
       /\ conv[c].current \in {None} \cup Turns /\ conv[c].turns \subseteq Turns
       /\ conv[c].runner \in
            {"off", "pick", "sending", "waiting", "switching", "releasing"}
       /\ conv[c].answer \in
            {"none", "begin", "think", "hung", "want", "speak", "save", "over"}
       /\ conv[c].engine \in {"chat", "lfm"}
  /\ \A t \in Turns :
       /\ turn[t].state \in {"none", "refused", "queued", "running", "done",
                             "cancelled", "failed", "ignored"}
       /\ turn[t].heard \in Hearing \cup {"none", "said", "nothing", "raised"}
  /\ \A w \in Windows : window[w].at \in
       Connecting \cup {"off", "open", "intake"}
  /\ worker \in {"off", "loading", "on"}
  /\ speech.at \in {"none", "verify", "poll", "stream"}

Init ==
  /\ conversation = None
  /\ conv = [c \in Conversations |-> NewConversation("chat")]
  /\ turn = [t \in Turns |-> NewTurn]
  /\ window = [w \in Windows |-> Away]
  /\ worker = "off" /\ speech = Free
  /\ astray = FALSE
  /\ count = [what \in Counted |-> 0]

-----------------------------------------------------------------------------
(* The worker and the lock of its requests.                                *)

(* Worker.stop lets the process go, and the request it answers fails.      *)
Cut(held) == IF held.at = "stream" THEN [held EXCEPT !.cut = TRUE] ELSE held

StopWorker == worker' = "off" /\ speech' = Cut(speech)

Loads ==
  /\ worker = "loading"
  /\ worker' = "on"
  /\ UNCHANGED <<conversation, conv, turn, window, speech, astray, count>>

(* The lock is taken and Worker.stream begins with start: a process that   *)
(* still loads is asked at once and refuses.                               *)
Take(by, id) ==
  /\ speech = Free
  /\ speech' = [by |-> by, id |-> id, cut |-> worker = "loading",
                at |-> IF worker = "off" THEN "verify" ELSE "stream"]

HolderLaunches ==
  /\ speech.at = "verify"
  /\ worker' = "loading"
  /\ speech' = [speech EXCEPT !.at = "poll"]
  /\ UNCHANGED <<conversation, conv, turn, window, astray, count>>

HolderStreams ==
  /\ speech.at = "poll" /\ worker = "on"
  /\ speech' = [speech EXCEPT !.at = "stream"]
  /\ UNCHANGED <<conversation, conv, turn, window, worker, astray, count>>

(* Tasks are cancelled: the transcriptions of the turns in heard and, when *)
(* killing, the answer of c. One that holds the lock frees it, and stops   *)
(* the worker it was loading; stop says that the worker is stopped anyway. *)
Abandon(heard, c, killing, stop) ==
  LET gone == \/ speech.by = "listen" /\ speech.id \in heard
              \/ speech.by = "answer" /\ speech.id = c /\ killing
  IN /\ worker' = IF stop \/ (gone /\ speech.at = "poll") THEN "off" ELSE worker
     /\ speech' = IF gone THEN Free ELSE IF stop THEN Cut(speech) ELSE speech

-----------------------------------------------------------------------------
(* Stopping: Conversation.cancel and end. A cancelled task ends at its     *)
(* next step, and cancel, which awaits it, goes on before the runner does. *)

(* What cancel(identifier, keep) drops from the queue, and whether it      *)
(* stops the current turn; None names no turn.                             *)
Dropped(c, identifier, keep) ==
  {t \in conv[c].queue : t # keep /\ identifier \in {None, t}}

StopsCurrent(c, identifier, keep) ==
  /\ conv[c].current \notin {None, keep}
  /\ identifier \in {None, conv[c].current}

(* The current turn has a task that is not over.                           *)
Kills(c, identifier, keep) ==
  /\ StopsCurrent(c, identifier, keep)
  /\ conv[c].runner = "waiting" /\ conv[c].answer # "over"

StopsWorker(c, identifier, keep) ==
  /\ \/ identifier = None
     \/ Dropped(c, identifier, keep) # {} \/ StopsCurrent(c, identifier, keep)
  /\ conv[c].socket # None \/ ~Claimed

Stopped(c, identifier, keep, t) ==
  \/ t \in Dropped(c, identifier, keep)
  \/ StopsCurrent(c, identifier, keep) /\ t = conv[c].current

(* The transcriptions that are cancelled, one of them with the answer that *)
(* awaits it.                                                              *)
Silenced(c, identifier, keep) ==
  Dropped(c, identifier, keep) \cup
    (IF Kills(c, identifier, keep) /\ conv[c].answer = "begin"
     THEN {conv[c].current} ELSE {})

TurnsAfter(c, identifier, keep) ==
  [t \in Turns |->
    [turn[t] EXCEPT
       !.state = IF Stopped(c, identifier, keep, t) THEN "cancelled" ELSE @,
       !.flag = @ \/ Stopped(c, identifier, keep, t),
       !.heard = IF t \in Silenced(c, identifier, keep) THEN "none" ELSE @]]

ConvAfter(c, identifier, keep) ==
  [conv[c] EXCEPT
     !.queue = @ \ Dropped(c, identifier, keep),
     !.answer = IF Kills(c, identifier, keep) THEN "over" ELSE @]

Halted(record) == [record EXCEPT !.runner = "off"]

OfConversation(c) == {t \in Turns : turn[t].conv = c}

(* What is left of a conversation that ended.                              *)
Ended(socket) ==
  [NewConversation("chat") EXCEPT !.ended = TRUE, !.socket = socket]

(* end also cancels the runner and every transcription.                    *)
End(c) ==
  LET all == OfConversation(c)
  IN /\ conversation' = IF conversation = c THEN None ELSE conversation
     /\ conv' = [conv EXCEPT ![c] = Ended(conv[c].socket)]
     /\ turn' = [t \in Turns |->
          [TurnsAfter(c, None, None)[t] EXCEPT
             !.heard = IF t \in all THEN "none" ELSE @]]
     /\ Abandon(all, c, TRUE, StopsWorker(c, None, None))

-----------------------------------------------------------------------------
(* The runner: Conversation.run.                                           *)

(* Mutant: a reply that ends with no window there keeps the worker.        *)
LetGo_Keeps(c, record) ==
  conv' = [conv EXCEPT ![c] = Halted(record)] /\ UNCHANGED <<worker, speech>>

(* The worker is held only while a window or a question needs it.          *)
LetGo(c, record) ==
  IF record.socket = None /\ ~Claimed
  THEN /\ conv' = [conv EXCEPT ![c] = [record EXCEPT !.runner = "releasing"]]
       /\ StopWorker
  ELSE /\ conv' = [conv EXCEPT ![c] = Halted(record)]
       /\ UNCHANGED <<worker, speech>>

(* It takes the next question, or else the look chosen meanwhile, or else  *)
(* lets the worker go or returns.                                          *)
Advance(c, record, turns) ==
  \/ /\ record.ended
     /\ conv' = [conv EXCEPT ![c] = Halted(record)]
     /\ turn' = turns /\ UNCHANGED <<worker, speech>>
  \/ /\ ~record.ended /\ record.queue # {}
     /\ \E t \in record.queue :
          /\ \A q \in record.queue : t <= q
          /\ conv' = [conv EXCEPT ![c] =
               [record EXCEPT
                  !.queue = @ \ {t}, !.current = t, !.said = 0,
                  !.runner = IF turns[t].waited THEN "sending" ELSE "waiting",
                  !.answer = IF turns[t].waited THEN "none" ELSE "begin"]]
          /\ turn' = [turns EXCEPT ![t].state = "running", ![t].waited = FALSE]
     /\ UNCHANGED <<worker, speech>>
  \/ /\ ~record.ended /\ record.queue = {} /\ record.successor # <<>>
     /\ LET lease == record.successor[1]
        IN conv' = [conv EXCEPT ![c] =
             [record EXCEPT
                !.runner = "switching", !.successor = <<>>,
                !.engine = lease.engine,
                !.turns = IF lease.other THEN {} ELSE @]]
     /\ turn' = turns /\ UNCHANGED <<worker, speech>>
  \/ /\ ~record.ended /\ record.queue = {} /\ record.successor = <<>>
     /\ turn' = turns
     /\ LetGo(c, record)

RunnerStarts(c) ==
  /\ conv[c].runner = "pick"
  /\ Advance(c, conv[c], turn)
  /\ UNCHANGED <<conversation, window, astray, count>>

(* The window was told that a question that waited begins.                 *)
Sent(c) ==
  /\ conv[c].runner = "sending"
  /\ conv' = [conv EXCEPT ![c].runner = "waiting", ![c].answer = "begin"]
  /\ UNCHANGED <<conversation, turn, window, worker, speech, astray, count>>

Answered(c) ==
  /\ conv[c].runner = "waiting" /\ conv[c].answer = "over"
  /\ Advance(c, [conv[c] EXCEPT !.current = None, !.answer = "none"],
             [turn EXCEPT ![conv[c].current].state =
                IF @ = "running" THEN "done" ELSE @])
  /\ UNCHANGED <<conversation, window, astray, count>>

Switched(c) ==
  /\ conv[c].runner = "switching"
  /\ IF conv[c].queue # {} \/ conv[c].ended
     THEN Advance(c, conv[c], turn)
     ELSE LetGo(c, conv[c]) /\ UNCHANGED turn
  /\ UNCHANGED <<conversation, window, astray, count>>

(* Mutant: the queue is not looked at again.                               *)
Released_Returns(c) ==
  /\ conv[c].runner = "releasing"
  /\ conv' = [conv EXCEPT ![c] = Halted(@)]
  /\ UNCHANGED <<conversation, turn, window, worker, speech, astray, count>>

(* The worker is gone; a question taken in meanwhile is answered.          *)
Released(c) ==
  /\ conv[c].runner = "releasing"
  /\ IF conv[c].queue # {}
     THEN Advance(c, conv[c], turn)
     ELSE /\ conv' = [conv EXCEPT ![c] = Halted(@)]
          /\ UNCHANGED <<turn, worker, speech>>
  /\ UNCHANGED <<conversation, window, astray, count>>

-----------------------------------------------------------------------------
(* A reply: Conversation.answer and speak.                                 *)

Answering(c, phase) == conv[c].answer = phase

Phase(c, phase) == conv' = [conv EXCEPT ![c].answer = phase]

(* The question was heard, or typed. A chat that was stopped before it     *)
(* begins gives no event and no end.                                       *)
Begin(c) ==
  LET t == conv[c].current
  IN /\ Answering(c, "begin")
     /\ \/ /\ turn[t].heard \in {"none", "said"}
           /\ Phase(c, IF conv[c].engine = "chat" /\ turn[t].flag
                       THEN "hung" ELSE "think")
           /\ turn' = [turn EXCEPT ![t].heard = "none"]
        \/ /\ turn[t].heard = "nothing"
           /\ Phase(c, "over")
           /\ turn' = [turn EXCEPT ![t].heard = "none",
                                  ![t].state =
                                    IF @ = "running" THEN "ignored" ELSE @]
     /\ UNCHANGED <<conversation, window, worker, speech, astray, count>>

(* The next sentence, read aloud while a window is there, or the end of    *)
(* the reply. The small voice model speaks as it writes.                   *)
Think(c) ==
  /\ Answering(c, "think")
  /\ IF conv[c].engine = "lfm" /\ conv[c].said = 0 THEN Phase(c, "want")
     ELSE \/ /\ conv[c].engine = "chat" /\ conv[c].said < Sentences
             /\ conv' = [conv EXCEPT
                  ![c].answer = IF conv[c].socket = None THEN @ ELSE "want",
                  ![c].said = IF conv[c].socket = None THEN @ + 1 ELSE @]
          \/ Phase(c, IF turn[conv[c].current].flag THEN "over" ELSE "save")
  /\ UNCHANGED <<conversation, turn, window, worker, speech, astray, count>>

Want(c) ==
  /\ Answering(c, "want")
  /\ Take("answer", c)
  /\ Phase(c, "speak")
  /\ UNCHANGED <<conversation, turn, window, worker, astray, count>>

Spoken(c) ==
  /\ Answering(c, "speak")
  /\ speech.at = "stream" /\ ~speech.cut
  /\ speech' = Free
  /\ conv' = [conv EXCEPT ![c].answer = "think", ![c].said = @ + 1]
  /\ UNCHANGED <<conversation, turn, window, worker, astray, count>>

(* The exchange was saved in a thread.                                     *)
Saved(c) ==
  /\ Answering(c, "save")
  /\ turn' = [turn EXCEPT ![conv[c].current].state = "done"]
  /\ Phase(c, "over")
  /\ UNCHANGED <<conversation, window, worker, speech, astray, count>>

(* A reply fails with its question's transcription, with the worker's      *)
(* request, after a stop that came before it, or for a reason of its own.  *)
MustFail(c) ==
  LET t == conv[c].current
  IN \/ Answering(c, "begin") /\ turn[t].heard = "raised"
     \/ Answering(c, "hung")
     \/ /\ Answering(c, "speak")
        /\ speech.cut \/ (speech.at = "poll" /\ worker = "off")

MayFail(c) ==
  \/ Answering(c, "begin") /\ turn[conv[c].current].heard \in Hearing
  \/ Answering(c, "think") \/ Answering(c, "want")
  \/ Answering(c, "speak") /\ speech.at # "verify"

(* It stops the worker before it is over.                                  *)
Fails(c) ==
  LET t       == conv[c].current
      awaited == IF Answering(c, "begin") THEN {t} ELSE {}
  IN /\ \/ MustFail(c) /\ UNCHANGED count
        \/ ~MustFail(c) /\ MayFail(c) /\ Fault
     /\ turn' = [turn EXCEPT ![t].state = "failed",
                            ![t].heard = IF t \in awaited THEN "none" ELSE @]
     /\ Phase(c, "over")
     /\ Abandon(awaited, c, TRUE, TRUE)
     /\ UNCHANGED <<conversation, window, astray>>

-----------------------------------------------------------------------------
(* The transcription of a spoken question: Conversation.listen and decide. *)

(* What the task has come to, for the answer that awaits it.               *)
Listened(t, result, state) ==
  [turn[t] EXCEPT
     !.heard = IF conv[turn[t].conv].current = t \/ state = "queued"
               THEN result ELSE "none",
     !.tries = 0, !.state = state]

Listens(t) ==
  /\ turn[t].heard = "want"
  /\ IF turn[t].flag
     THEN /\ turn' = [turn EXCEPT ![t] = Listened(t, "nothing", @.state)]
          /\ speech = Free /\ UNCHANGED speech
     ELSE /\ turn' = [turn EXCEPT ![t].heard = "held"]
          /\ Take("listen", t)
  /\ UNCHANGED <<conversation, conv, window, worker, astray, count>>

Held(t) == turn[t].heard = "held" /\ speech.by = "listen" /\ speech.id = t

Recognized(t) == Held(t) /\ speech.at = "stream" /\ ~speech.cut

HearsQuestion(t) ==
  /\ Recognized(t)
  /\ turn' = [turn EXCEPT ![t] = Listened(t, "said", @.state)]
  /\ speech' = Free
  /\ UNCHANGED <<conversation, conv, window, worker, astray, count>>

(* drop: the question leaves the queue, and is not one.                    *)
HeardNothing(t, state) ==
  /\ turn' = [turn EXCEPT ![t] = Listened(t, "nothing", state)]
  /\ conv' = [conv EXCEPT ![turn[t].conv].queue = @ \ {t}]
  /\ speech' = Free

HearsNoise(t) ==
  /\ Recognized(t)
  /\ HeardNothing(t, "ignored")
  /\ UNCHANGED <<conversation, window, worker, astray, count>>

(* "Stop", said alone, cancels all but itself.                             *)
HearsStop(t) ==
  LET c == turn[t].conv
  IN /\ Recognized(t) /\ UserActs
     /\ turn' = [TurnsAfter(c, None, t) EXCEPT
                   ![t] = Listened(t, "nothing", "ignored")]
     /\ conv' = [conv EXCEPT ![c] =
                   [ConvAfter(c, None, t) EXCEPT !.queue = @ \ {t}]]
     /\ Abandon(Silenced(c, None, t) \cup {t}, c, Kills(c, None, t),
                StopsWorker(c, None, t))
     /\ UNCHANGED <<conversation, window, astray>>

(* A failed transcription is tried once more.                              *)
HearingFails(t) ==
  /\ Held(t)
  /\ speech.at = "stream" \/ (speech.at = "poll" /\ worker # "off")
  /\ IF speech.cut THEN UNCHANGED count ELSE Fault
  /\ worker' = IF speech.at = "poll" THEN "off" ELSE worker
  /\ \/ /\ turn[t].tries = 0 /\ ~turn[t].flag
        /\ turn' = [turn EXCEPT ![t].heard = "want", ![t].tries = 1]
        /\ speech' = Free /\ UNCHANGED conv
     \/ /\ turn[t].tries = 1 \/ turn[t].flag
        /\ HeardNothing(t, IF turn[t].flag THEN turn[t].state ELSE "failed")
  /\ UNCHANGED <<conversation, window, astray>>

(* The worker it loads is stopped: an error nobody expects.                *)
HearingBreaks(t) ==
  /\ Held(t) /\ speech.at = "poll" /\ worker = "off"
  /\ turn' = [turn EXCEPT ![t] = Listened(t, "raised", @.state)]
  /\ speech' = Free
  /\ UNCHANGED <<conversation, conv, window, worker, astray, count>>

-----------------------------------------------------------------------------
(* The windows: the handler of the websocket, POST /conversation/end.      *)

(* Worker.start finds a process, or sets out to launch one.                *)
Booting == IF worker = "off" THEN "verify" ELSE "boot"

(* Another handler has the conversation c too: one whose sends fail, or    *)
(* that connects to it meanwhile.                                          *)
Shared(c, w) == \E v \in Windows \ {w} : window[v].conv = c

(* A window that connects carries the conversation on, gives a busy one    *)
(* its own look or chat for later, or starts another.                      *)
Resumes(w, c, lease) ==
  /\ ~lease.other \/ Busy(c)
  /\ conv' = [conv EXCEPT
       ![c].engine = IF Busy(c) THEN @ ELSE lease.engine,
       ![c].successor = IF Busy(c) /\ (lease.other \/ lease.engine # conv[c].engine)
                        THEN <<lease>> ELSE @]
  /\ window' = [window EXCEPT ![w] = [Away EXCEPT !.at = Booting, !.conv = c]]
  /\ count' = [count EXCEPT !["visits"] = w]
  /\ UNCHANGED <<conversation, turn, worker, speech, astray>>

StartsAnother(w, c, lease) ==
  LET new == count["conversations"] + 1
  IN /\ c # None => lease.other /\ ~Busy(c)
     /\ new \in Conversations
     /\ conversation' = new
     /\ conv' = [d \in Conversations |->
          IF d = new THEN NewConversation(lease.engine)
          ELSE IF d = c THEN Ended(None) ELSE conv[d]]
     /\ turn' = [t \in Turns |->
          [turn[t] EXCEPT !.heard = IF t \in OfConversation(c) THEN "none" ELSE @]]
     /\ Abandon(OfConversation(c), c, FALSE, FALSE)
     /\ window' = [window EXCEPT ![w] = [Away EXCEPT !.at = Booting, !.conv = new]]
     /\ count' = [count EXCEPT !["visits"] = w, !["conversations"] = new]
     /\ Astray(c # None /\ Shared(c, w))

Connect(w, lease) ==
  /\ w = count["visits"] + 1 /\ ~Active
  /\ \/ conversation # None /\ Resumes(w, conversation, lease)
     \/ StartsAnother(w, conversation, lease)

(* Idle without a window for half an hour; a handler gives up after two    *)
(* minutes.                                                                *)
Forget ==
  /\ conversation # None /\ ~Active /\ ~Busy(conversation)
  /\ conv[conversation].runner = "off"
  /\ \A w \in Windows : window[w].conv # conversation
  /\ conversation' = None
  /\ UNCHANGED <<conv, turn, window, worker, speech, astray, count>>

Launch(w) ==
  /\ window[w].at = "verify"
  /\ worker' = "loading" /\ speech' = Cut(speech)
  /\ window' = [window EXCEPT ![w].at = "poll"]
  /\ UNCHANGED <<conversation, conv, turn, astray, count>>

(* The worker answers, or there was one.                                   *)
Attach(w) ==
  LET c == window[w].conv
  IN /\ \/ window[w].at = "boot"
        \/ window[w].at = "poll" /\ worker = "on"
     /\ window' = [window EXCEPT ![w].at = "open"]
     /\ conv' = [conv EXCEPT ![c].socket = w]
     /\ UNCHANGED <<conversation, turn, worker, speech, astray, count>>

(* Mutant: a busy conversation keeps the window that went away.            *)
Detached_OnlyIdle(c, w) ==
  IF conv[c].socket = w /\ ~Busy(c) THEN None ELSE conv[c].socket

(* detach: a window lets go of the conversation it holds.                  *)
Detached(c, w) == IF conv[c].socket = w THEN None ELSE conv[c].socket

(* Mutant: whether it is answering something does not matter.              *)
Unneeded_ThoughBusy(c, socket) == ~conv[c].ended /\ socket = None

(* Nobody holds the conversation and it has nothing to do.                 *)
Unneeded(c, socket) == ~conv[c].ended /\ socket = None /\ ~Busy(c)

(* The handler ends, while it connects or at its next message. Where       *)
(* nothing was asked there is nothing to come back to.                     *)
Leave(w) ==
  LET c      == window[w].conv
      socket == Detached(c, w)
      idle   == Unneeded(c, socket)
      unused == idle /\ \A t \in conv[c].turns : turn[t].state = "ignored"
  IN /\ window[w].at \in Connecting \cup {"open"}
     /\ window' = [window EXCEPT ![w] = Away]
     /\ conv' = IF conv[c].ended THEN conv
                ELSE [conv EXCEPT ![c].socket = socket, ![c].ended = unused]
     /\ conversation' = IF unused /\ conversation = c THEN None ELSE conversation
     /\ IF window[w].at = "poll" \/ (idle /\ ~ClaimedBut(w))
        THEN StopWorker ELSE UNCHANGED <<worker, speech>>
     /\ Astray(unused /\ Shared(c, w))
     /\ UNCHANGED <<turn, count>>

(* A send fails: the conversation goes on without the window, whose        *)
(* handler does not know it yet.                                           *)
SendFails(w) ==
  /\ window[w].at \in {"open", "intake"}
  /\ conv[window[w].conv].socket = w
  /\ Fault
  /\ conv' = [conv EXCEPT ![window[w].conv].socket = None]
  /\ UNCHANGED <<conversation, turn, window, worker, speech, astray>>

Started(record) == IF record.runner = "off" THEN "pick" ELSE record.runner

(* intake: the question waits, and its window is told so when another is   *)
(* ahead of it.                                                            *)
Ask(w, spoken) ==
  LET c == window[w].conv
      t == count["turns"] + 1
      atOnce == spoken /\ ~Busy(c)
  IN /\ window[w].at = "open" /\ t \in Turns
     /\ Tick("turns")
     /\ IF Cardinality(conv[c].queue) >= QueueLimit
        THEN /\ turn' = [turn EXCEPT ![t].state = "refused"]
             /\ UNCHANGED <<conv, window>>
        ELSE /\ turn' = [turn EXCEPT ![t] =
                  [NewTurn EXCEPT
                     !.conv = c, !.waited = Busy(c), !.state = "queued",
                     !.heard = IF atOnce THEN "want" ELSE "none"]]
             /\ conv' = [conv EXCEPT
                  ![c].queue = @ \cup {t}, ![c].turns = @ \cup {t},
                  ![c].runner = IF atOnce THEN Started(conv[c]) ELSE @]
             /\ window' = IF atOnce THEN window
                          ELSE [window EXCEPT ![w] =
                            [@ EXCEPT !.at = "intake", !.turn = t, !.spoken = spoken]]
     /\ Astray(conv[c].runner = "releasing")
     /\ UNCHANGED <<conversation, worker, speech>>

(* Its transcription and the runner start.                                 *)
TakeIn(w) ==
  LET c == window[w].conv
      t == window[w].turn
  IN /\ window[w].at = "intake"
     /\ turn' = [turn EXCEPT ![t].heard =
                   IF window[w].spoken THEN "want" ELSE @]
     /\ conv' = [conv EXCEPT ![c].runner = Started(conv[c])]
     /\ window' = [window EXCEPT ![w] = [Away EXCEPT !.at = "open", !.conv = c]]
     /\ Astray(window[w].spoken /\ turn[t].state # "queued")
     /\ UNCHANGED <<conversation, worker, speech, count>>

(* The user stops the reply and what waits, or just the turn named.        *)
Stop(w, identifier) ==
  LET c == window[w].conv
  IN /\ window[w].at = "open"
     /\ identifier # None => identifier \in conv[c].queue \cup {conv[c].current}
     /\ UserActs
     /\ turn' = TurnsAfter(c, identifier, None)
     /\ conv' = [conv EXCEPT ![c] = ConvAfter(c, identifier, None)]
     /\ Abandon(Silenced(c, identifier, None), c, Kills(c, identifier, None),
                StopsWorker(c, identifier, None))
     /\ UNCHANGED <<conversation, window, astray>>

(* The user ends the conversation from a window that holds it or did.      *)
EndFrom(w) ==
  LET c == window[w].conv
  IN /\ window[w].at = "open" /\ ~conv[c].ended
     /\ UserActs
     /\ End(c)
     /\ window' = [window EXCEPT ![w] = Away]
     /\ Astray(Shared(c, w))

EndFromOutside ==
  /\ conversation # None /\ ~Active
  /\ UserActs
  /\ End(conversation)
  /\ Astray(Shared(conversation, None))
  /\ UNCHANGED window

-----------------------------------------------------------------------------

RunnerStep(c) ==
  RunnerStarts(c) \/ Sent(c) \/ Answered(c) \/ Switched(c) \/ Released(c)

AnswerStep(c) ==
  \/ Begin(c) \/ Think(c) \/ Want(c) \/ Spoken(c) \/ Saved(c)
  \/ Fails(c)

ListenStep(t) ==
  \/ Listens(t) \/ HearsQuestion(t) \/ HearsNoise(t) \/ HearsStop(t)
  \/ HearingFails(t) \/ HearingBreaks(t)

WorkerStep == Loads \/ HolderLaunches \/ HolderStreams

WindowStep(w) ==
  \/ \E lease \in Leases : Connect(w, lease)
  \/ Launch(w) \/ Attach(w) \/ Leave(w) \/ SendFails(w) \/ TakeIn(w)
  \/ \E spoken \in BOOLEAN : Ask(w, spoken)
  \/ \E identifier \in {None} \cup Turns : Stop(w, identifier)
  \/ EndFrom(w)

Next ==
  \/ \E c \in Conversations : RunnerStep(c) \/ AnswerStep(c)
  \/ \E t \in Turns : ListenStep(t)
  \/ \E w \in Windows : WindowStep(w)
  \/ WorkerStep \/ Forget \/ EndFromOutside

Spec == Init /\ [][Next]_vars

(* The event loop runs every task that can go on, and a request of the     *)
(* worker ends. The user and the windows may do nothing.                   *)
Fairness ==
  /\ \A c \in Conversations : WF_vars(RunnerStep(c)) /\ WF_vars(AnswerStep(c))
  /\ \A t \in Turns : WF_vars(ListenStep(t))
  /\ WF_vars(WorkerStep)
  /\ \A w \in Windows : WF_vars(TakeIn(w))

FairSpec == Spec /\ Fairness

-----------------------------------------------------------------------------

(* A question the conversation owes an answer.                             *)
Waiting(t) ==
  turn[t].state \in {"queued", "running"} /\ ~conv[turn[t].conv].ended

(* A question runs until it is answered, stopped, ignored or failed        *)
(* (ADR 0145), whichever windows come and go: none is left in a queue      *)
(* whose runner has returned, or waits for a transcription, a lock or a    *)
(* worker that nobody serves. Only the end of its conversation drops it.   *)
QuestionsSettle == \A t \in Turns : Waiting(t) ~> ~Waiting(t)

Quiet ==
  /\ \A w \in Windows : window[w].at = "off"
  /\ \A c \in Conversations : conv[c].ended \/ ~Busy(c)
  /\ ~astray

(* The worker is held only while a window or a question needs it: when the *)
(* last window has gone and the last question is settled, one of those who *)
(* could stop it does. What Astray describes is excepted.                  *)
WorkerIsReleased == (worker # "off" /\ Quiet) ~> (worker = "off" \/ ~Quiet)

(* The question the holder of the lock uses the worker for.                *)
AskedFor == IF speech.by = "listen" THEN speech.id ELSE conv[speech.id].current

(* Closing a window only detaches it (ADR 0145): a handler that ends never *)
(* stops the worker under a question that is transcribed or answered,      *)
(* unless the user ended the conversation. One that ends while it waits    *)
(* for a worker it launched is excepted: the code stops that worker,       *)
(* whoever uses it by then.                                                *)
LeavingCutsNothing ==
  [][\A w \in Windows :
       /\ window[w].at \notin {"off", "poll"} /\ window'[w].at = "off"
       /\ ~speech.cut /\ speech'.cut
       => \/ ~Waiting(AskedFor)
          \/ count'["stops"] # count["stops"]]_vars

(* The window that holds the conversation, and keeps others from           *)
(* connecting, is one whose handler still runs and will let it go.         *)
NobodyIsLockedOut ==
  conversation # None =>
    LET w == conv[conversation].socket
    IN w # None => window[w].conv = conversation /\ window[w].at \notin Connecting

=============================================================================
