----------------------------- MODULE EchoProofs -----------------------------
(***************************************************************************)
(* What Echo guarantees for any number of windows, questions and           *)
(* conversations: first that nobody is locked out, then that a window that *)
(* leaves cuts nothing, which rests on where each question is.             *)
(***************************************************************************)
EXTENDS Echo, TLAPS

Fields == DOMAIN NewConversation("chat")

Places == Connecting \cup {"off", "open", "intake"}

(* What TypeOK says of the conversations' sockets and of the windows, and  *)
(* that each conversation has its fields.                                  *)
Shape ==
  /\ conversation \in {None} \cup Conversations
  /\ DOMAIN conv = Conversations
  /\ \A c \in Conversations :
       /\ DOMAIN conv[c] = Fields
       /\ conv[c].ended \in BOOLEAN /\ conv[c].socket \in {None} \cup Windows
  /\ window \in [Windows -> [at : Places, conv : {None} \cup Conversations,
                             turn : {None} \cup Turns, spoken : BOOLEAN]]

(* sessions.conversation is one that goes on: a window that leaves one     *)
(* that ended does not let go of its socket.                               *)
AliveInv == conversation # None => ~conv[conversation].ended

IInv == Shape /\ AliveInv /\ NobodyIsLockedOut

USE EchoAssumption

-----------------------------------------------------------------------------
(* A conversation's record that changed, but not in who holds it.          *)
Kin(record, c) ==
  /\ DOMAIN record = Fields
  /\ record.socket = conv[c].socket /\ record.ended = conv[c].ended

(* Nobody connects or leaves, and no conversation changes hands.           *)
Kept ==
  /\ conversation' = conversation /\ window' = window
  /\ DOMAIN conv' = Conversations
  /\ \A c \in Conversations : Kin(conv'[c], c)

LEMMA FieldsAre ==
  /\ Fields = {"socket", "queue", "current", "turns", "runner", "answer", "said",
               "ended", "successor", "engine"}
  /\ \A engine : DOMAIN NewConversation(engine) = Fields
  /\ \A engine : NewConversation(engine).socket = None
                 /\ NewConversation(engine).ended = FALSE
  BY DEF Fields, NewConversation

(* Where no conversation changes hands the invariant stays.                *)
LEMMA KeptInv == IInv /\ Kept => IInv'
  BY DEF IInv, Kept, Kin, Shape, AliveInv, NobodyIsLockedOut

(* What changes one conversation in other fields keeps it.                 *)
LEMMA OneKept ==
  ASSUME Shape, NEW c, NEW record, c \in Conversations => Kin(record, c),
         conv' = [conv EXCEPT ![c] = record], UNCHANGED <<conversation, window>>
  PROVE  Kept
<1>1. DOMAIN conv' = Conversations
  BY DEF Shape
<1>2. ASSUME NEW d \in Conversations
      PROVE  Kin(conv'[d], d)
  <2>1. CASE d = c
    BY <2>1 DEF Shape
  <2>2. CASE d # c
    BY <2>2 DEF Shape, Kin
  <2>3. QED
    BY <2>1, <2>2
<1>3. QED
  BY <1>1, <1>2 DEF Kept

LEMMA NoneKept ==
  ASSUME Shape, UNCHANGED <<conv, conversation, window>>
  PROVE  Kept
  BY DEF Shape, Kept, Kin

-----------------------------------------------------------------------------
(* The runner takes questions, switches and lets go, and never the window. *)
LEMMA AdvanceKept ==
  ASSUME Shape, NEW c \in Conversations, NEW record, Kin(record, c), NEW turns,
         Advance(c, record, turns), UNCHANGED <<conversation, window>>
  PROVE  Kept
<1>1. PICK other : conv' = [conv EXCEPT ![c] = other] /\ Kin(other, c)
  <2>1. Kin(Halted(record), c) /\ Kin([record EXCEPT !.runner = "releasing"], c)
    BY FieldsAre DEF Halted, Kin
  <2>2. CASE record.ended /\ conv' = [conv EXCEPT ![c] = Halted(record)]
    BY <2>1, <2>2
  <2>3. ASSUME NEW t, NEW runner, NEW answer,
               conv' = [conv EXCEPT ![c] =
                 [record EXCEPT !.queue = @ \ {t}, !.current = t, !.said = 0,
                                !.runner = runner, !.answer = answer]]
        PROVE  \E other : conv' = [conv EXCEPT ![c] = other] /\ Kin(other, c)
    <3>1. Kin([record EXCEPT !.queue = @ \ {t}, !.current = t, !.said = 0,
                             !.runner = runner, !.answer = answer], c)
      BY FieldsAre DEF Kin
    <3>2. QED
      BY <2>3, <3>1
  <2>4. ASSUME NEW engine, NEW chats,
               conv' = [conv EXCEPT ![c] =
                 [record EXCEPT !.runner = "switching", !.successor = <<>>,
                                !.engine = engine, !.turns = chats]]
        PROVE  \E other : conv' = [conv EXCEPT ![c] = other] /\ Kin(other, c)
    <3>1. Kin([record EXCEPT !.runner = "switching", !.successor = <<>>,
                             !.engine = engine, !.turns = chats], c)
      BY FieldsAre DEF Kin
    <3>2. QED
      BY <2>4, <3>1
  <2>5. CASE LetGo(c, record)
    BY <2>1, <2>5 DEF LetGo
  <2>6. CASE ~record.ended /\ record.queue # {}
    <3>1. PICK t : conv' = [conv EXCEPT ![c] =
                 [record EXCEPT
                    !.queue = @ \ {t}, !.current = t, !.said = 0,
                    !.runner = IF turns[t].waited THEN "sending" ELSE "waiting",
                    !.answer = IF turns[t].waited THEN "none" ELSE "begin"]]
      BY <2>6 DEF Advance
    <3>2. PICK runner, answer : conv' = [conv EXCEPT ![c] =
                 [record EXCEPT !.queue = @ \ {t}, !.current = t, !.said = 0,
                                !.runner = runner, !.answer = answer]]
      BY <3>1
    <3>3. QED
      BY <2>3, <3>2
  <2>7. CASE ~record.ended /\ record.queue = {} /\ record.successor # <<>>
    <3>1. PICK engine, chats : conv' = [conv EXCEPT ![c] =
                 [record EXCEPT !.runner = "switching", !.successor = <<>>,
                                !.engine = engine, !.turns = chats]]
      <4> DEFINE chats == IF record.successor[1].other THEN {} ELSE record.turns
      <4>1. conv' = [conv EXCEPT ![c] =
                 [record EXCEPT !.runner = "switching", !.successor = <<>>,
                                !.engine = record.successor[1].engine, !.turns = chats]]
        BY <2>7, FieldsAre DEF Advance, Kin
      <4>2. QED
        BY <4>1
    <3>2. QED
      BY <2>4, <3>1
  <2>8. QED
    BY <2>2, <2>5, <2>6, <2>7 DEF Advance
<1>2. QED
  BY <1>1, OneKept

LEMMA RunnerKept ==
  ASSUME Shape, NEW c \in Conversations, RunnerStep(c)
  PROVE  Kept
<1>1. Kin(conv[c], c) /\ Kin([conv[c] EXCEPT !.current = None, !.answer = "none"], c)
  BY FieldsAre DEF Shape, Kin
<1>2. CASE RunnerStarts(c)
  BY <1>1, <1>2, AdvanceKept DEF RunnerStarts
<1>3. CASE Sent(c)
  <2>1. Kin([conv[c] EXCEPT !.runner = "waiting", !.answer = "begin"], c)
    BY FieldsAre DEF Shape, Kin
  <2>2. conv' = [conv EXCEPT ![c] =
                  [conv[c] EXCEPT !.runner = "waiting", !.answer = "begin"]]
    BY <1>3 DEF Sent, Shape
  <2>3. QED
    BY <1>3, <2>1, <2>2, OneKept DEF Sent
<1>4. CASE Answered(c)
  BY <1>1, <1>4, AdvanceKept DEF Answered
<1>5. Kin([conv[c] EXCEPT !.runner = "off"], c)
      /\ Kin([conv[c] EXCEPT !.runner = "releasing"], c)
  BY FieldsAre DEF Shape, Kin
<1>6. CASE Switched(c)
  <2>1. CASE Advance(c, conv[c], turn)
    BY <1>1, <1>6, <2>1, AdvanceKept DEF Switched
  <2>2. CASE LetGo(c, conv[c])
    BY <1>5, <1>6, <2>2, OneKept DEF Switched, LetGo, Halted
  <2>3. QED
    BY <1>6, <2>1, <2>2 DEF Switched
<1>7. CASE Released(c)
  <2>1. CASE Advance(c, conv[c], turn)
    BY <1>1, <1>7, <2>1, AdvanceKept DEF Released
  <2>2. CASE conv' = [conv EXCEPT ![c] = Halted(@)]
    BY <1>5, <1>7, <2>2, OneKept DEF Released, Halted
  <2>3. QED
    BY <1>7, <2>1, <2>2 DEF Released
<1>8. QED
  BY <1>2, <1>3, <1>4, <1>6, <1>7 DEF RunnerStep

(* An answer goes from phase to phase.                                     *)
LEMMA AnswerKept ==
  ASSUME Shape, NEW c \in Conversations, AnswerStep(c)
  PROVE  Kept
<1>1. UNCHANGED <<conversation, window>>
  BY DEF AnswerStep, Begin, Think, Want, Spoken, Saved, Fails
<1>2. ASSUME NEW phase, Phase(c, phase)
      PROVE  Kept
  <2>1. Kin([conv[c] EXCEPT !.answer = phase], c)
    BY FieldsAre DEF Shape, Kin
  <2>2. QED
    BY <1>1, <1>2, <2>1, OneKept DEF Phase
<1>3. ASSUME NEW phase, NEW said,
             conv' = [conv EXCEPT ![c].answer = phase, ![c].said = said]
      PROVE  Kept
  <2>1. Kin([conv[c] EXCEPT !.answer = phase, !.said = said], c)
    BY FieldsAre DEF Shape, Kin
  <2>2. conv' = [conv EXCEPT ![c] = [conv[c] EXCEPT !.answer = phase, !.said = said]]
    BY <1>3 DEF Shape
  <2>3. QED
    BY <1>1, <2>1, <2>2, OneKept
<1>4. CASE Begin(c)
  BY <1>2, <1>4 DEF Begin
<1>5. CASE Think(c)
  <2>1. CASE \E phase : Phase(c, phase)
    BY <1>2, <2>1
  <2>2. CASE conv' = [conv EXCEPT
                  ![c].answer = IF conv[c].socket = None THEN @ ELSE "want",
                  ![c].said = IF conv[c].socket = None THEN @ + 1 ELSE @]
    <3>1. conv' = [conv EXCEPT
                  ![c].answer = IF conv[c].socket = None THEN conv[c].answer ELSE "want",
                  ![c].said = IF conv[c].socket = None THEN conv[c].said + 1
                              ELSE conv[c].said]
      BY <2>2, FieldsAre DEF Shape
    <3>2. QED
      BY <1>3, <3>1
  <2>3. QED
    BY <1>5, <2>1, <2>2 DEF Think
<1>6. CASE Spoken(c)
  <2>1. conv' = [conv EXCEPT ![c].answer = "think", ![c].said = conv[c].said + 1]
    BY <1>6, FieldsAre DEF Spoken, Shape
  <2>2. QED
    BY <1>3, <2>1
<1>7. CASE Want(c) \/ Saved(c) \/ Fails(c)
  BY <1>2, <1>7 DEF Want, Saved, Fails
<1>8. QED
  BY <1>4, <1>5, <1>6, <1>7 DEF AnswerStep

(* What a transcription drops or stops leaves the window its conversation. *)
LEMMA ListenKept ==
  ASSUME Shape, NEW t \in Turns, ListenStep(t)
  PROVE  Kept
<1>1. UNCHANGED <<conversation, window>>
  BY DEF ListenStep, Listens, HearsQuestion, HearsNoise, HearsStop, HearingFails,
         HearingBreaks
<1>2. ASSUME NEW c, NEW queue, conv' = [conv EXCEPT ![c].queue = queue]
      PROVE  Kept
  <2>1. c \in Conversations => Kin([conv[c] EXCEPT !.queue = queue], c)
    BY FieldsAre DEF Shape, Kin
  <2>2. QED
    BY <1>1, <1>2, <2>1, OneKept
<1>3. ASSUME NEW state, HeardNothing(t, state)
      PROVE  Kept
  <2>1. conv' = [conv EXCEPT ![turn[t].conv].queue = conv[turn[t].conv].queue \ {t}]
    BY <1>3 DEF HeardNothing
  <2>2. QED
    BY <1>2, <2>1
<1>4. CASE UNCHANGED conv
  BY <1>1, <1>4, NoneKept
<1>5. CASE HearsStop(t)
  <2> DEFINE c == turn[t].conv
             record == [ConvAfter(c, None, t) EXCEPT !.queue = @ \ {t}]
  <2>1. conv' = [conv EXCEPT ![c] = record]
    BY <1>5 DEF HearsStop
  <2>2. c \in Conversations => Kin(record, c)
    BY FieldsAre DEF Shape, Kin, ConvAfter
  <2>3. QED
    BY <1>1, <2>1, <2>2, OneKept
<1>6. QED
  BY <1>3, <1>4, <1>5 DEF ListenStep, Listens, HearsQuestion, HearsNoise, HearingFails,
                          HearingBreaks

-----------------------------------------------------------------------------
(* A window connects only while none holds the conversation, to the one    *)
(* there is or to a new one, which nobody holds yet.                       *)
LEMMA ConnectInv ==
  ASSUME IInv, NEW w \in Windows, NEW lease \in Leases, Connect(w, lease)
  PROVE  IInv'
<1>1. conversation # None => conv[conversation].socket = None
  BY DEF Connect, Active
<1>2. ASSUME NEW at \in Connecting, NEW c \in Conversations,
             window' = [window EXCEPT ![w] = [Away EXCEPT !.at = at, !.conv = c]]
      PROVE  window' \in [Windows -> [at : Places, conv : {None} \cup Conversations,
                                      turn : {None} \cup Turns, spoken : BOOLEAN]]
  <2>1. [Away EXCEPT !.at = at, !.conv = c] \in
          [at : Places, conv : {None} \cup Conversations,
           turn : {None} \cup Turns, spoken : BOOLEAN]
    BY DEF Away, Places
  <2>2. QED
    BY <1>2, <2>1 DEF IInv, Shape
<1>3. Booting \in Connecting
  BY DEF Booting, Connecting
<1>4. CASE conversation # None /\ Resumes(w, conversation, lease)
  <2>1. PICK engine, successor : conv' = [conv EXCEPT ![conversation] =
               [conv[conversation] EXCEPT !.engine = engine, !.successor = successor]]
    <3>1. conv' = [conv EXCEPT ![conversation] =
            [conv[conversation] EXCEPT
               !.engine = IF Busy(conversation) THEN @ ELSE lease.engine,
               !.successor = IF Busy(conversation)
                                /\ (lease.other \/ lease.engine # conv[conversation].engine)
                             THEN <<lease>> ELSE @]]
      BY <1>4, FieldsAre DEF Resumes, IInv, Shape
    <3>2. QED
      BY <3>1
  <2>2. Kin(conv'[conversation], conversation)
    BY <1>4, <2>1, FieldsAre DEF Kin, IInv, Shape
  <2>3. Shape' /\ AliveInv'
    BY <1>2, <1>3, <1>4, <2>1, <2>2 DEF Resumes, Connect, Kin, IInv, Shape, AliveInv
  <2>4. QED
    BY <1>1, <1>4, <2>2, <2>3 DEF Kin, Resumes, IInv, NobodyIsLockedOut
<1>5. CASE StartsAnother(w, conversation, lease)
  <2> DEFINE new == count["conversations"] + 1
  <2>1. /\ new \in Conversations /\ conversation' = new
        /\ conv' = [d \in Conversations |->
             IF d = new THEN NewConversation(lease.engine)
             ELSE IF d = conversation THEN Ended(None) ELSE conv[d]]
        /\ window' = [window EXCEPT ![w] = [Away EXCEPT !.at = Booting, !.conv = new]]
    BY <1>5 DEF StartsAnother
  <2> HIDE DEF new
  <2>2. DOMAIN Ended(None) = Fields /\ Ended(None).ended = TRUE /\ Ended(None).socket = None
    BY FieldsAre DEF Ended
  <2>3. /\ conv'[conversation'].socket = None /\ conv'[conversation'].ended = FALSE
        /\ DOMAIN conv'[conversation'] = Fields
    BY <2>1, FieldsAre
  <2>4. \A d \in Conversations :
          /\ DOMAIN conv'[d] = Fields
          /\ conv'[d].ended \in BOOLEAN /\ conv'[d].socket \in {None} \cup Windows
    BY <2>1, <2>2, <2>3 DEF IInv, Shape
  <2>5. Shape'
    BY <1>2, <1>3, <2>1, <2>4 DEF Shape
  <2>6. QED
    BY <2>3, <2>5 DEF IInv, AliveInv, NobodyIsLockedOut
<1>6. QED
  BY <1>4, <1>5 DEF Connect

(* A window that was answered holds its conversation, and does not connect *)
(* any more; one that still connects holds none.                           *)
LEMMA AttachInv ==
  ASSUME IInv, NEW w \in Windows, Launch(w) \/ Attach(w)
  PROVE  IInv'
<1>1. PICK at \in Places : /\ window' = [window EXCEPT ![w].at = at]
                           /\ at \in Connecting => UNCHANGED conv
                           /\ at \notin Connecting =>
                                conv' = [conv EXCEPT ![window[w].conv].socket = w]
  BY DEF Launch, Attach, Places, Connecting
<1>2. window[w].at \in Connecting /\ conversation' = conversation
  BY DEF Launch, Attach, Connecting
<1>3. Shape'
  <2>1. window' \in [Windows -> [at : Places, conv : {None} \cup Conversations,
                                 turn : {None} \cup Turns, spoken : BOOLEAN]]
    BY <1>1 DEF IInv, Shape
  <2>2. /\ DOMAIN conv' = Conversations
        /\ \A c \in Conversations :
             /\ DOMAIN conv'[c] = Fields /\ conv'[c].ended = conv[c].ended
             /\ conv'[c].socket \in {conv[c].socket, w}
    BY <1>1, FieldsAre DEF IInv, Shape
  <2>3. QED
    BY <1>2, <2>1, <2>2 DEF IInv, Shape
<1>4. AliveInv'
  BY <1>1, <1>2, FieldsAre DEF IInv, AliveInv, Shape
<1>5. NobodyIsLockedOut'
  <2> SUFFICES ASSUME conversation # None, conv'[conversation].socket # None
               PROVE  /\ window'[conv'[conversation].socket].conv = conversation
                      /\ window'[conv'[conversation].socket].at \notin Connecting
    BY <1>2 DEF NobodyIsLockedOut
  <2>1. CASE at \notin Connecting /\ window[w].conv = conversation
    <3>1. conv'[conversation].socket = w
      BY <1>1, <2>1, FieldsAre DEF IInv, Shape
    <3>2. QED
      BY <1>1, <2>1, <3>1 DEF IInv, Shape
  <2>2. CASE at \in Connecting \/ window[w].conv # conversation
    <3>1. conv'[conversation].socket = conv[conversation].socket
      BY <1>1, <2>2 DEF IInv, Shape
    <3>2. conv[conversation].socket # w
      BY <1>2, <3>1 DEF IInv, NobodyIsLockedOut
    <3>3. QED
      BY <1>1, <3>1, <3>2 DEF IInv, Shape, NobodyIsLockedOut
  <2>3. QED
    BY <2>1, <2>2
<1>6. QED
  BY <1>3, <1>4, <1>5 DEF IInv

(* A handler that ends lets go of its conversation: sessions.conversation  *)
(* is never one that ended, which it would leave alone.                    *)
LEMMA LeaveInv ==
  ASSUME IInv, NEW w \in Windows, Leave(w)
  PROVE  IInv'
<1> DEFINE c == window[w].conv
           unused == /\ Unneeded(c, Detached(c, w))
                     /\ \A t \in conv[c].turns : turn[t].state = "ignored"
<1>1. /\ window' = [window EXCEPT ![w] = Away]
      /\ conv' = IF conv[c].ended THEN conv
                 ELSE [conv EXCEPT ![c].socket = Detached(c, w), ![c].ended = unused]
      /\ conversation' = IF unused /\ conversation = c THEN None ELSE conversation
  BY DEF Leave
<1>2. unused \in BOOLEAN
  OBVIOUS
<1>3. Shape'
  <2>1. window' \in [Windows -> [at : Places, conv : {None} \cup Conversations,
                                 turn : {None} \cup Turns, spoken : BOOLEAN]]
    BY <1>1 DEF IInv, Shape, Away, Places
  <2> HIDE DEF unused
  <2>2. /\ DOMAIN conv' = Conversations
        /\ \A d \in Conversations :
             /\ DOMAIN conv'[d] = Fields
             /\ conv'[d].ended \in BOOLEAN /\ conv'[d].socket \in {None} \cup Windows
    BY <1>1, <1>2, FieldsAre DEF IInv, Shape, Detached
  <2>3. QED
    BY <1>1, <2>1, <2>2 DEF IInv, Shape
<1> HIDE DEF unused
<1>4. CASE conversation = None \/ (unused /\ conversation = c)
  BY <1>1, <1>3, <1>4 DEF IInv, AliveInv, NobodyIsLockedOut
<1>5. CASE conversation # None /\ ~unused /\ conversation = c
  <2>1. ~conv[c].ended /\ conversation' = c
    BY <1>1, <1>5 DEF IInv, AliveInv
  <2>2. conv'[c].socket = Detached(c, w) /\ conv'[c].ended = unused
    BY <1>1, <1>5, <2>1, FieldsAre DEF IInv, Shape
  <2>3. Detached(c, w) # None =>
          window[Detached(c, w)].conv = c /\ window[Detached(c, w)].at \notin Connecting
          /\ Detached(c, w) # w
    BY <1>5 DEF Detached, IInv, NobodyIsLockedOut
  <2>4. QED
    BY <1>1, <1>3, <1>5, <2>1, <2>2, <2>3 DEF IInv, Shape, AliveInv, NobodyIsLockedOut
<1>6. CASE conversation # None /\ conversation # c
  <2>1. conv'[conversation] = conv[conversation] /\ conversation' = conversation
    BY <1>1, <1>6 DEF IInv, Shape
  <2>2. conv[conversation].socket # None => conv[conversation].socket # w
    BY <1>6 DEF IInv, NobodyIsLockedOut
  <2>3. QED
    BY <1>1, <1>3, <1>6, <2>1, <2>2 DEF IInv, Shape, AliveInv, NobodyIsLockedOut
<1>7. QED
  BY <1>4, <1>5, <1>6

(* A failed send lets go of the conversation.                              *)
LEMMA SendFailsInv ==
  ASSUME IInv, NEW w \in Windows, SendFails(w)
  PROVE  IInv'
<1>1. /\ conv' = [conv EXCEPT ![window[w].conv].socket = None]
      /\ UNCHANGED <<conversation, window>>
  BY DEF SendFails
<1>2. /\ DOMAIN conv' = Conversations
      /\ \A c \in Conversations :
           /\ DOMAIN conv'[c] = Fields /\ conv'[c].ended = conv[c].ended
           /\ conv'[c].socket \in {None, conv[c].socket}
  BY <1>1, FieldsAre DEF IInv, Shape
<1>3. QED
  BY <1>1, <1>2 DEF IInv, Shape, AliveInv, NobodyIsLockedOut

(* A window that asks, takes in or stops holds what it held.               *)
LEMMA AskInv ==
  ASSUME IInv, NEW w \in Windows, NEW spoken \in BOOLEAN, Ask(w, spoken) \/ TakeIn(w)
  PROVE  IInv'
<1>1. conversation' = conversation /\ window[w].at \in {"open", "intake"}
  BY DEF Ask, TakeIn
<1>2. /\ DOMAIN conv' = Conversations
      /\ \A c \in Conversations : Kin(conv'[c], c)
  <2>1. CASE UNCHANGED conv
    BY <2>1 DEF IInv, Shape, Kin
  <2>2. ASSUME NEW c, NEW queue, NEW turns, NEW runner,
               conv' = [conv EXCEPT ![c] = [conv[c] EXCEPT
                          !.queue = queue, !.turns = turns, !.runner = runner]]
        PROVE  /\ DOMAIN conv' = Conversations
               /\ \A d \in Conversations : Kin(conv'[d], d)
    BY <2>2, FieldsAre DEF IInv, Shape, Kin
  <2>3. CASE TakeIn(w)
    BY <2>3, FieldsAre DEF TakeIn, IInv, Shape, Kin
  <2>4. CASE Ask(w, spoken) /\ conv' # conv
    <3> DEFINE c == window[w].conv
               t == count["turns"] + 1
    <3>1. conv' = [conv EXCEPT
                  ![c].queue = @ \cup {t}, ![c].turns = @ \cup {t},
                  ![c].runner = IF spoken /\ ~Busy(c) THEN Started(conv[c]) ELSE @]
      BY <2>4 DEF Ask
    <3>2. QED
      BY <3>1, FieldsAre DEF IInv, Shape, Kin
  <2>5. QED
    BY <2>1, <2>3, <2>4
<1>3. PICK record \in [at : {"open", "intake"}, conv : {window[w].conv},
                       turn : {None} \cup Turns, spoken : BOOLEAN] :
        window' = [window EXCEPT ![w] = record]
  <2>1. /\ window[w] \in [at : {"open", "intake"}, conv : {window[w].conv},
                          turn : {None} \cup Turns, spoken : BOOLEAN]
        /\ window = [window EXCEPT ![w] = window[w]]
    BY <1>1 DEF IInv, Shape
  <2>2. CASE UNCHANGED window
    BY <2>1, <2>2
  <2>3. CASE Ask(w, spoken) /\ window' # window
    <3>1. /\ window' = [window EXCEPT ![w] =
               [window[w] EXCEPT !.at = "intake", !.turn = count["turns"] + 1,
                                 !.spoken = spoken]]
          /\ count["turns"] + 1 \in Turns
      BY <2>3 DEF Ask
    <3>2. QED
      BY <2>1, <3>1
  <2>4. CASE TakeIn(w)
    BY <2>4 DEF TakeIn, Away
  <2>5. QED
    BY <2>2, <2>3, <2>4
<1>4. Shape'
  <2>1. window' \in [Windows -> [at : Places, conv : {None} \cup Conversations,
                                 turn : {None} \cup Turns, spoken : BOOLEAN]]
    BY <1>3 DEF IInv, Shape, Places
  <2>2. QED
    BY <1>1, <1>2, <2>1 DEF IInv, Shape, Kin
<1>5. \A v \in Windows : /\ window'[v].conv = window[v].conv
                         /\ window'[v].at \in Connecting => window[v].at \in Connecting
  BY <1>3 DEF IInv, Shape, Connecting
<1>6. NobodyIsLockedOut'
  BY <1>1, <1>2, <1>3, <1>5 DEF IInv, Shape, NobodyIsLockedOut, Kin, Connecting
<1>7. QED
  <2>1. AliveInv'
    BY <1>1, <1>2 DEF IInv, Shape, Kin, AliveInv
  <2>2. QED
    BY <1>4, <1>6, <2>1 DEF IInv

LEMMA StopInv ==
  ASSUME IInv, NEW w \in Windows, NEW identifier, Stop(w, identifier)
  PROVE  IInv'
<1> DEFINE c == window[w].conv
<1>1. conv' = [conv EXCEPT ![c] = ConvAfter(c, identifier, None)]
      /\ UNCHANGED <<conversation, window>>
  BY DEF Stop
<1>2. c \in Conversations => Kin(ConvAfter(c, identifier, None), c)
  BY FieldsAre DEF IInv, Shape, Kin, ConvAfter
<1>3. QED
  BY <1>1, <1>2, OneKept, KeptInv DEF IInv

(* A conversation that ends is not sessions.conversation any more.         *)
LEMMA EndInv ==
  ASSUME IInv, NEW c \in {None} \cup Conversations, End(c),
         \/ UNCHANGED window
         \/ \E w \in Windows : window[w].conv = c /\ window' = [window EXCEPT ![w] = Away]
  PROVE  IInv'
<1>1. /\ conversation' = IF conversation = c THEN None ELSE conversation
      /\ conv' = [conv EXCEPT ![c] = Ended(conv[c].socket)]
  BY DEF End
<1>2. /\ DOMAIN Ended(conv[c].socket) = Fields
      /\ Ended(conv[c].socket).ended = TRUE
      /\ Ended(conv[c].socket).socket = conv[c].socket
  BY FieldsAre DEF Ended
<1>3. window' \in [Windows -> [at : Places, conv : {None} \cup Conversations,
                               turn : {None} \cup Turns, spoken : BOOLEAN]]
  <2>1. Away \in [at : Places, conv : {None} \cup Conversations,
                  turn : {None} \cup Turns, spoken : BOOLEAN]
    BY DEF Away, Places
  <2>2. QED
    BY <2>1 DEF IInv, Shape
<1>4. Shape'
  BY <1>1, <1>2, <1>3 DEF IInv, Shape
<1>5. CASE conversation \in {None, c}
  BY <1>1, <1>4, <1>5 DEF IInv, AliveInv, NobodyIsLockedOut
<1>6. CASE conversation \notin {None, c}
  <2>1. conv'[conversation] = conv[conversation] /\ conversation' = conversation
    BY <1>1, <1>6 DEF IInv, Shape
  <2>2. conv[conversation].socket # None =>
          window'[conv[conversation].socket] = window[conv[conversation].socket]
    BY <1>6 DEF IInv, Shape, NobodyIsLockedOut
  <2>3. QED
    BY <1>4, <1>6, <2>1, <2>2 DEF IInv, AliveInv, NobodyIsLockedOut
<1>7. QED
  BY <1>5, <1>6

-----------------------------------------------------------------------------
LEMMA InitInv == Init => IInv
<1> SUFFICES ASSUME Init
             PROVE  IInv
  OBVIOUS
<1>1. Away \in [at : Places, conv : {None} \cup Conversations,
                turn : {None} \cup Turns, spoken : BOOLEAN]
  BY DEF Away, Places
<1>2. QED
  BY <1>1, FieldsAre DEF Init, IInv, Shape, AliveInv, NobodyIsLockedOut

LEMMA NextInv == IInv /\ [Next]_vars => IInv'
<1> SUFFICES ASSUME IInv, [Next]_vars
             PROVE  IInv'
  OBVIOUS
<1>1. CASE \E c \in Conversations : RunnerStep(c) \/ AnswerStep(c)
  BY <1>1, RunnerKept, AnswerKept, KeptInv DEF IInv
<1>2. CASE \E t \in Turns : ListenStep(t)
  BY <1>2, ListenKept, KeptInv DEF IInv
<1>3. ASSUME NEW w \in Windows, WindowStep(w)
      PROVE  IInv'
  <2>1. CASE EndFrom(w)
    <3>1. /\ End(window[w].conv) /\ window' = [window EXCEPT ![w] = Away]
          /\ window[w].conv \in {None} \cup Conversations
      BY <2>1 DEF EndFrom, IInv, Shape
    <3>2. QED
      BY <3>1, EndInv
  <2>2. QED
    BY <1>3, <2>1, ConnectInv, AttachInv, LeaveInv, SendFailsInv, AskInv, StopInv
    DEF WindowStep
<1>4. CASE WorkerStep \/ UNCHANGED vars
  BY <1>4, NoneKept, KeptInv DEF WorkerStep, Loads, HolderLaunches, HolderStreams, vars, IInv
<1>5. CASE Forget
  BY <1>5 DEF Forget, IInv, Shape, AliveInv, NobodyIsLockedOut
<1>6. CASE EndFromOutside
  BY <1>6, EndInv DEF EndFromOutside, IInv, Shape
<1>7. QED
  BY <1>1, <1>2, <1>3, <1>4, <1>5, <1>6 DEF Next

-----------------------------------------------------------------------------
(* While a window holds the conversation nobody else may connect: the one  *)
(* that holds it is always one whose handler is past connecting and still  *)
(* runs, so that its end, or a send that fails, lets go of it; however     *)
(* many windows come and go, end the conversation, or share it.            *)
THEOREM NobodyLockedOut == Spec => []NobodyIsLockedOut
<1>1. IInv => NobodyIsLockedOut
  BY DEF IInv
<1>2. QED
  BY <1>1, InitInv, NextInv, PTL DEF Spec

-----------------------------------------------------------------------------
(* Who still waits for an answer, and where *)

Record ==
  [conv : {None} \cup Conversations, waited : BOOLEAN,
   state : {"none", "refused", "queued", "running", "done", "cancelled", "failed",
            "ignored"},
   flag : BOOLEAN, heard : Hearing \cup {"none", "said", "nothing", "raised"},
   tries : {0, 1}]

Hold ==
  [by : {"nobody", "listen", "answer"}, id : Nat,
   at : {"none", "verify", "poll", "stream"}, cut : BOOLEAN]

(* What TypeOK says of the questions, the lock and the counts.             *)
TypesInv ==
  count \in [Counted -> Nat] /\ turn \in [Turns -> Record] /\ speech \in Hold

Unsettled(t) == turn[t].state \in {"queued", "running"}

Owes(c) == conv[c].queue \cup ({conv[c].current} \ {None})

(* What was not asked or started yet has left no trace.                    *)
FreshInv ==
  /\ conversation <= count["conversations"]
  /\ \A w \in Windows : window[w].conv <= count["conversations"]
  /\ \A t \in Turns : turn[t].conv <= count["conversations"]
  /\ \A c \in Conversations : c > count["conversations"] => ~Busy(c)

(* The runner has a question exactly while it tells the window of it or    *)
(* waits for its answer.                                                   *)
Staged(c) ==
  /\ conv[c].runner \in {"sending", "waiting"} <=> conv[c].current # None
  /\ conv[c].answer # "none" => conv[c].runner = "waiting"

StageInv == \A c \in Conversations : Staged(c)

(* What a conversation has to answer was asked of it; what waits was not   *)
(* stopped.                                                                *)
Placed(c) ==
  /\ \A t \in Owes(c) : t \in Turns /\ t <= count["turns"] /\ turn[t].conv = c
  /\ \A t \in conv[c].queue : ~turn[t].flag /\ t # conv[c].current
  /\ conv[c].current # None => turn[conv[c].current].state # "queued"

PlaceInv == \A c \in Conversations : Placed(c)

(* What was stopped is settled.                                            *)
FlagInv == \A t \in Turns : turn[t].flag => ~Unsettled(t)

(* An unsettled question is where the runner finds it.                     *)
OwedInv ==
  \A t \in Turns : Unsettled(t) =>
    turn[t].conv # None /\ (conv[turn[t].conv].ended \/ t \in Owes(turn[t].conv))

(* An answer has the lock only while it speaks.                            *)
HoldInv ==
  /\ speech.by = "nobody" => speech.at = "none"
  /\ speech.by = "listen" => speech.id \in Turns
  /\ speech.by = "answer" =>
       speech.id \in Conversations /\ conv[speech.id].answer = "speak"

(* Only sessions.conversation has anything to answer, and a handler has    *)
(* that one or one that ended.                                             *)
OneInv ==
  /\ \A c \in Conversations : Busy(c) /\ ~conv[c].ended => c = conversation
  /\ \A w \in Windows : window[w].at # "off" =>
       /\ window[w].conv # None
       /\ conv[window[w].conv].ended \/ window[w].conv = conversation

(* What is to be transcribed was asked of some conversation.               *)
HearInv ==
  /\ \A t \in Turns : turn[t].heard # "none" => turn[t].conv # None
  /\ \A w \in Windows : window[w].at = "intake" =>
       window[w].turn \in Turns /\ turn[window[w].turn].conv # None

OwingInv ==
  /\ TypesInv /\ FreshInv /\ StageInv /\ PlaceInv /\ FlagInv /\ OwedInv /\ HoldInv /\ OneInv
  /\ HearInv /\ IInv

-----------------------------------------------------------------------------
(* A step that asks nothing new: of one conversation c some questions are  *)
(* settled.                                                                *)
Settled == {"refused", "done", "cancelled", "failed", "ignored"}

WindowsStay ==
  /\ conversation' = conversation
  /\ count' \in [Counted -> Nat] /\ count'["turns"] = count["turns"]
  /\ count'["conversations"] = count["conversations"]
  /\ \A w \in Windows :
       /\ window'[w].conv = window[w].conv
       /\ window'[w].at # "off" => window[w].at # "off"
       /\ window'[w].at = "intake" => window[w].at = "intake" /\ window'[w].turn = window[w].turn

ConvSettles(c) ==
  /\ \A d \in Conversations \ {c} : conv'[d] = conv[d]
  /\ conv'[c].ended = conv[c].ended /\ conv'[c].queue \subseteq conv[c].queue
  /\ conv'[c].current \in {None, conv[c].current}

TurnsSettle(c) ==
  /\ turn' \in [Turns -> Record]
  /\ \A t \in Turns :
       /\ turn'[t].conv = turn[t].conv
       /\ turn'[t].flag = turn[t].flag \/ (turn[t].conv = c /\ t \notin conv'[c].queue)
       /\ turn'[t].heard # "none" => turn[t].heard # "none" \/ turn[t].conv # None
       /\ Unsettled(t)' => /\ turn'[t].state = turn[t].state /\ turn'[t].flag = turn[t].flag
                           /\ turn[t].conv = c /\ t \in Owes(c) => t \in Owes(c)'

SettlesOf(c) == WindowsStay /\ ConvSettles(c) /\ TurnsSettle(c)

(* The lock is kept, cut or given up, the latter by an answer that stops.  *)
HoldsOn(c) ==
  /\ speech' \in {speech, Cut(speech), Free}
  /\ conv'[c].answer = conv[c].answer \/ conv[c].answer # "speak"
       \/ ~(speech'.by = "answer" /\ speech'.id = c)

LEMMA CutIsHold ==
  ASSUME speech \in Hold
  PROVE  /\ Cut(speech) \in Hold /\ Free \in Hold /\ Free.by = "nobody" /\ Free.at = "none"
         /\ Cut(speech).by = speech.by /\ Cut(speech).id = speech.id
         /\ Cut(speech).at = speech.at
  BY DEF Cut, Hold, Free, None

LEMMA HoldsOnInv ==
  ASSUME TypesInv, HoldInv, NEW c \in Conversations, HoldsOn(c),
         \A d \in Conversations \ {c} : conv'[d] = conv[d]
  PROVE  speech' \in Hold /\ HoldInv'
<1>1. speech' \in Hold /\ (speech' = Free \/ (speech'.by = speech.by /\ speech'.id = speech.id
                                              /\ speech'.at = speech.at))
  BY CutIsHold DEF TypesInv, HoldsOn
<1>2. CASE speech' = Free
  BY <1>1, <1>2, CutIsHold DEF HoldInv, TypesInv
<1>3. CASE speech'.by = speech.by /\ speech'.id = speech.id /\ speech'.at = speech.at
  <2>1. ASSUME speech.by = "answer"
        PROVE  conv'[speech.id].answer = "speak"
    BY <1>3, <2>1 DEF HoldInv, HoldsOn
  <2>2. /\ speech.by = "nobody" => speech.at = "none"
        /\ speech.by = "listen" => speech.id \in Turns
        /\ speech.by = "answer" => speech.id \in Conversations
    BY DEF HoldInv
  <2>3. speech'.by = "answer" => conv'[speech'.id].answer = "speak"
    BY <1>3, <2>1
  <2> QED
    BY <1>1, <1>3, <2>2, <2>3, Zenon DEF HoldInv
<1> QED
  BY <1>1, <1>2, <1>3

LEMMA SettlesInv ==
  ASSUME OwingInv, IInv', NEW c \in Conversations, SettlesOf(c), Staged(c)',
         speech' \in Hold, HoldInv'
  PROVE  OwingInv'
<1> USE DEF OwingInv, SettlesOf, WindowsStay, ConvSettles, TurnsSettle
<1>0. /\ \A d \in Conversations \ {c} : conv'[d] = conv[d]
      /\ \A d \in Conversations :
           /\ conv'[d].ended = conv[d].ended /\ conv'[d].queue \subseteq conv[d].queue
           /\ conv'[d].current \in {None, conv[d].current}
  OBVIOUS
<1>1. TypesInv'
  BY DEF TypesInv
<1>2. \A d \in Conversations : Busy(d)' => Busy(d)
  BY <1>0 DEF Busy
<1>3. FreshInv'
  BY <1>2 DEF FreshInv
<1>4. StageInv'
  BY <1>0 DEF StageInv, Staged
<1>5. PlaceInv'
  <2> SUFFICES ASSUME NEW d \in Conversations
               PROVE  Placed(d)'
    BY DEF PlaceInv
  <2>1. \A t \in Owes(d)' : t \in Turns /\ t <= count'["turns"] /\ turn'[t].conv = d
    BY <1>0 DEF PlaceInv, Placed, Owes
  <2>2. \A t \in conv'[d].queue : ~turn'[t].flag /\ t # conv'[d].current
    <3>1. \A t \in conv'[d].queue : t \in conv[d].queue /\ t \in Turns /\ t # None
      BY <1>0, <2>1 DEF Owes, Turns, None
    <3> QED
      BY <1>0, <2>1, <3>1 DEF PlaceInv, Placed, Owes
  <2>3. ASSUME conv'[d].current # None
        PROVE  turn'[conv'[d].current].state # "queued"
    <3>1. conv'[d].current = conv[d].current /\ conv[d].current \in Turns
          /\ turn[conv[d].current].state # "queued"
      BY <1>0, <2>3 DEF PlaceInv, Placed, Owes
    <3> QED
      BY <3>1 DEF Unsettled
  <2> QED
    BY <2>1, <2>2, <2>3 DEF Placed
<1>6. FlagInv'
  BY DEF FlagInv, Unsettled
<1>7. OwedInv'
  <2> SUFFICES ASSUME NEW t \in Turns, Unsettled(t)'
               PROVE  /\ turn'[t].conv # None
                      /\ conv'[turn'[t].conv].ended \/ t \in Owes(turn[t].conv)'
    BY DEF OwedInv
  <2>1. /\ turn'[t].conv = turn[t].conv /\ Unsettled(t)
        /\ turn[t].conv = c /\ t \in Owes(c) => t \in Owes(c)'
    BY DEF Unsettled
  <2>2. turn[t].conv \in Conversations /\ turn[t].conv # None
    BY <2>1 DEF OwedInv, TypesInv, Record
  <2>3. conv[turn[t].conv].ended \/ t \in Owes(turn[t].conv)
    BY <2>1 DEF OwedInv
  <2>4. conv'[turn[t].conv].ended = conv[turn[t].conv].ended
    BY <1>0, <2>2
  <2>5. t \in Owes(turn[t].conv) => t \in Owes(turn[t].conv)'
    <3>1. CASE turn[t].conv = c
      BY <2>1, <3>1
    <3>2. CASE turn[t].conv # c
      <4>1. conv'[turn[t].conv] = conv[turn[t].conv]
        BY <1>0, <2>2, <3>2
      <4>2. turn'[t].conv = turn[t].conv
        BY <2>1
      <4> QED
        BY <4>1, <4>2 DEF Owes
    <3> QED
      BY <3>1, <3>2
  <2> QED
    BY <2>1, <2>2, <2>3, <2>4, <2>5
<1>8. OneInv'
  <2>1. \A w \in Windows : window[w].conv \in {None} \cup Conversations
    BY DEF IInv, Shape
  <2> QED
    BY <1>0, <1>2, <2>1 DEF OneInv
<1>9. HearInv'
  BY DEF HearInv
<1> QED
  BY <1>1, <1>3, <1>4, <1>5, <1>6, <1>7, <1>8, <1>9

(* The forms in which the steps below come.                                *)
LEMMA OneChanges ==
  ASSUME Shape, NEW c \in Conversations, NEW record, conv' = [conv EXCEPT ![c] = record]
  PROVE  conv'[c] = record /\ \A d \in Conversations \ {c} : conv'[d] = conv[d]
  BY DEF Shape

LEMMA TickStays ==
  ASSUME TypesInv, UNCHANGED count \/ Fault \/ UserActs, UNCHANGED <<conversation, window>>
  PROVE  WindowsStay
  BY DEF TypesInv, Fault, UserActs, Tick, Counted, WindowsStay

LEMMA OneTurn ==
  ASSUME TypesInv, NEW c, NEW t \in Turns, NEW record \in Record,
         turn' = [turn EXCEPT ![t] = record],
         record.conv = turn[t].conv, record.flag = turn[t].flag,
         record.state \in {turn[t].state} \cup Settled,
         record.heard # "none" => turn[t].heard # "none" \/ turn[t].conv # None,
         \A u \in Owes(c) : u \in Owes(c)' \/ (u = t /\ record.state \in Settled)
  PROVE  TurnsSettle(c)
<1>1. /\ turn' \in [Turns -> Record] /\ turn'[t] = record
      /\ \A u \in Turns \ {t} : turn'[u] = turn[u]
  BY DEF TypesInv
<1>2. ASSUME NEW u \in Turns, Unsettled(u)'
      PROVE  /\ turn'[u].state = turn[u].state /\ turn'[u].flag = turn[u].flag
             /\ u \in Owes(c) => u \in Owes(c)'
  <2>1. turn'[u].state \notin Settled
    BY <1>2 DEF Unsettled, Settled
  <2> QED
    BY <1>1, <2>1
<1> QED
  BY <1>1, <1>2 DEF TurnsSettle

LEMMA NoTurn ==
  ASSUME TypesInv, NEW c, turn' = turn, Owes(c) \subseteq Owes(c)'
  PROVE  TurnsSettle(c)
  BY DEF TypesInv, TurnsSettle, Unsettled

LEMMA StepSettles ==
  ASSUME OwingInv, IInv', NEW c \in Conversations, WindowsStay, ConvSettles(c), TurnsSettle(c),
         Staged(c)', HoldsOn(c)
  PROVE  OwingInv'
<1>1. speech' \in Hold /\ HoldInv'
  BY HoldsOnInv DEF OwingInv, ConvSettles
<1> QED
  BY <1>1, SettlesInv DEF SettlesOf

LEMMA AbandonHolds ==
  ASSUME NEW heard, NEW c, NEW killing, NEW stop, Abandon(heard, c, killing, stop),
         conv'[c].answer = conv[c].answer \/ conv[c].answer # "speak" \/ killing
  PROVE  HoldsOn(c)
<1>1. CASE killing /\ speech.by = "answer" /\ speech.id = c
  BY <1>1 DEF Abandon, HoldsOn, Free
<1>2. CASE killing /\ ~(speech.by = "answer" /\ speech.id = c)
  BY <1>2 DEF Abandon, HoldsOn, Free, Cut
<1>3. CASE ~killing
  BY <1>3 DEF Abandon, HoldsOn
<1> QED
  BY <1>1, <1>2, <1>3

-----------------------------------------------------------------------------
(* The runner *)

LEMMA AdvanceOwing ==
  ASSUME OwingInv, IInv', NEW c \in Conversations, NEW record, Kin(record, c),
         record.queue = conv[c].queue, record.current = None, record.answer = "none",
         NEW turns \in [Turns -> Record],
         \A t \in Turns : /\ turns[t].conv = turn[t].conv /\ turns[t].flag = turn[t].flag
                          /\ turns[t].heard = turn[t].heard
                          /\ turns[t].state \in {turn[t].state, "done"},
         \A t \in Turns : turns[t].state \in {"queued", "running"} => t # conv[c].current,
         conv[c].answer # "speak",
         Advance(c, record, turns), UNCHANGED <<conversation, window, count>>
  PROVE  OwingInv'
<1> USE DEF OwingInv
<1>0. TypesInv /\ Shape
  BY DEF IInv
<1>1. WindowsStay
  BY TickStays
<1>2. ASSUME NEW other, conv' = [conv EXCEPT ![c] = other], turn' = turns,
             other.queue = record.queue, other.current = None, other.answer = "none",
             other.ended = record.ended,
             other.runner \in {"off", "switching", "releasing"},
             speech' \in {speech, Cut(speech)}
      PROVE  OwingInv'
  <2>1. conv'[c] = other /\ \A d \in Conversations \ {c} : conv'[d] = conv[d]
    BY <1>0, <1>2, OneChanges
  <2>2. ConvSettles(c)
    BY <1>2, <2>1 DEF ConvSettles, Kin
  <2>3. TurnsSettle(c)
    BY <1>0, <1>2, <2>1 DEF TurnsSettle, Owes, Unsettled
  <2>4. Staged(c)' /\ HoldsOn(c)
    BY <1>2, <2>1 DEF Staged, HoldsOn
  <2> QED
    BY <1>1, <2>2, <2>3, <2>4, StepSettles
<1>3. ASSUME NEW runner \in {"off", "releasing"},
             conv' = [conv EXCEPT ![c] = [record EXCEPT !.runner = runner]],
             turn' = turns, speech' \in {speech, Cut(speech)}
      PROVE  OwingInv'
  <2> DEFINE other == [record EXCEPT !.runner = runner]
  <2>1. /\ other.queue = record.queue /\ other.current = None /\ other.answer = "none"
        /\ other.ended = record.ended /\ other.runner = runner
    BY FieldsAre DEF Kin
  <2>2. conv' = [conv EXCEPT ![c] = other]
    BY <1>3
  <2> HIDE DEF other
  <2> QED
    BY <1>2, <1>3, <2>1, <2>2
<1>4. CASE LetGo(c, record) /\ turn' = turns
  BY <1>3, <1>4 DEF LetGo, Halted, StopWorker
<1>5. CASE ~record.ended /\ record.queue = {} /\ record.successor # <<>>
           /\ Advance(c, record, turns)
  <2> DEFINE chats == IF record.successor[1].other THEN {} ELSE record.turns
             other == [record EXCEPT !.runner = "switching", !.successor = <<>>,
                                     !.engine = record.successor[1].engine, !.turns = chats]
  <2>1. conv' = [conv EXCEPT ![c] = other]
    BY <1>5, FieldsAre DEF Advance, Kin
  <2>2. /\ other.queue = record.queue /\ other.current = None /\ other.answer = "none"
        /\ other.ended = record.ended /\ other.runner = "switching"
    BY FieldsAre DEF Kin
  <2> HIDE DEF other
  <2>3. turn' = turns /\ speech' = speech
    BY <1>5 DEF Advance
  <2> QED
    BY <1>2, <2>1, <2>2, <2>3
<1>6. ASSUME NEW t \in record.queue, NEW runner \in {"sending", "waiting"},
             NEW answer \in {"none", "begin"}, answer # "none" => runner = "waiting",
             conv' = [conv EXCEPT ![c] =
               [record EXCEPT !.queue = @ \ {t}, !.current = t, !.said = 0,
                              !.runner = runner, !.answer = answer]],
             turn' = [turns EXCEPT ![t].state = "running", ![t].waited = FALSE],
             UNCHANGED speech
      PROVE  OwingInv'
  <2>1. /\ conv'[c].queue = conv[c].queue \ {t} /\ conv'[c].current = t
        /\ conv'[c].runner = runner /\ conv'[c].answer = answer
        /\ conv'[c].ended = conv[c].ended
        /\ \A d \in Conversations \ {c} : conv'[d] = conv[d]
    <3> DEFINE other == [record EXCEPT !.queue = @ \ {t}, !.current = t, !.said = 0,
                                       !.runner = runner, !.answer = answer]
    <3>1. /\ other.queue = conv[c].queue \ {t} /\ other.current = t
          /\ other.runner = runner /\ other.answer = answer /\ other.ended = conv[c].ended
      BY FieldsAre DEF Kin
    <3>2. conv' = [conv EXCEPT ![c] = other]
      BY <1>6
    <3> HIDE DEF other
    <3>3. conv'[c] = other /\ \A d \in Conversations \ {c} : conv'[d] = conv[d]
      BY <1>0, <3>2, OneChanges
    <3> QED
      BY <3>1, <3>3
  <2>2. t \in Turns /\ t # None /\ t <= count["turns"] /\ turn[t].conv = c /\ ~turn[t].flag
    BY <1>6 DEF PlaceInv, Placed, Owes, Turns, None
  <2>3. /\ turn' \in [Turns -> Record]
        /\ \A u \in Turns : /\ turn'[u].conv = turn[u].conv /\ turn'[u].flag = turn[u].flag
                            /\ turn'[u].heard = turn[u].heard
                            /\ u # t => turn'[u].state = turns[u].state
        /\ turn'[t].state = "running"
    <3>1. [turns[t] EXCEPT !.state = "running", !.waited = FALSE] \in Record
      <4>1. turns[t] \in Record
        BY <2>2
      <4> QED
        BY <4>1 DEF Record
    <3>2. turn' = [turns EXCEPT ![t] = [turns[t] EXCEPT !.state = "running", !.waited = FALSE]]
      BY <1>6
    <3> QED
      BY <2>2, <3>1, <3>2 DEF Record
  <2>4. TypesInv'
    BY <1>0, <1>6, <2>3 DEF TypesInv
  <2>5. Owes(c)' = conv[c].queue /\ \A d \in Conversations \ {c} : Owes(d)' = Owes(d)
    BY <1>6, <2>1, <2>2 DEF Owes
  <2>6. FreshInv'
    BY <1>6, <2>1, <2>3 DEF FreshInv, Busy
  <2>7. StageInv'
    BY <1>6, <2>1, <2>2 DEF StageInv, Staged
  <2>8. PlaceInv'
    <3>1. Placed(c)'
      BY <2>1, <2>2, <2>3, <2>5 DEF PlaceInv, Placed, Owes
    <3>2. ASSUME NEW d \in Conversations \ {c}
          PROVE  Placed(d)'
      <4>1. t \notin Owes(d)
        BY <2>2 DEF PlaceInv, Placed
      <4>2. conv[d].current # None =>
              turn[conv[d].current].state # "queued" /\ conv[d].current \in Turns
        BY DEF PlaceInv, Placed, Owes
      <4>3. conv[d].current # None => turn'[conv[d].current].state # "queued"
        BY <2>2, <2>3, <4>2
      <4> QED
        BY <2>1, <2>3, <2>5, <4>1, <4>3 DEF PlaceInv, Placed, Owes
    <3> QED
      BY <3>1, <3>2 DEF PlaceInv
  <2>9. FlagInv'
    BY <2>2, <2>3 DEF FlagInv, Unsettled
  <2>10. OwedInv'
    <3> SUFFICES ASSUME NEW u \in Turns, Unsettled(u)'
                 PROVE  /\ turn'[u].conv # None
                        /\ conv'[turn'[u].conv].ended \/ u \in Owes(turn[u].conv)'
      BY DEF OwedInv
    <3>1. CASE u = t
      BY <2>1, <2>2, <2>3, <2>5, <3>1, <1>6 DEF None, Conversations
    <3>2. CASE u # t
      <4>1. Unsettled(u) /\ turns[u].state \in {"queued", "running"} /\ u # conv[c].current
        BY <2>3, <3>2 DEF Unsettled
      <4>2. turn[u].conv # None /\ turn[u].conv \in Conversations
            /\ (conv[turn[u].conv].ended \/ u \in Owes(turn[u].conv))
        BY <4>1, <1>0 DEF OwedInv, TypesInv, Record
      <4>3. conv'[turn[u].conv].ended = conv[turn[u].conv].ended
        BY <2>1, <4>2
      <4>4. u \in Owes(turn[u].conv) => u \in Owes(turn[u].conv)'
        <5>1. CASE turn[u].conv = c
          BY <2>3, <2>5, <4>1, <5>1 DEF Owes
        <5>2. CASE turn[u].conv # c
          BY <2>1, <2>3, <4>2, <5>2 DEF Owes
        <5> QED
          BY <5>1, <5>2
      <4> QED
        BY <2>3, <4>2, <4>3, <4>4
    <3> QED
      BY <3>1, <3>2
  <2>11. HoldInv'
    BY <1>6, <2>1 DEF HoldInv
  <2>12. OneInv'
    <3>1. Busy(c) /\ \A d \in Conversations \ {c} : Busy(d)' = Busy(d)
      BY <1>6, <2>1 DEF Busy
    <3>2. \A w \in Windows : window[w].conv \in {None} \cup Conversations
      BY <1>0 DEF Shape
    <3>3. \A d \in Conversations : conv'[d].ended = conv[d].ended
      BY <2>1
    <3> QED
      BY <3>1, <3>2, <3>3 DEF OneInv
  <2>13. HearInv'
    BY <2>3 DEF HearInv
  <2> QED
    BY <2>4, <2>6, <2>7, <2>8, <2>9, <2>10, <2>11, <2>12, <2>13
<1>7. CASE ~record.ended /\ record.queue # {} /\ Advance(c, record, turns)
  <2>1. PICK t \in record.queue :
          /\ conv' = [conv EXCEPT ![c] =
               [record EXCEPT
                  !.queue = @ \ {t}, !.current = t, !.said = 0,
                  !.runner = IF turns[t].waited THEN "sending" ELSE "waiting",
                  !.answer = IF turns[t].waited THEN "none" ELSE "begin"]]
          /\ turn' = [turns EXCEPT ![t].state = "running", ![t].waited = FALSE]
          /\ UNCHANGED speech
    BY <1>7 DEF Advance
  <2> DEFINE runner == IF turns[t].waited THEN "sending" ELSE "waiting"
             answer == IF turns[t].waited THEN "none" ELSE "begin"
  <2>2. runner \in {"sending", "waiting"} /\ answer \in {"none", "begin"}
        /\ (answer # "none" => runner = "waiting")
    OBVIOUS
  <2>3. conv' = [conv EXCEPT ![c] =
               [record EXCEPT !.queue = @ \ {t}, !.current = t, !.said = 0,
                              !.runner = runner, !.answer = answer]]
    BY <2>1
  <2> HIDE DEF runner, answer
  <2> QED
    BY <1>6, <2>1, <2>2, <2>3
<1> QED
  BY <1>3, <1>4, <1>5, <1>7 DEF Advance, Halted

LEMMA RunnerGoesOn ==
  ASSUME OwingInv, IInv', NEW c \in Conversations, NEW runner \in {"off", "pick", "releasing"},
         conv[c].runner \notin {"sending", "waiting"},
         conv' = [conv EXCEPT ![c] = [conv[c] EXCEPT !.runner = runner]],
         turn' = turn, speech' \in {speech, Cut(speech)}, WindowsStay
  PROVE  OwingInv'
<1> DEFINE record == [conv[c] EXCEPT !.runner = runner]
<1>1. TypesInv /\ Shape /\ Staged(c)
  BY DEF OwingInv, IInv, StageInv
<1>2. /\ record.queue = conv[c].queue /\ record.current = conv[c].current
      /\ record.answer = conv[c].answer /\ record.ended = conv[c].ended
      /\ record.runner = runner
  BY <1>1, FieldsAre DEF Shape
<1>3. conv' = [conv EXCEPT ![c] = record]
  OBVIOUS
<1> HIDE DEF record
<1>4. conv'[c] = record /\ \A d \in Conversations \ {c} : conv'[d] = conv[d]
  BY <1>1, <1>3, OneChanges
<1>5. ConvSettles(c) /\ Owes(c) \subseteq Owes(c)'
  BY <1>2, <1>4 DEF ConvSettles, Owes
<1>6. Staged(c)' /\ HoldsOn(c)
  BY <1>1, <1>2, <1>4 DEF Staged, HoldsOn
<1> QED
  BY <1>1, <1>5, <1>6, NoTurn, StepSettles

LEMMA RunnerOwing ==
  ASSUME OwingInv, IInv', NEW c \in Conversations, RunnerStep(c)
  PROVE  OwingInv'
<1>1. /\ UNCHANGED <<conversation, window, count>>
      /\ TypesInv /\ Shape /\ Staged(c) /\ Placed(c)
  BY DEF OwingInv, IInv, StageInv, PlaceInv, RunnerStep, RunnerStarts, Sent, Answered,
         Switched, Released
<1>2. WindowsStay
  BY <1>1, TickStays
<1>3. ASSUME conv[c].runner \notin {"sending", "waiting"}, Advance(c, conv[c], turn)
      PROVE  OwingInv'
  <2>1. Kin(conv[c], c) /\ conv[c].current = None /\ conv[c].answer = "none"
    BY <1>1, <1>3 DEF Kin, Shape, Staged
  <2>2. turn \in [Turns -> Record] /\ \A t \in Turns : t # None
    BY <1>1 DEF TypesInv, Turns, None
  <2> QED
    BY <1>1, <1>3, <2>1, <2>2, AdvanceOwing
<1>4. CASE RunnerStarts(c)
  BY <1>3, <1>4 DEF RunnerStarts
<1>5. CASE Sent(c)
  <2> DEFINE record == [conv[c] EXCEPT !.runner = "waiting", !.answer = "begin"]
  <2>1. /\ record.queue = conv[c].queue /\ record.current = conv[c].current
        /\ record.answer = "begin" /\ record.runner = "waiting"
        /\ record.ended = conv[c].ended
    BY <1>1, FieldsAre DEF Shape
  <2>2. conv' = [conv EXCEPT ![c] = record]
    BY <1>1, <1>5 DEF Sent, Shape
  <2> HIDE DEF record
  <2>3. conv'[c] = record /\ \A d \in Conversations \ {c} : conv'[d] = conv[d]
    BY <1>1, <2>2, OneChanges
  <2>4. ConvSettles(c) /\ Owes(c) \subseteq Owes(c)'
    BY <2>1, <2>3 DEF ConvSettles, Owes
  <2>5. Staged(c)' /\ HoldsOn(c)
    BY <1>1, <1>5, <2>1, <2>3 DEF Staged, HoldsOn, Sent
  <2> QED
    BY <1>1, <1>2, <1>5, <2>4, <2>5, NoTurn, StepSettles DEF Sent
<1>6. CASE Answered(c)
  <2> DEFINE t == conv[c].current
             record == [conv[c] EXCEPT !.current = None, !.answer = "none"]
             done == [turn[t] EXCEPT !.state = IF @ = "running" THEN "done" ELSE @]
             turns == [turn EXCEPT ![t] = done]
  <2>1. t \in Turns /\ turn[t].state # "queued" /\ turn[t] \in Record
    BY <1>1, <1>6 DEF Answered, Staged, Placed, Owes, TypesInv
  <2>2. /\ done \in Record /\ done.conv = turn[t].conv /\ done.flag = turn[t].flag
        /\ done.heard = turn[t].heard /\ done.state \in {turn[t].state, "done"}
        /\ done.state \notin {"queued", "running"}
    BY <2>1 DEF Record
  <2>3. /\ Kin(record, c) /\ record.queue = conv[c].queue /\ record.current = None
        /\ record.answer = "none"
    BY <1>1, FieldsAre DEF Kin, Shape
  <2>4. Advance(c, record, turns)
    BY <1>6 DEF Answered
  <2> HIDE DEF record, done
  <2>5. /\ turns \in [Turns -> Record] /\ turns[t] = done
        /\ \A u \in Turns \ {t} : turns[u] = turn[u]
    BY <1>1, <2>1, <2>2 DEF TypesInv
  <2>6. /\ \A u \in Turns : /\ turns[u].conv = turn[u].conv /\ turns[u].flag = turn[u].flag
                            /\ turns[u].heard = turn[u].heard
                            /\ turns[u].state \in {turn[u].state, "done"}
        /\ \A u \in Turns : turns[u].state \in {"queued", "running"} => u # t
    BY <2>2, <2>5
  <2> HIDE DEF turns
  <2> QED
    BY <1>1, <1>6, <2>3, <2>4, <2>5, <2>6, AdvanceOwing DEF Answered
<1>7. ASSUME LetGo(c, conv[c]), conv[c].runner \notin {"sending", "waiting"}, turn' = turn
      PROVE  OwingInv'
  BY <1>2, <1>7, RunnerGoesOn DEF LetGo, Halted, StopWorker
<1>8. CASE Switched(c)
  BY <1>3, <1>7, <1>8 DEF Switched
<1>9. CASE Released(c)
  <2>1. CASE conv' = [conv EXCEPT ![c] = Halted(@)] /\ UNCHANGED <<turn, speech>>
    BY <1>2, <1>9, <2>1, RunnerGoesOn DEF Released, Halted
  <2> QED
    BY <1>3, <1>9, <2>1 DEF Released
<1> QED
  BY <1>4, <1>5, <1>6, <1>8, <1>9 DEF RunnerStep

-----------------------------------------------------------------------------
(* The answer *)

(* A reply that goes to another phase owes what it owed.                   *)
LEMMA PhaseStays ==
  ASSUME OwingInv, NEW c \in Conversations, conv[c].answer # "none", NEW phase, NEW said,
         conv' = [conv EXCEPT ![c] = [conv[c] EXCEPT !.answer = phase, !.said = said]]
  PROVE  /\ ConvSettles(c) /\ Owes(c)' = Owes(c) /\ Staged(c)' /\ conv'[c].answer = phase
         /\ conv[c].current \in Turns /\ conv'[c].queue = conv[c].queue
<1> DEFINE record == [conv[c] EXCEPT !.answer = phase, !.said = said]
<1>1. Shape /\ Staged(c) /\ Placed(c)
  BY DEF OwingInv, IInv, StageInv, PlaceInv
<1>2. /\ record.queue = conv[c].queue /\ record.current = conv[c].current
      /\ record.answer = phase /\ record.ended = conv[c].ended
      /\ record.runner = conv[c].runner
  BY <1>1, FieldsAre DEF Shape
<1>3. conv' = [conv EXCEPT ![c] = record]
  OBVIOUS
<1> HIDE DEF record
<1>4. conv'[c] = record /\ \A d \in Conversations \ {c} : conv'[d] = conv[d]
  BY <1>1, <1>3, OneChanges
<1>5. conv[c].current \in Turns
  BY <1>1 DEF Staged, Placed, Owes
<1> QED
  BY <1>1, <1>2, <1>4, <1>5 DEF ConvSettles, Owes, Staged

LEMMA PhaseIs ==
  ASSUME Shape, NEW c \in Conversations, NEW phase, Phase(c, phase)
  PROVE  conv' = [conv EXCEPT ![c] = [conv[c] EXCEPT !.answer = phase, !.said = conv[c].said]]
<1>1. [conv[c] EXCEPT !.answer = phase, !.said = conv[c].said] = [conv[c] EXCEPT !.answer = phase]
  BY FieldsAre DEF Shape
<1> QED
  BY <1>1 DEF Phase

LEMMA AnswerOwing ==
  ASSUME OwingInv, IInv', NEW c \in Conversations, AnswerStep(c)
  PROVE  OwingInv'
<1> DEFINE t == conv[c].current
<1>1. TypesInv /\ Shape /\ Staged(c) /\ Placed(c) /\ UNCHANGED <<conversation, window>>
  BY DEF OwingInv, IInv, StageInv, PlaceInv, AnswerStep, Begin, Think, Want, Spoken, Saved,
         Fails
<1>2. WindowsStay /\ conv[c].answer # "none"
  <2>1. UNCHANGED count \/ Fault
    BY DEF AnswerStep, Begin, Think, Want, Spoken, Saved, Fails
  <2>2. conv[c].answer # "none"
    BY DEF AnswerStep, Begin, Think, Want, Spoken, Saved, Fails, Answering, MustFail, MayFail
  <2> QED
    BY <1>1, <2>1, <2>2, TickStays
<1>3. t \in Turns /\ turn[t] \in Record
  BY <1>1, <1>2 DEF Staged, Placed, Owes, TypesInv
<1>4. ASSUME NEW phase, NEW said,
             conv' = [conv EXCEPT ![c] = [conv[c] EXCEPT !.answer = phase, !.said = said]]
      PROVE  /\ ConvSettles(c) /\ Owes(c)' = Owes(c) /\ Staged(c)' /\ conv'[c].answer = phase
             /\ TurnsSettle(c) /\ HoldsOn(c) => OwingInv'
  <2>1. /\ ConvSettles(c) /\ Owes(c)' = Owes(c) /\ Staged(c)' /\ conv'[c].answer = phase
    BY <1>2, <1>4, PhaseStays
  <2> QED
    BY <1>2, <2>1, StepSettles
<1>5. ASSUME NEW record \in Record, turn' = [turn EXCEPT ![t] = record],
             record.conv = turn[t].conv, record.flag = turn[t].flag,
             record.state \in {turn[t].state} \cup Settled,
             record.heard \in {"none", turn[t].heard}, Owes(c)' = Owes(c)
      PROVE  TurnsSettle(c)
  BY <1>1, <1>3, <1>5, OneTurn
<1>6. CASE Begin(c)
  <2>1. PICK phase : Phase(c, phase)
    BY <1>6 DEF Begin
  <2>2. conv' = [conv EXCEPT ![c] = [conv[c] EXCEPT !.answer = phase, !.said = conv[c].said]]
    BY <1>1, <2>1, PhaseIs
  <2>3. HoldsOn(c)
    BY <1>6 DEF HoldsOn, Begin, Answering
  <2>4. TurnsSettle(c)
    <3>1. CASE turn' = [turn EXCEPT ![t].heard = "none"]
      <4> DEFINE record == [turn[t] EXCEPT !.heard = "none"]
      <4>1. /\ record \in Record /\ record.conv = turn[t].conv /\ record.flag = turn[t].flag
            /\ record.state = turn[t].state /\ record.heard = "none"
        BY <1>3 DEF Record
      <4>2. turn' = [turn EXCEPT ![t] = record]
        BY <3>1
      <4> HIDE DEF record
      <4> QED
        BY <1>4, <1>5, <2>2, <4>1, <4>2
    <3>2. CASE turn' = [turn EXCEPT ![t].heard = "none",
                                    ![t].state = IF @ = "running" THEN "ignored" ELSE @]
      <4> DEFINE record == [turn[t] EXCEPT !.heard = "none",
                                           !.state = IF @ = "running" THEN "ignored" ELSE @]
      <4>1. /\ record \in Record /\ record.conv = turn[t].conv /\ record.flag = turn[t].flag
            /\ record.state \in {turn[t].state, "ignored"} /\ record.heard = "none"
        BY <1>3 DEF Record
      <4>2. turn' = [turn EXCEPT ![t] = record]
        BY <1>1, <1>3, <3>2 DEF TypesInv, Record
      <4> HIDE DEF record
      <4> QED
        BY <1>4, <1>5, <2>2, <4>1, <4>2 DEF Settled
    <3> QED
      BY <1>6, <3>1, <3>2 DEF Begin
  <2> QED
    BY <1>4, <2>2, <2>3, <2>4
<1>7. CASE Think(c)
  <2>1. PICK phase, said :
          conv' = [conv EXCEPT ![c] = [conv[c] EXCEPT !.answer = phase, !.said = said]]
    <3>1. CASE \E phase : Phase(c, phase)
      <4>1. PICK phase : Phase(c, phase)
        BY <3>1
      <4>2. conv' = [conv EXCEPT ![c] =
                      [conv[c] EXCEPT !.answer = phase, !.said = conv[c].said]]
        BY <1>1, <4>1, PhaseIs
      <4> QED
        BY <4>2
    <3>2. CASE conv' = [conv EXCEPT
                  ![c].answer = IF conv[c].socket = None THEN @ ELSE "want",
                  ![c].said = IF conv[c].socket = None THEN @ + 1 ELSE @]
      <4>1. conv' = [conv EXCEPT ![c] =
              [conv[c] EXCEPT !.answer = IF conv[c].socket = None THEN @ ELSE "want",
                              !.said = IF conv[c].socket = None THEN @ + 1 ELSE @]]
        BY <1>1, <3>2, FieldsAre DEF Shape
      <4> QED
        BY <4>1
    <3> QED
      BY <1>7, <3>1, <3>2 DEF Think
  <2>2. HoldsOn(c) /\ turn' = turn
    BY <1>7 DEF HoldsOn, Think, Answering
  <2> QED
    BY <1>1, <1>4, <2>1, <2>2, NoTurn
<1>8. CASE Want(c)
  <2>1. conv' = [conv EXCEPT ![c] = [conv[c] EXCEPT !.answer = "speak", !.said = conv[c].said]]
    BY <1>1, <1>8, PhaseIs DEF Want
  <2>2. /\ ConvSettles(c) /\ Owes(c)' = Owes(c) /\ Staged(c)' /\ conv'[c].answer = "speak"
    BY <1>4, <2>1
  <2>3. TurnsSettle(c)
    BY <1>1, <1>8, <2>2, NoTurn DEF Want
  <2>4. speech' = [by |-> "answer", id |-> c, cut |-> worker = "loading",
                   at |-> IF worker = "off" THEN "verify" ELSE "stream"]
    BY <1>8 DEF Want, Take
  <2>5. speech' \in Hold /\ HoldInv'
    BY <2>2, <2>4 DEF Hold, HoldInv, Conversations
  <2> QED
    BY <1>2, <2>2, <2>3, <2>5, SettlesInv DEF SettlesOf
<1>9. CASE Spoken(c)
  <2>1. conv' = [conv EXCEPT ![c] =
                  [conv[c] EXCEPT !.answer = "think", !.said = conv[c].said + 1]]
    BY <1>1, <1>9, FieldsAre DEF Spoken, Shape
  <2>2. HoldsOn(c) /\ turn' = turn
    BY <1>9 DEF HoldsOn, Spoken, Free
  <2> QED
    BY <1>1, <1>4, <2>1, <2>2, NoTurn
<1>10. CASE Saved(c) \/ Fails(c)
  <2>1. conv' = [conv EXCEPT ![c] = [conv[c] EXCEPT !.answer = "over", !.said = conv[c].said]]
    BY <1>1, <1>10, PhaseIs DEF Saved, Fails
  <2>2. TurnsSettle(c)
    <3>1. PICK state \in {"done", "failed"}, heard \in {"none", turn[t].heard} :
            turn' = [turn EXCEPT ![t] = [turn[t] EXCEPT !.state = state, !.heard = heard]]
      <4>1. CASE Saved(c)
        <5>1. [turn[t] EXCEPT !.state = "done", !.heard = turn[t].heard] =
                [turn[t] EXCEPT !.state = "done"]
          BY <1>3 DEF Record
        <5>2. turn' = [turn EXCEPT ![t] = [turn[t] EXCEPT !.state = "done",
                                                         !.heard = turn[t].heard]]
          BY <4>1, <5>1 DEF Saved
        <5> QED
          BY <5>2
      <4>2. CASE Fails(c)
        <5> DEFINE heard == IF t \in (IF Answering(c, "begin") THEN {t} ELSE {})
                            THEN "none" ELSE turn[t].heard
        <5>1. turn' = [turn EXCEPT ![t].state = "failed",
                         ![t].heard = IF t \in (IF Answering(c, "begin") THEN {t} ELSE {})
                                      THEN "none" ELSE @]
          BY <4>2 DEF Fails
        <5>2. turn' = [turn EXCEPT ![t] = [turn[t] EXCEPT !.state = "failed",
                                                         !.heard = heard]]
          BY <1>1, <1>3, <5>1 DEF TypesInv, Record
        <5>3. heard \in {"none", turn[t].heard}
          OBVIOUS
        <5> HIDE DEF heard
        <5> QED
          BY <5>2, <5>3
      <4> QED
        BY <1>10, <4>1, <4>2
    <3> DEFINE record == [turn[t] EXCEPT !.state = state, !.heard = heard]
    <3>2. /\ record \in Record /\ record.conv = turn[t].conv /\ record.flag = turn[t].flag
          /\ record.state = state /\ record.heard = heard
      BY <1>3 DEF Record
    <3>3. turn' = [turn EXCEPT ![t] = record]
      BY <3>1
    <3> HIDE DEF record
    <3> QED
      BY <1>4, <1>5, <2>1, <3>2, <3>3 DEF Settled
  <2>3. HoldsOn(c)
    <3>1. CASE Saved(c)
      BY <3>1 DEF HoldsOn, Saved, Answering
    <3>2. CASE Fails(c)
      <4>1. PICK heard : Abandon(heard, c, TRUE, TRUE)
        BY <3>2 DEF Fails
      <4> QED
        BY <4>1, AbandonHolds
    <3> QED
      BY <1>10, <3>1, <3>2
  <2> QED
    BY <1>4, <2>1, <2>2, <2>3
<1> QED
  BY <1>6, <1>7, <1>8, <1>9, <1>10 DEF AnswerStep

-----------------------------------------------------------------------------
(* Transcriptions and stops *)

(* A stop settles what it drops and the turn it stops; keep, the question  *)
(* that was a stop itself, leaves the queue settled.                       *)
LEMMA StopOwing ==
  ASSUME OwingInv, IInv', WindowsStay, NEW c \in Conversations, NEW identifier, NEW keep,
         NEW record, conv' = [conv EXCEPT ![c] = record],
         record.queue = conv[c].queue \ (Dropped(c, identifier, keep) \cup {keep}),
         record.current = conv[c].current, record.runner = conv[c].runner,
         record.ended = conv[c].ended,
         record.answer = IF Kills(c, identifier, keep) THEN "over" ELSE conv[c].answer,
         turn' \in [Turns -> Record],
         \A t \in Turns : t # keep => turn'[t] = TurnsAfter(c, identifier, keep)[t],
         keep \in Turns => /\ turn'[keep].conv = turn[keep].conv
                           /\ turn'[keep].flag = turn[keep].flag
                           /\ turn'[keep].state \in Settled /\ turn[keep].conv # None,
         NEW heard, NEW stop, Abandon(heard, c, Kills(c, identifier, keep), stop)
  PROVE  OwingInv'
<1>1. TypesInv /\ Shape /\ Staged(c) /\ Placed(c)
  BY DEF OwingInv, IInv, StageInv, PlaceInv
<1>2. conv'[c] = record /\ \A d \in Conversations \ {c} : conv'[d] = conv[d]
  BY <1>1, OneChanges
<1>3. ConvSettles(c)
  BY <1>2 DEF ConvSettles
<1>4. Staged(c)'
  BY <1>1, <1>2 DEF Staged, Kills
<1>5. HoldsOn(c)
  BY <1>2, AbandonHolds
<1>6. TurnsSettle(c)
  <2> SUFFICES ASSUME NEW t \in Turns
               PROVE  /\ turn'[t].conv = turn[t].conv
                      /\ \/ turn'[t].flag = turn[t].flag
                         \/ turn[t].conv = c /\ t \notin conv'[c].queue
                      /\ turn'[t].heard # "none" =>
                           turn[t].heard # "none" \/ turn[t].conv # None
                      /\ Unsettled(t)' =>
                           /\ turn'[t].state = turn[t].state /\ turn'[t].flag = turn[t].flag
                           /\ turn[t].conv = c /\ t \in Owes(c) => t \in Owes(c)'
    BY DEF TurnsSettle
  <2>1. CASE t = keep
    BY <2>1 DEF Unsettled, Settled
  <2>2. CASE t # keep
    <3> DEFINE stopped == Stopped(c, identifier, keep, t)
               changed == [turn[t] EXCEPT
                             !.state = IF stopped THEN "cancelled" ELSE @,
                             !.flag = @ \/ stopped,
                             !.heard = IF t \in Silenced(c, identifier, keep)
                                       THEN "none" ELSE @]
    <3>1. turn'[t] = changed
      BY <2>2 DEF TurnsAfter
    <3>2. turn[t] \in Record
      BY <1>1 DEF TypesInv
    <3> HIDE DEF stopped
    <3>3. /\ changed.conv = turn[t].conv /\ changed.heard \in {"none", turn[t].heard}
          /\ stopped => changed.state = "cancelled"
          /\ ~stopped => changed.state = turn[t].state /\ changed.flag = turn[t].flag
      BY <3>2 DEF Record
    <3> HIDE DEF changed
    <3>4. ASSUME stopped
          PROVE  turn[t].conv = c /\ t \notin conv'[c].queue
      BY <1>1, <1>2, <3>4 DEF stopped, Stopped, Dropped, StopsCurrent, Placed, Owes
    <3>5. ASSUME ~stopped, t \in Owes(c)
          PROVE  t \in Owes(c)'
      BY <1>2, <2>2, <3>5 DEF stopped, Stopped, Owes
    <3> QED
      BY <3>1, <3>3, <3>4, <3>5 DEF Unsettled
  <2> QED
    BY <2>1, <2>2
<1> QED
  BY <1>3, <1>4, <1>5, <1>6, StepSettles

(* What TurnsAfter gives are questions.                                    *)
LEMMA TurnsAfterType ==
  ASSUME TypesInv, NEW c, NEW identifier, NEW keep
  PROVE  TurnsAfter(c, identifier, keep) \in [Turns -> Record]
<1> SUFFICES ASSUME NEW t \in Turns
             PROVE  [turn[t] EXCEPT
                       !.state = IF Stopped(c, identifier, keep, t) THEN "cancelled" ELSE @,
                       !.flag = @ \/ Stopped(c, identifier, keep, t),
                       !.heard = IF t \in Silenced(c, identifier, keep)
                                 THEN "none" ELSE @] \in Record
  BY DEF TurnsAfter
<1>1. turn[t] \in Record
  BY DEF TypesInv
<1>2. (turn[t].flag \/ Stopped(c, identifier, keep, t)) \in BOOLEAN
  OBVIOUS
<1> QED
  BY <1>1, <1>2 DEF Record

(* What ConvAfter leaves of a conversation.                                *)
LEMMA ConvAfterFields ==
  ASSUME Shape, NEW c \in Conversations, NEW identifier, NEW keep
  PROVE  LET record == ConvAfter(c, identifier, keep)
         IN /\ DOMAIN record = Fields
            /\ record.queue = conv[c].queue \ Dropped(c, identifier, keep)
            /\ record.current = conv[c].current /\ record.runner = conv[c].runner
            /\ record.ended = conv[c].ended
            /\ record.answer = IF Kills(c, identifier, keep) THEN "over" ELSE conv[c].answer
  BY FieldsAre DEF Shape, ConvAfter

LEMMA ListenOwing ==
  ASSUME OwingInv, IInv', NEW t \in Turns, ListenStep(t)
  PROVE  OwingInv'
<1>0. PICK c : c = turn[t].conv
  OBVIOUS
<1>1. /\ UNCHANGED <<conversation, window>> /\ turn[t].heard # "none"
      /\ UNCHANGED count \/ Fault \/ UserActs
  BY DEF ListenStep, Listens, HearsQuestion, HearsNoise, HearsStop, HearingFails,
         HearingBreaks, Held, Recognized
<1>2. TypesInv /\ Shape /\ WindowsStay
  BY <1>1, TickStays DEF OwingInv, IInv
<1>3. turn[t] \in Record /\ c # None /\ c \in Conversations
  BY <1>0, <1>1, <1>2 DEF OwingInv, HearInv, TypesInv, Record
<1>4. Staged(c) /\ Placed(c)
  BY <1>3 DEF OwingInv, StageInv, PlaceInv
<1>5. ASSUME NEW heard \in Hearing \cup {"none", "said", "nothing", "raised"},
             NEW tries \in {0, 1}, NEW state \in {turn[t].state, "ignored", "failed"},
             turn' = [turn EXCEPT ![t] = [turn[t] EXCEPT !.heard = heard, !.tries = tries,
                                                        !.state = state]],
             conv' = conv \/ /\ conv' = [conv EXCEPT ![c].queue = @ \ {t}]
                             /\ state \in Settled \/ t \notin conv[c].queue,
             speech' \in Hold, HoldInv'
      PROVE  OwingInv'
  <2>1. /\ conv'[c].queue \subseteq conv[c].queue
        /\ conv[c].queue \subseteq conv'[c].queue \cup {t}
        /\ state \in Settled \/ conv'[c].queue = conv[c].queue
        /\ conv'[c].current = conv[c].current /\ conv'[c].runner = conv[c].runner
        /\ conv'[c].answer = conv[c].answer /\ conv'[c].ended = conv[c].ended
        /\ \A d \in Conversations \ {c} : conv'[d] = conv[d]
    <3>1. CASE conv' = conv
      BY <3>1
    <3>2. CASE conv' = [conv EXCEPT ![c].queue = @ \ {t}]
      BY <1>2, <1>3, <1>5, <3>2, FieldsAre DEF Shape
    <3> QED
      BY <1>5, <3>1, <3>2
  <2>2. ConvSettles(c) /\ Staged(c)'
    BY <1>4, <2>1 DEF ConvSettles, Staged
  <2> DEFINE record == [turn[t] EXCEPT !.heard = heard, !.tries = tries, !.state = state]
  <2>3. /\ record \in Record /\ record.conv = turn[t].conv /\ record.flag = turn[t].flag
        /\ record.state = state /\ turn' = [turn EXCEPT ![t] = record]
    BY <1>3, <1>5 DEF Record
  <2> HIDE DEF record
  <2>4. \A u \in Owes(c) : u \in Owes(c)' \/ (u = t /\ state \in Settled)
    BY <1>5, <2>1 DEF Owes, Settled
  <2>5. TurnsSettle(c)
    BY <1>2, <1>3, <2>3, <2>4, <1>0, OneTurn DEF Settled
  <2> QED
    BY <1>2, <1>3, <1>5, <2>2, <2>5, SettlesInv DEF SettlesOf
<1>6. /\ Free \in Hold /\ (speech' = Free => HoldInv')
      /\ speech' = speech /\ conv' = conv => speech' \in Hold /\ HoldInv'
  BY <1>2 DEF OwingInv, HoldInv, TypesInv, Free, Hold, None
<1>7. ASSUME NEW result \in {"said", "nothing", "raised"},
             NEW state \in {turn[t].state, "ignored", "failed"},
             turn' = [turn EXCEPT ![t] = Listened(t, result, state)],
             conv' = conv \/ /\ conv' = [conv EXCEPT ![c].queue = @ \ {t}]
                             /\ state \in Settled \/ t \notin conv[c].queue,
             speech' = Free \/ (speech' = speech /\ conv' = conv)
      PROVE  OwingInv'
  <2> DEFINE heard == IF conv[turn[t].conv].current = t \/ state = "queued"
                      THEN result ELSE "none"
  <2>1. heard \in Hearing \cup {"none", "said", "nothing", "raised"}
    OBVIOUS
  <2>2. turn' = [turn EXCEPT ![t] = [turn[t] EXCEPT !.heard = heard, !.tries = 0,
                                                   !.state = state]]
    BY <1>7 DEF Listened
  <2> HIDE DEF heard
  <2>3. speech' \in Hold /\ HoldInv'
    BY <1>6, <1>7
  <2> QED
    BY <1>5, <1>7, <2>1, <2>2, <2>3
<1>8. CASE Listens(t)
  <2>1. CASE turn[t].flag
    BY <1>7, <1>8, <2>1 DEF Listens
  <2>2. CASE ~turn[t].flag
    <3>1. speech' = [by |-> "listen", id |-> t, cut |-> worker = "loading",
                     at |-> IF worker = "off" THEN "verify" ELSE "stream"]
      BY <1>8, <2>2 DEF Listens, Take
    <3>2. speech' \in Hold /\ HoldInv'
      BY <3>1 DEF Hold, HoldInv, Turns
    <3>3. [turn[t] EXCEPT !.heard = "held", !.tries = turn[t].tries,
                          !.state = turn[t].state] = [turn[t] EXCEPT !.heard = "held"]
      BY <1>3 DEF Record
    <3>4. turn' = [turn EXCEPT ![t] = [turn[t] EXCEPT !.heard = "held",
                                 !.tries = turn[t].tries, !.state = turn[t].state]]
      BY <1>8, <2>2, <3>3 DEF Listens
    <3>5. turn[t].tries \in {0, 1}
      BY <1>3 DEF Record
    <3> QED
      BY <1>5, <1>8, <3>2, <3>4, <3>5 DEF Listens, Hearing
  <2> QED
    BY <2>1, <2>2
<1>9. CASE HearsQuestion(t) \/ HearsNoise(t) \/ HearingBreaks(t)
  <2>1. CASE HearsQuestion(t)
    BY <1>7, <2>1 DEF HearsQuestion
  <2>2. CASE HearsNoise(t)
    <3>1. /\ turn' = [turn EXCEPT ![t] = Listened(t, "nothing", "ignored")]
          /\ conv' = [conv EXCEPT ![c].queue = @ \ {t}] /\ speech' = Free
      BY <1>0, <2>2 DEF HearsNoise, HeardNothing
    <3> QED
      BY <1>7, <3>1 DEF Settled
  <2>3. CASE HearingBreaks(t)
    BY <1>7, <2>3 DEF HearingBreaks
  <2> QED
    BY <1>9, <2>1, <2>2, <2>3
<1>10. CASE HearingFails(t)
  <2>1. CASE turn[t].tries = 0 /\ ~turn[t].flag /\ UNCHANGED conv
             /\ turn' = [turn EXCEPT ![t].heard = "want", ![t].tries = 1] /\ speech' = Free
    <3>1. [turn[t] EXCEPT !.heard = "want", !.tries = 1, !.state = turn[t].state] =
            [turn[t] EXCEPT !.heard = "want", !.tries = 1]
      BY <1>3 DEF Record
    <3>2. turn' = [turn EXCEPT ![t] = [turn[t] EXCEPT !.heard = "want", !.tries = 1,
                                                     !.state = turn[t].state]]
      BY <1>2, <1>3, <2>1, <3>1 DEF TypesInv, Record
    <3> QED
      BY <1>5, <1>6, <2>1, <3>2 DEF Hearing
  <2>2. CASE HeardNothing(t, IF turn[t].flag THEN turn[t].state ELSE "failed")
    <3>1. PICK state \in {turn[t].state, "failed"} :
            HeardNothing(t, state) /\ (turn[t].flag \/ state = "failed")
      BY <2>2
    <3>2. /\ turn' = [turn EXCEPT ![t] = Listened(t, "nothing", state)]
          /\ conv' = [conv EXCEPT ![c].queue = @ \ {t}] /\ speech' = Free
      BY <1>0, <3>1 DEF HeardNothing
    <3>3. turn[t].flag => t \notin conv[c].queue
      BY <1>4 DEF Placed
    <3> QED
      BY <1>7, <3>1, <3>2, <3>3 DEF Settled
  <2> QED
    BY <1>10, <2>1, <2>2 DEF HearingFails
<1>11. CASE HearsStop(t)
  <2> DEFINE record == [ConvAfter(c, None, t) EXCEPT !.queue = @ \ {t}]
             own == Listened(t, "nothing", "ignored")
  <2>1. /\ conv' = [conv EXCEPT ![c] = record]
        /\ turn' = [TurnsAfter(c, None, t) EXCEPT ![t] = own]
        /\ Abandon(Silenced(c, None, t) \cup {t}, c, Kills(c, None, t),
                   StopsWorker(c, None, t))
    BY <1>0, <1>11 DEF HearsStop
  <2>2. /\ record.queue = conv[c].queue \ (Dropped(c, None, t) \cup {t})
        /\ record.current = conv[c].current /\ record.runner = conv[c].runner
        /\ record.ended = conv[c].ended
        /\ record.answer = IF Kills(c, None, t) THEN "over" ELSE conv[c].answer
    BY <1>2, <1>3, ConvAfterFields, FieldsAre
  <2>3. /\ own \in Record /\ own.conv = turn[t].conv /\ own.flag = turn[t].flag
        /\ own.state = "ignored"
    BY <1>3 DEF Listened, Record
  <2>4. TurnsAfter(c, None, t) \in [Turns -> Record]
    BY <1>2, TurnsAfterType
  <2> HIDE DEF record, own
  <2>5. turn' \in [Turns -> Record] /\ turn'[t] = own
        /\ \A u \in Turns : u # t => turn'[u] = TurnsAfter(c, None, t)[u]
    BY <2>1, <2>3, <2>4
  <2>6. turn'[t].state \in Settled /\ turn[t].conv # None
    BY <1>0, <1>3, <2>3, <2>5 DEF Settled
  <2> QED
    BY <1>2, <1>3, <2>1, <2>2, <2>3, <2>5, <2>6, StopOwing
<1> QED
  BY <1>8, <1>9, <1>10, <1>11 DEF ListenStep

-----------------------------------------------------------------------------
(* The worker and the windows *)

LEMMA WorkerOwing ==
  ASSUME OwingInv, IInv', WorkerStep
  PROVE  OwingInv'
<1>1. TypesInv /\ HoldInv /\ StageInv
  BY DEF OwingInv
<1>2. /\ UNCHANGED <<conversation, conv, turn, window, count>> /\ 1 \in Conversations
      /\ speech' \in {speech, [speech EXCEPT !.at = "poll"], [speech EXCEPT !.at = "stream"]}
      /\ speech' = speech \/ speech.at # "none"
  BY DEF WorkerStep, Loads, HolderLaunches, HolderStreams, Conversations
<1>3. WindowsStay
  BY <1>1, <1>2, TickStays
<1>4. ConvSettles(1) /\ Staged(1)' /\ TurnsSettle(1)
  <2>1. ConvSettles(1) /\ Staged(1)' /\ Owes(1) \subseteq Owes(1)'
    BY <1>1, <1>2 DEF ConvSettles, StageInv, Staged, Owes
  <2> QED
    BY <1>1, <1>2, <2>1, NoTurn
<1>5. /\ speech' \in Hold /\ speech'.by = speech.by /\ speech'.id = speech.id
      /\ speech' = speech \/ speech.at # "none"
  BY <1>1, <1>2 DEF TypesInv, Hold
<1>6. HoldInv'
  BY <1>1, <1>2, <1>5 DEF HoldInv
<1> QED
  BY <1>2, <1>3, <1>4, <1>5, <1>6, SettlesInv DEF SettlesOf

(* A window takes, holds or loses a conversation; nothing else happens.    *)
LEMMA SocketOwing ==
  ASSUME OwingInv, IInv', WindowsStay, NEW c \in Conversations, NEW socket,
         conv' = conv \/ conv' = [conv EXCEPT ![c].socket = socket],
         turn' = turn, speech' \in {speech, Cut(speech)}
  PROVE  OwingInv'
<1>1. TypesInv /\ Shape /\ Staged(c)
  BY DEF OwingInv, IInv, StageInv
<1>2. /\ \A d \in Conversations \ {c} : conv'[d] = conv[d]
      /\ conv'[c].queue = conv[c].queue /\ conv'[c].current = conv[c].current
      /\ conv'[c].runner = conv[c].runner /\ conv'[c].answer = conv[c].answer
      /\ conv'[c].ended = conv[c].ended
  BY <1>1, FieldsAre DEF Shape
<1>3. ConvSettles(c) /\ Staged(c)' /\ HoldsOn(c) /\ Owes(c) \subseteq Owes(c)'
  BY <1>1, <1>2 DEF ConvSettles, Staged, HoldsOn, Owes
<1> QED
  BY <1>1, <1>3, NoTurn, StepSettles

LEMMA WindowOwing ==
  ASSUME OwingInv, IInv', NEW w \in Windows, Launch(w) \/ Attach(w) \/ SendFails(w)
  PROVE  OwingInv'
<1>1. TypesInv /\ Shape /\ OneInv
  BY DEF OwingInv, IInv
<1>2. window[w].at # "off" /\ window[w].conv \in Conversations
  BY <1>1 DEF OneInv, Shape, Launch, Attach, SendFails
<1>3. WindowsStay
  <2>1. CASE SendFails(w)
    BY <1>1, <2>1, TickStays DEF SendFails
  <2>2. CASE Launch(w) \/ Attach(w)
    <3>1. PICK at \in {"poll", "open"} : window' = [window EXCEPT ![w].at = at]
      BY <2>2 DEF Launch, Attach
    <3>2. UNCHANGED <<conversation, count>>
      BY <2>2 DEF Launch, Attach
    <3> QED
      BY <1>1, <1>2, <3>1, <3>2 DEF WindowsStay, Shape, TypesInv
  <2> QED
    BY <2>1, <2>2
<1>4. PICK socket : conv' = conv \/ conv' = [conv EXCEPT ![window[w].conv].socket = socket]
  BY DEF Launch, Attach, SendFails
<1>5. turn' = turn /\ speech' \in {speech, Cut(speech)}
  BY DEF Launch, Attach, SendFails
<1> QED
  BY <1>2, <1>3, <1>4, <1>5, SocketOwing

LEMMA TakeInOwing ==
  ASSUME OwingInv, IInv', NEW w \in Windows, TakeIn(w)
  PROVE  OwingInv'
<1>1. PICK c, t : c = window[w].conv /\ t = window[w].turn
  OBVIOUS
<1>2. /\ window[w].at = "intake" /\ UNCHANGED <<conversation, speech, count>>
      /\ turn' = [turn EXCEPT ![t].heard = IF window[w].spoken THEN "want" ELSE @]
      /\ conv' = [conv EXCEPT ![c].runner = Started(conv[c])]
      /\ window' = [window EXCEPT ![w] = [Away EXCEPT !.at = "open", !.conv = c]]
  BY <1>1 DEF TakeIn
<1>3. /\ TypesInv /\ Shape /\ c \in Conversations /\ t \in Turns /\ turn[t].conv # None
      /\ turn[t] \in Record
  BY <1>1, <1>2 DEF OwingInv, IInv, OneInv, HearInv, Shape, TypesInv
<1>4. Staged(c)
  BY <1>3 DEF OwingInv, StageInv
<1>5. WindowsStay
  <2>1. [Away EXCEPT !.at = "open", !.conv = c].at = "open"
        /\ [Away EXCEPT !.at = "open", !.conv = c].conv = c
    BY DEF Away
  <2> QED
    BY <1>1, <1>2, <1>3, <2>1 DEF WindowsStay, Shape, TypesInv
<1>6. /\ \A d \in Conversations \ {c} : conv'[d] = conv[d]
      /\ conv'[c].queue = conv[c].queue /\ conv'[c].current = conv[c].current
      /\ conv'[c].runner = Started(conv[c]) /\ conv'[c].answer = conv[c].answer
      /\ conv'[c].ended = conv[c].ended
  BY <1>2, <1>3, FieldsAre DEF Shape
<1>7. ConvSettles(c) /\ Staged(c)' /\ HoldsOn(c) /\ Owes(c) \subseteq Owes(c)'
  BY <1>2, <1>4, <1>6 DEF ConvSettles, Staged, HoldsOn, Owes, Started
<1>8. TurnsSettle(c)
  <2> DEFINE record == [turn[t] EXCEPT !.heard = IF window[w].spoken THEN "want" ELSE @]
  <2>1. /\ record \in Record /\ record.conv = turn[t].conv /\ record.flag = turn[t].flag
        /\ record.state = turn[t].state
    BY <1>3 DEF Record, Hearing
  <2>2. turn' = [turn EXCEPT ![t] = record]
    BY <1>2
  <2> HIDE DEF record
  <2> QED
    BY <1>3, <1>7, <2>1, <2>2, OneTurn
<1> QED
  BY <1>3, <1>5, <1>7, <1>8, StepSettles

LEMMA StopStepOwing ==
  ASSUME OwingInv, IInv', NEW w \in Windows, NEW identifier, Stop(w, identifier)
  PROVE  OwingInv'
<1>1. PICK c : c = window[w].conv
  OBVIOUS
<1>2. /\ window[w].at = "open" /\ UserActs /\ UNCHANGED <<conversation, window>>
      /\ turn' = TurnsAfter(c, identifier, None)
      /\ conv' = [conv EXCEPT ![c] = ConvAfter(c, identifier, None)]
      /\ Abandon(Silenced(c, identifier, None), c, Kills(c, identifier, None),
                 StopsWorker(c, identifier, None))
  BY <1>1 DEF Stop
<1>3. TypesInv /\ Shape /\ c \in Conversations /\ Placed(c)
  BY <1>1, <1>2 DEF OwingInv, IInv, OneInv, PlaceInv, Shape
<1>4. WindowsStay
  BY <1>2, <1>3, TickStays
<1>5. PICK record : record = ConvAfter(c, identifier, None)
  OBVIOUS
<1>6. None \notin conv[c].queue /\ None \notin Turns
  BY <1>3 DEF Placed, Owes, Turns, None
<1>7. /\ record.queue = conv[c].queue \ (Dropped(c, identifier, None) \cup {None})
      /\ record.current = conv[c].current /\ record.runner = conv[c].runner
      /\ record.ended = conv[c].ended
      /\ record.answer = IF Kills(c, identifier, None) THEN "over" ELSE conv[c].answer
  BY <1>3, <1>5, <1>6, ConvAfterFields
<1>8. turn' \in [Turns -> Record]
  BY <1>2, <1>3, TurnsAfterType
<1> QED
  BY <1>2, <1>3, <1>4, <1>5, <1>6, <1>7, <1>8, StopOwing

-----------------------------------------------------------------------------
(* Who comes, goes and asks *)

(* A step that touches no question and nothing a conversation answers.     *)
LEMMA RestOwing ==
  ASSUME OwingInv, IInv', turn' = turn, count' \in [Counted -> Nat],
         count'["turns"] = count["turns"],
         \A d \in Conversations :
           /\ conv'[d].queue = conv[d].queue /\ conv'[d].current = conv[d].current
           /\ conv'[d].runner = conv[d].runner /\ conv'[d].answer = conv[d].answer
           /\ conv[d].ended => conv'[d].ended,
         speech' \in Hold, speech'.by = speech.by, speech'.id = speech.id,
         speech'.at = speech.at, FreshInv', OneInv',
         \A w \in Windows : window'[w].at = "intake" => window'[w] = window[w]
  PROVE  OwingInv'
<1>1. TypesInv'
  BY DEF OwingInv, TypesInv
<1>2. \A d \in Conversations : Owes(d)' = Owes(d)
  BY DEF Owes
<1>3. StageInv' /\ FlagInv'
  BY DEF OwingInv, StageInv, Staged, FlagInv, Unsettled
<1>4. PlaceInv'
  BY <1>2 DEF OwingInv, PlaceInv, Placed
<1>5. OwedInv'
  <2> SUFFICES ASSUME NEW t \in Turns, Unsettled(t)
               PROVE  /\ turn[t].conv # None
                      /\ conv'[turn[t].conv].ended \/ t \in Owes(turn[t].conv)'
    BY DEF OwedInv, Unsettled
  <2>1. PICK d : d = turn[t].conv
    OBVIOUS
  <2>2. d # None /\ d \in Conversations /\ (conv[d].ended \/ t \in Owes(d))
    BY <2>1 DEF OwingInv, OwedInv, TypesInv, Record
  <2>3. conv'[d].ended \/ t \in Owes(d)'
    BY <1>2, <2>2
  <2>4. turn'[t].conv = d
    BY <2>1
  <2> QED
    BY <2>1, <2>2, <2>3, <2>4 DEF Owes
<1>6. HoldInv' /\ HearInv'
  BY DEF OwingInv, HoldInv, HearInv
<1> QED
  BY <1>1, <1>3, <1>4, <1>5, <1>6 DEF OwingInv

LEMMA LeaveOwing ==
  ASSUME OwingInv, IInv', NEW w \in Windows, Leave(w)
  PROVE  OwingInv'
<1>0. PICK c : c = window[w].conv
  OBVIOUS
<1>1. TypesInv /\ Shape /\ c \in Conversations /\ UNCHANGED <<turn, count>>
  BY <1>0 DEF OwingInv, IInv, Shape, OneInv, Leave, Connecting
<1>2. PICK unused \in BOOLEAN :
        /\ unused => ~Busy(c)
        /\ window' = [window EXCEPT ![w] = Away]
        /\ conv' = IF conv[c].ended THEN conv
                   ELSE [conv EXCEPT ![c].socket = Detached(c, w), ![c].ended = unused]
        /\ conversation' = IF unused /\ conversation = c THEN None ELSE conversation
        /\ unused => conv'[c].ended
  <2> DEFINE unused == /\ Unneeded(c, Detached(c, w))
                       /\ \A t \in conv[c].turns : turn[t].state = "ignored"
  <2>1. /\ window' = [window EXCEPT ![w] = Away]
        /\ conv' = IF conv[c].ended THEN conv
                   ELSE [conv EXCEPT ![c].socket = Detached(c, w), ![c].ended = unused]
        /\ conversation' = IF unused /\ conversation = c THEN None ELSE conversation
    BY <1>0 DEF Leave
  <2>2. (unused => ~Busy(c) /\ ~conv[c].ended) /\ unused \in BOOLEAN
    BY DEF Unneeded
  <2> HIDE DEF unused
  <2>3. unused => conv'[c].ended
    BY <1>1, <2>1, <2>2, FieldsAre DEF Shape
  <2> QED
    BY <2>1, <2>2, <2>3
<1>3. \A d \in Conversations :
        /\ conv'[d].queue = conv[d].queue /\ conv'[d].current = conv[d].current
        /\ conv'[d].runner = conv[d].runner /\ conv'[d].answer = conv[d].answer
        /\ conv[d].ended => conv'[d].ended
        /\ Busy(d)' = Busy(d)
  <2>1. CASE conv' = conv
    BY <2>1 DEF Busy
  <2>2. CASE /\ ~conv[c].ended
             /\ conv' = [conv EXCEPT ![c].socket = Detached(c, w), ![c].ended = unused]
    BY <1>1, <2>2, FieldsAre DEF Shape, Busy
  <2> QED
    BY <1>2, <2>1, <2>2
<1>4. speech' \in Hold /\ speech'.by = speech.by /\ speech'.id = speech.id
      /\ speech'.at = speech.at
  <2>1. speech' \in {speech, Cut(speech)}
    BY DEF Leave, StopWorker
  <2> QED
    BY <1>1, <2>1, CutIsHold DEF TypesInv
<1>5. \A v \in Windows : window'[v] = IF v = w THEN Away ELSE window[v]
  BY <1>2, <1>1 DEF Shape
<1>6. Away.at = "off" /\ Away.conv = None
  BY DEF Away
<1>7. FreshInv'
  BY <1>2, <1>1, <1>3, <1>5, <1>6 DEF OwingInv, FreshInv, TypesInv, Counted, None
<1>8. OneInv'
  <2>1. ASSUME NEW d \in Conversations, Busy(d)', ~conv'[d].ended
        PROVE  d = conversation'
    BY <1>2, <1>3, <2>1 DEF OwingInv, OneInv
  <2>2. ASSUME NEW v \in Windows, window'[v].at # "off"
        PROVE  /\ window'[v].conv # None
               /\ conv'[window'[v].conv].ended \/ window'[v].conv = conversation'
    <3>1. PICK d : d = window[v].conv /\ d = window'[v].conv
      BY <1>5, <1>6, <2>2
    <3>2. d # None /\ d \in Conversations /\ (conv[d].ended \/ d = conversation)
      BY <1>1, <1>5, <1>6, <2>2, <3>1 DEF OwingInv, OneInv, Shape
    <3>3. conv'[d].ended \/ d = conversation'
      BY <1>2, <1>3, <3>2
    <3> QED
      BY <3>1, <3>2, <3>3
  <2> QED
    BY <2>1, <2>2 DEF OneInv
<1>9. \A v \in Windows : window'[v].at = "intake" => window'[v] = window[v]
  BY <1>5, <1>6
<1>10. count' \in [Counted -> Nat] /\ count'["turns"] = count["turns"]
  BY <1>1 DEF TypesInv
<1> QED
  BY <1>1, <1>3, <1>4, <1>7, <1>8, <1>9, <1>10, RestOwing

LEMMA ForgetOwing ==
  ASSUME OwingInv, IInv', Forget
  PROVE  OwingInv'
<1>1. TypesInv
  BY DEF OwingInv
<1>2. FreshInv' /\ OneInv'
  BY <1>1 DEF OwingInv, FreshInv, OneInv, Forget, Busy, None, TypesInv, Counted
<1> QED
  BY <1>1, <1>2, RestOwing DEF Forget, TypesInv

LEMMA ResumesOwing ==
  ASSUME OwingInv, IInv', NEW w \in Windows, NEW lease, conversation # None,
         Resumes(w, conversation, lease)
  PROVE  OwingInv'
<1>1. TypesInv /\ Shape
  BY DEF OwingInv, IInv
<1>2. /\ UNCHANGED <<conversation, turn, speech>> /\ conversation \in Conversations
      /\ window' = [window EXCEPT ![w] = [Away EXCEPT !.at = Booting, !.conv = conversation]]
      /\ count' = [count EXCEPT !["visits"] = w]
  BY <1>1 DEF Resumes, Shape
<1>3. \A d \in Conversations :
        /\ conv'[d].queue = conv[d].queue /\ conv'[d].current = conv[d].current
        /\ conv'[d].runner = conv[d].runner /\ conv'[d].answer = conv[d].answer
        /\ conv'[d].ended = conv[d].ended
        /\ Busy(d)' = Busy(d)
  <2>1. PICK engine, successor : conv' = [conv EXCEPT ![conversation] =
               [conv[conversation] EXCEPT !.engine = engine, !.successor = successor]]
    <3>1. conv' = [conv EXCEPT ![conversation] =
            [conv[conversation] EXCEPT
               !.engine = IF Busy(conversation) THEN @ ELSE lease.engine,
               !.successor = IF Busy(conversation)
                                /\ (lease.other \/ lease.engine # conv[conversation].engine)
                             THEN <<lease>> ELSE @]]
      BY <1>1, <1>2, FieldsAre DEF Resumes, Shape
    <3> QED
      BY <3>1
  <2> QED
    BY <1>1, <1>2, <2>1, FieldsAre DEF Shape, Busy
<1>4. /\ count' \in [Counted -> Nat] /\ count'["turns"] = count["turns"]
      /\ count'["conversations"] = count["conversations"]
  BY <1>1, <1>2 DEF TypesInv, Counted, Windows
<1>5. /\ window'[w].conv = conversation /\ window'[w].at \in Connecting
      /\ \A v \in Windows \ {w} : window'[v] = window[v]
  BY <1>1, <1>2 DEF Shape, Away, Booting, Connecting
<1>6. FreshInv'
  BY <1>2, <1>3, <1>4, <1>5 DEF OwingInv, FreshInv
<1>7. OneInv'
  <2>1. ASSUME NEW v \in Windows, window'[v].at # "off"
        PROVE  /\ window'[v].conv # None
               /\ conv'[window'[v].conv].ended \/ window'[v].conv = conversation
    <3>1. window[v].conv \in {None} \cup Conversations
      BY <1>1 DEF Shape
    <3> QED
      BY <1>3, <1>5, <2>1, <3>1 DEF OwingInv, OneInv
  <2> QED
    BY <1>2, <1>3, <2>1 DEF OwingInv, OneInv
<1>8. \A v \in Windows : window'[v].at = "intake" => window'[v] = window[v]
  BY <1>5 DEF Connecting
<1> QED
  BY <1>1, <1>2, <1>3, <1>4, <1>6, <1>7, <1>8, RestOwing DEF TypesInv

(* The conversation that is left is idle: it ends owing nothing.           *)
LEMMA StartsOwing ==
  ASSUME OwingInv, IInv', NEW w \in Windows, NEW lease,
         StartsAnother(w, conversation, lease)
  PROVE  OwingInv'
<1>1. PICK c, new : c = conversation /\ new = count["conversations"] + 1
  OBVIOUS
<1>2. /\ new \in Conversations /\ (c # None => ~Busy(c)) /\ conversation' = new
      /\ conv' = [d \in Conversations |->
           IF d = new THEN NewConversation(lease.engine)
           ELSE IF d = c THEN Ended(None) ELSE conv[d]]
      /\ turn' = [t \in Turns |->
           [turn[t] EXCEPT !.heard = IF t \in OfConversation(c) THEN "none" ELSE @]]
      /\ window' = [window EXCEPT ![w] = [Away EXCEPT !.at = Booting, !.conv = new]]
      /\ count' = [count EXCEPT !["visits"] = w, !["conversations"] = new]
      /\ speech' \in {speech, Free}
  BY <1>1 DEF StartsAnother, Abandon
<1>3. TypesInv /\ Shape /\ FreshInv /\ StageInv /\ PlaceInv /\ OneInv /\ HoldInv
  BY DEF OwingInv, IInv
<1>4. /\ \A engine : LET d == NewConversation(engine)
                     IN /\ d.queue = {} /\ d.current = None
                        /\ d.runner = "off" /\ d.answer = "none"
      /\ LET d == Ended(None)
         IN d.queue = {} /\ d.current = None /\ d.runner = "off" /\ d.answer = "none"
  BY DEF NewConversation, Ended
<1>5. NewConversation(lease.engine).ended = FALSE /\ Ended(None).ended = TRUE
  BY DEF NewConversation, Ended
<1>6. \A d \in Conversations \ {c, new} : conv'[d] = conv[d]
  BY <1>2
<1>7. \A d \in {c, new} \cap Conversations :
        /\ conv'[d].queue = {} /\ conv'[d].current = None
        /\ conv'[d].runner = "off" /\ conv'[d].answer = "none"
  BY <1>2, <1>4
<1>8. c \notin {None, new} => c \in Conversations /\ conv'[c].ended
  BY <1>1, <1>2, <1>3, <1>5 DEF Shape
<1>9. ~Busy(new) /\ new # c /\ new \in Nat
  BY <1>1, <1>2, <1>3 DEF FreshInv, TypesInv, Counted, Conversations
<1>10. \A t \in Turns :
         /\ turn'[t] \in Record /\ turn'[t].conv = turn[t].conv
         /\ turn'[t].flag = turn[t].flag /\ turn'[t].state = turn[t].state
         /\ turn'[t].heard \in {"none", turn[t].heard}
  <2> SUFFICES ASSUME NEW t \in Turns,
                      NEW heard \in {"none", turn[t].heard},
                      turn'[t] = [turn[t] EXCEPT !.heard = heard]
               PROVE  /\ turn'[t] \in Record /\ turn'[t].conv = turn[t].conv
                      /\ turn'[t].flag = turn[t].flag /\ turn'[t].state = turn[t].state
                      /\ turn'[t].heard \in {"none", turn[t].heard}
    BY <1>2
  <2>1. turn[t] \in Record
    BY <1>3 DEF TypesInv
  <2> QED
    BY <2>1 DEF Record
<1>11. /\ count' \in [Counted -> Nat] /\ count'["turns"] = count["turns"]
       /\ count'["conversations"] = new
  BY <1>2, <1>3, <1>9 DEF TypesInv, Counted, Windows
<1>12. /\ window'[w].conv = new /\ window'[w].at \in Connecting
       /\ \A v \in Windows \ {w} : window'[v] = window[v]
  BY <1>2, <1>3 DEF Shape, Away, Booting, Connecting
<1>13. TypesInv'
  <2>1. turn' \in [Turns -> Record]
    BY <1>2, <1>10
  <2> QED
    BY <1>2, <1>3, <1>11, <2>1, CutIsHold DEF TypesInv
<1>14. \A d \in Conversations : Busy(d)' => Busy(d) /\ d \notin {c, new}
  BY <1>6, <1>7 DEF Busy
<1>15. FreshInv'
  <2>1. \A v \in Windows : window'[v].conv <= new
    <3>1. \A v \in Windows : window[v].conv \in Nat
      BY <1>3 DEF Shape, Conversations, None
    <3> QED
      BY <1>1, <1>3, <1>9, <1>12, <3>1 DEF FreshInv, TypesInv, Counted
  <2>2. \A t \in Turns : turn'[t].conv <= new
    <3>1. \A t \in Turns : turn[t].conv \in Nat
      BY <1>3 DEF TypesInv, Record, Conversations, None
    <3> QED
      BY <1>1, <1>3, <1>10, <3>1 DEF FreshInv, TypesInv, Counted
  <2>3. \A d \in Conversations : d > new => ~Busy(d)'
    <3>1. \A d \in Conversations : d \in Nat
      BY DEF Conversations
    <3> QED
      BY <1>1, <1>3, <1>14, <3>1 DEF FreshInv, TypesInv, Counted
  <2> QED
    BY <1>2, <1>9, <1>11, <2>1, <2>2, <2>3 DEF FreshInv
<1>16. StageInv'
  BY <1>3, <1>6, <1>7 DEF StageInv, Staged
<1>17. PlaceInv'
  <2> SUFFICES ASSUME NEW d \in Conversations
               PROVE  Placed(d)'
    BY DEF PlaceInv
  <2>1. CASE d \in {c, new}
    BY <1>7, <2>1 DEF Placed, Owes
  <2>2. CASE d \notin {c, new}
    <3>1. conv'[d] = conv[d] /\ Owes(d)' = Owes(d) /\ Placed(d)
      BY <1>3, <1>6, <2>2 DEF Owes, PlaceInv
    <3> QED
      BY <1>10, <1>11, <3>1 DEF Placed, Owes
  <2> QED
    BY <2>1, <2>2
<1>18. FlagInv'
  BY <1>10 DEF OwingInv, FlagInv, Unsettled
<1>19. OwedInv'
  <2> SUFFICES ASSUME NEW t \in Turns, Unsettled(t)'
               PROVE  /\ turn'[t].conv # None
                      /\ conv'[turn'[t].conv].ended \/ t \in Owes(turn[t].conv)'
    BY DEF OwedInv
  <2>1. PICK d : d = turn[t].conv /\ d = turn'[t].conv
    BY <1>10
  <2>2. Unsettled(t) /\ d # None /\ d \in Conversations /\ (conv[d].ended \/ t \in Owes(d))
    BY <1>3, <1>10, <2>1 DEF OwingInv, OwedInv, TypesInv, Record, Unsettled
  <2>3. d # new
    <3>1. count["conversations"] \in Nat /\ d \in Nat
      BY <1>3, <2>2 DEF TypesInv, Counted, Conversations
    <3>2. d <= count["conversations"]
      BY <1>3, <2>1 DEF FreshInv
    <3> QED
      BY <1>1, <3>1, <3>2
  <2>4. conv'[d].ended \/ (conv'[d] = conv[d] /\ (conv[d].ended \/ t \in Owes(d)))
    BY <1>6, <1>8, <2>2, <2>3
  <2>5. conv'[d].ended \/ t \in conv'[d].queue \cup ({conv'[d].current} \ {None})
    BY <2>4 DEF Owes
  <2> QED
    BY <2>1, <2>2, <2>5 DEF Owes
<1>20. HoldInv'
  <2>1. CASE speech' = Free
    BY <2>1, CutIsHold, <1>3 DEF HoldInv, TypesInv
  <2>2. CASE speech' = speech
    <3>1. ASSUME speech.by = "answer"
          PROVE  speech.id \notin {c, new}
      <4>1. speech.id \in Conversations /\ conv[speech.id].answer = "speak"
        BY <1>3, <3>1 DEF HoldInv
      <4>2. Busy(speech.id)
        BY <1>3, <4>1 DEF StageInv, Staged, Busy
      <4> QED
        BY <1>2, <1>9, <4>1, <4>2 DEF Conversations, None
    <3> QED
      BY <1>3, <1>6, <2>2, <3>1 DEF HoldInv
  <2> QED
    BY <1>2, <2>1, <2>2
<1>21. OneInv'
  <2>1. ASSUME NEW d \in Conversations, Busy(d)', ~conv'[d].ended
        PROVE  d = conversation'
    BY <1>1, <1>3, <1>6, <1>14, <2>1 DEF OneInv
  <2>2. ASSUME NEW v \in Windows, window'[v].at # "off"
        PROVE  /\ window'[v].conv # None
               /\ conv'[window'[v].conv].ended \/ window'[v].conv = conversation'
    <3>1. CASE v = w
      BY <1>2, <1>12, <3>1 DEF Conversations, None
    <3>2. CASE v # w
      <4>1. PICK d : d = window[v].conv /\ d = window'[v].conv
        BY <1>12, <3>2
      <4>2. d # None /\ d \in Conversations /\ (conv[d].ended \/ d = c)
        BY <1>1, <1>3, <1>12, <2>2, <3>2, <4>1 DEF OneInv, Shape
      <4>3. d # new
        <5>1. count["conversations"] \in Nat /\ d \in Nat
          BY <1>3, <4>2 DEF TypesInv, Counted, Conversations
        <5>2. d <= count["conversations"]
          BY <1>3, <4>1 DEF FreshInv
        <5> QED
          BY <1>1, <5>1, <5>2
      <4>4. conv'[d].ended
        BY <1>6, <1>8, <4>2, <4>3
      <4> QED
        BY <4>1, <4>2, <4>4
    <3> QED
      BY <3>1, <3>2
  <2> QED
    BY <2>1, <2>2 DEF OneInv
<1>22. HearInv'
  BY <1>10, <1>12 DEF OwingInv, HearInv, Connecting
<1> QED
  BY <1>13, <1>15, <1>16, <1>17, <1>18, <1>19, <1>20, <1>21, <1>22 DEF OwingInv

(* A question is new, and asked of the conversation that is carried on.    *)
LEMMA AskOwing ==
  ASSUME OwingInv, IInv', NEW w \in Windows, NEW spoken \in BOOLEAN, Ask(w, spoken)
  PROVE  OwingInv'
<1>1. PICK c, t : c = window[w].conv /\ t = count["turns"] + 1
  OBVIOUS
<1>2. TypesInv /\ Shape /\ FreshInv /\ StageInv /\ PlaceInv /\ OneInv /\ HoldInv
  BY DEF OwingInv, IInv
<1>3. /\ window[w].at = "open" /\ t \in Turns /\ UNCHANGED <<conversation, speech>>
      /\ count' = [count EXCEPT !["turns"] = @ + 1]
      /\ c # None /\ c \in Conversations /\ (conv[c].ended \/ c = conversation)
  BY <1>1, <1>2 DEF Ask, Tick, OneInv, Shape
<1>4. /\ count' \in [Counted -> Nat] /\ count'["turns"] = t /\ count["turns"] \in Nat
      /\ count'["conversations"] = count["conversations"]
  BY <1>1, <1>2, <1>3 DEF TypesInv, Counted
<1>5. \A d \in Conversations : \A u \in Owes(d) : u \in Turns /\ u <= count["turns"] /\ u # t
  BY <1>1, <1>2, <1>4 DEF PlaceInv, Placed, Turns
<1>6. turn[t] \in Record
  BY <1>2, <1>3 DEF TypesInv
<1>7. CASE /\ turn' = [turn EXCEPT ![t].state = "refused"] /\ UNCHANGED <<conv, window>>
  <2> DEFINE record == [turn[t] EXCEPT !.state = "refused"]
  <2>1. /\ record \in Record /\ record.conv = turn[t].conv /\ record.flag = turn[t].flag
        /\ record.heard = turn[t].heard /\ record.state = "refused"
    BY <1>6 DEF Record
  <2>2. turn' = [turn EXCEPT ![t] = record]
    BY <1>7
  <2> HIDE DEF record
  <2>3. /\ turn' \in [Turns -> Record] /\ turn'[t] = record
        /\ \A u \in Turns \ {t} : turn'[u] = turn[u]
    BY <1>2, <1>3, <2>1, <2>2 DEF TypesInv
  <2>4. TypesInv' /\ FreshInv'
    BY <1>2, <1>3, <1>4, <1>7, <2>1, <2>3 DEF TypesInv, FreshInv, Busy
  <2>5. StageInv' /\ HoldInv' /\ OneInv'
    BY <1>2, <1>3, <1>7 DEF StageInv, Staged, HoldInv, OneInv, Busy
  <2>6. PlaceInv'
    <3> SUFFICES ASSUME NEW d \in Conversations
                 PROVE  Placed(d)'
      BY DEF PlaceInv
    <3>1. Owes(d)' = Owes(d) /\ conv'[d] = conv[d] /\ Placed(d)
      BY <1>2, <1>7 DEF Owes, PlaceInv
    <3>2. \A u \in Owes(d) : turn'[u] = turn[u] /\ u <= count'["turns"]
      BY <1>1, <1>4, <1>5, <2>3 DEF Turns
    <3> QED
      BY <3>1, <3>2 DEF Placed, Owes
  <2>7. FlagInv' /\ HearInv'
    BY <1>7, <2>1, <2>3 DEF OwingInv, FlagInv, HearInv, Unsettled
  <2>8. OwedInv'
    <3> SUFFICES ASSUME NEW u \in Turns, Unsettled(u)'
                 PROVE  /\ turn'[u].conv # None
                        /\ conv[turn'[u].conv].ended \/ u \in Owes(turn'[u].conv)
      BY <1>7 DEF OwedInv, Owes
    <3>1. u # t
      BY <2>1, <2>3 DEF Unsettled
    <3>2. turn'[u] = turn[u]
      BY <2>3, <3>1
    <3> QED
      BY <3>2 DEF OwingInv, OwedInv, Unsettled
  <2> QED
    BY <2>4, <2>5, <2>6, <2>7, <2>8 DEF OwingInv
<1>8. ASSUME NEW waited \in BOOLEAN, NEW heard \in {"want", "none"}, NEW runner,
             turn' = [turn EXCEPT ![t] = [NewTurn EXCEPT !.conv = c, !.waited = waited,
                                                         !.state = "queued", !.heard = heard]],
             conv' = [conv EXCEPT ![c].queue = @ \cup {t}, ![c].turns = @ \cup {t},
                                  ![c].runner = runner],
             runner \in {conv[c].runner, Started(conv[c])},
             \A v \in Windows : window'[v].conv = window[v].conv /\
               (window'[v].at # "off" => window[v].at # "off") /\
               (window'[v].at = "intake" => window'[v] = window[v] \/ window'[v].turn = t)
      PROVE  OwingInv'
  <2> DEFINE record == [NewTurn EXCEPT !.conv = c, !.waited = waited, !.state = "queued",
                                       !.heard = heard]
  <2>1. /\ record \in Record /\ record.conv = c /\ record.flag = FALSE
        /\ record.state = "queued"
    BY <1>3 DEF NewTurn, Record, Hearing
  <2>2. turn' = [turn EXCEPT ![t] = record]
    BY <1>8
  <2> HIDE DEF record
  <2>3. /\ turn' \in [Turns -> Record] /\ turn'[t] = record
        /\ \A u \in Turns \ {t} : turn'[u] = turn[u]
    BY <1>2, <1>3, <2>1, <2>2 DEF TypesInv
  <2>4. /\ \A d \in Conversations \ {c} : conv'[d] = conv[d]
        /\ conv'[c].queue = conv[c].queue \cup {t} /\ conv'[c].current = conv[c].current
        /\ conv'[c].runner = runner /\ conv'[c].answer = conv[c].answer
        /\ conv'[c].ended = conv[c].ended
    BY <1>2, <1>3, <1>8, FieldsAre DEF Shape
  <2>5. /\ Owes(c)' = Owes(c) \cup {t}
        /\ \A d \in Conversations \ {c} : Owes(d)' = Owes(d) /\ Busy(d)' = Busy(d)
    BY <2>4 DEF Owes, Busy
  <2>6. TypesInv'
    BY <1>2, <1>3, <1>4, <2>3 DEF TypesInv
  <2>7. FreshInv'
    <3>1. c <= count["conversations"]
      BY <1>1, <1>2 DEF FreshInv
    <3>2. c \in Nat /\ count["conversations"] \in Nat
      BY <1>2, <1>3 DEF TypesInv, Counted, Conversations
    <3>3. \A d \in Conversations : d > count["conversations"] => d # c
      BY <3>1, <3>2
    <3> QED
      BY <1>2, <1>3, <1>4, <1>8, <2>1, <2>3, <2>5, <3>1, <3>3 DEF FreshInv
  <2>8. StageInv'
    <3>1. Staged(c)'
      BY <1>2, <1>3, <1>8, <2>4 DEF StageInv, Staged, Started
    <3>2. \A d \in Conversations \ {c} : Staged(d)'
      BY <1>2, <2>4 DEF StageInv, Staged
    <3> QED
      BY <3>1, <3>2 DEF StageInv
  <2>9. PlaceInv'
    <3> SUFFICES ASSUME NEW d \in Conversations
                 PROVE  Placed(d)'
      BY DEF PlaceInv
    <3>1. conv'[d].current = conv[d].current /\ Placed(d)
          /\ \A u \in conv'[d].queue : u \in conv[d].queue \/ (u = t /\ d = c)
      BY <1>2, <2>4 DEF PlaceInv
    <3>2. \A u \in Owes(d) : u \in Turns /\ turn'[u] = turn[u] /\ u <= count'["turns"]
      BY <1>1, <1>4, <1>5, <2>3 DEF Turns
    <3>3. t <= count'["turns"]
      BY <1>3, <1>4 DEF Turns
    <3>4. \A u \in Owes(d)' : u \in Owes(d) \/ (u = t /\ d = c)
      BY <2>5
    <3>5. \A u \in Owes(d)' : u \in Turns /\ u <= count'["turns"] /\ turn'[u].conv = d
      BY <1>3, <2>1, <2>3, <3>1, <3>2, <3>3, <3>4 DEF Placed
    <3>6. conv[d].current # t
      BY <1>3, <1>5 DEF Owes, Turns, None
    <3>7. \A u \in conv'[d].queue : ~turn'[u].flag /\ u # conv'[d].current
      BY <2>1, <2>3, <3>1, <3>2, <3>6 DEF Placed, Owes
    <3>8. conv'[d].current # None => turn'[conv'[d].current].state # "queued"
      BY <3>1, <3>2 DEF Placed, Owes
    <3> QED
      BY <3>5, <3>7, <3>8 DEF Placed
  <2>10. FlagInv'
    BY <2>1, <2>3 DEF OwingInv, FlagInv, Unsettled
  <2>11. OwedInv'
    <3> SUFFICES ASSUME NEW u \in Turns, Unsettled(u)'
                 PROVE  /\ turn'[u].conv # None
                        /\ conv'[turn'[u].conv].ended \/ u \in Owes(turn[u].conv)'
      BY DEF OwedInv
    <3>1. CASE u = t
      BY <1>3, <2>1, <2>3, <2>5, <3>1 DEF Owes
    <3>2. CASE u # t
      <4>1. PICK d : d = turn[u].conv /\ d = turn'[u].conv
        BY <2>3, <3>2
      <4>2. d # None /\ d \in Conversations /\ (conv[d].ended \/ u \in Owes(d))
        BY <1>2, <2>3, <3>2, <4>1 DEF OwingInv, OwedInv, TypesInv, Record, Unsettled
      <4>3. conv'[d].ended = conv[d].ended
        BY <2>4, <4>2
      <4>4. u \in Owes(d) => u \in Owes(d)'
        BY <2>5, <4>2
      <4>5. conv'[d].ended \/ u \in conv'[d].queue \cup ({conv'[d].current} \ {None})
        BY <4>2, <4>3, <4>4 DEF Owes
      <4> QED
        BY <4>1, <4>2, <4>5 DEF Owes
    <3> QED
      BY <3>1, <3>2
  <2>12. HoldInv'
    BY <1>2, <1>3, <2>4 DEF HoldInv
  <2>13. OneInv'
    <3>1. \A d \in Conversations : conv'[d].ended = conv[d].ended
      BY <2>4
    <3>2. \A v \in Windows : window[v].conv \in {None} \cup Conversations
      BY <1>2 DEF Shape
    <3> QED
      BY <1>2, <1>3, <1>8, <2>5, <3>1, <3>2 DEF OneInv
  <2>14. HearInv'
    <3>1. \A u \in Turns : turn'[u].conv # None \/ turn'[u] = turn[u]
      BY <1>3, <2>1, <2>3
    <3>2. turn'[t].conv # None
      BY <1>3, <2>1, <2>3
    <3> QED
      BY <1>3, <1>8, <3>1, <3>2 DEF OwingInv, HearInv
  <2> QED
    BY <2>6, <2>7, <2>8, <2>9, <2>10, <2>11, <2>12, <2>13, <2>14 DEF OwingInv
<1>9. CASE ~(Cardinality(conv[c].queue) >= QueueLimit)
  <2> DEFINE atOnce == spoken /\ ~Busy(c)
  <2>1. /\ turn' = [turn EXCEPT ![t] =
              [NewTurn EXCEPT !.conv = c, !.waited = Busy(c), !.state = "queued",
                              !.heard = IF atOnce THEN "want" ELSE "none"]]
        /\ conv' = [conv EXCEPT ![c].queue = @ \cup {t}, ![c].turns = @ \cup {t},
                                ![c].runner = IF atOnce THEN Started(conv[c]) ELSE @]
        /\ window' = IF atOnce THEN window
                     ELSE [window EXCEPT ![w] =
                       [@ EXCEPT !.at = "intake", !.turn = t, !.spoken = spoken]]
    BY <1>1, <1>9 DEF Ask
  <2>2. Busy(c) \in BOOLEAN /\ (IF atOnce THEN "want" ELSE "none") \in {"want", "none"}
    BY DEF Busy
  <2>3. PICK runner \in {conv[c].runner, Started(conv[c])} :
          conv' = [conv EXCEPT ![c].queue = @ \cup {t}, ![c].turns = @ \cup {t},
                               ![c].runner = runner]
    <3>1. CASE atOnce
      BY <2>1, <3>1
    <3>2. CASE ~atOnce
      <4>1. conv' = [conv EXCEPT ![c].queue = @ \cup {t}, ![c].turns = @ \cup {t},
                                 ![c].runner = conv[c].runner]
        BY <1>2, <1>3, <2>1, <3>2, FieldsAre DEF Shape
      <4> QED
        BY <4>1
    <3> QED
      BY <3>1, <3>2
  <2>4. \A v \in Windows :
          /\ window'[v].conv = window[v].conv
          /\ window'[v].at # "off" => window[v].at # "off"
          /\ window'[v].at = "intake" => window'[v] = window[v] \/ window'[v].turn = t
    BY <1>2, <1>3, <2>1 DEF Shape
  <2> HIDE DEF atOnce
  <2> QED
    BY <1>8, <2>1, <2>2, <2>3, <2>4
<1> QED
  BY <1>1, <1>7, <1>9 DEF Ask

(* The end of a conversation settles what it owed.                         *)
LEMMA EndOwing ==
  ASSUME OwingInv, IInv', NEW c \in Conversations, End(c), UserActs,
         window' = window \/ \E w \in Windows : window' = [window EXCEPT ![w] = Away]
  PROVE  OwingInv'
<1>1. TypesInv /\ Shape /\ FreshInv /\ StageInv /\ PlaceInv /\ OneInv /\ HoldInv
  BY DEF OwingInv, IInv
<1>2. /\ conversation' = IF conversation = c THEN None ELSE conversation
      /\ conv' = [conv EXCEPT ![c] = Ended(conv[c].socket)]
      /\ turn' = [t \in Turns |->
           [TurnsAfter(c, None, None)[t] EXCEPT
              !.heard = IF t \in OfConversation(c) THEN "none" ELSE @]]
      /\ speech' \in {speech, Cut(speech), Free}
      /\ speech.by = "answer" /\ speech.id = c => speech' = Free
  BY DEF End, Abandon
<1>3. LET d == Ended(conv[c].socket)
      IN /\ d.queue = {} /\ d.current = None /\ d.runner = "off" /\ d.answer = "none"
         /\ d.ended = TRUE
  BY DEF Ended, NewConversation
<1>4. /\ \A d \in Conversations \ {c} : conv'[d] = conv[d]
      /\ conv'[c].queue = {} /\ conv'[c].current = None /\ conv'[c].runner = "off"
      /\ conv'[c].answer = "none" /\ conv'[c].ended = TRUE
  BY <1>1, <1>2, <1>3 DEF Shape
<1>5. /\ count' \in [Counted -> Nat] /\ count'["turns"] = count["turns"]
      /\ count'["conversations"] = count["conversations"]
  BY <1>1 DEF TypesInv, UserActs, Tick, Counted
<1>6. \A v \in Windows : window'[v] = window[v]
                         \/ (window'[v].at = "off" /\ window'[v].conv = None)
  BY <1>1 DEF Shape, Away
<1>7. ASSUME NEW t \in Turns
      PROVE  /\ turn'[t] \in Record /\ turn'[t].conv = turn[t].conv
             /\ turn'[t].heard \in {"none", turn[t].heard}
             /\ \/ turn[t].conv = c /\ turn'[t].state = "cancelled"
                \/ turn'[t].state = turn[t].state /\ turn'[t].flag = turn[t].flag
  <2> DEFINE before == TurnsAfter(c, None, None)[t]
             stopped == Stopped(c, None, None, t)
             changed == [turn[t] EXCEPT
                           !.state = IF stopped THEN "cancelled" ELSE @,
                           !.flag = @ \/ stopped,
                           !.heard = IF t \in Silenced(c, None, None) THEN "none" ELSE @]
  <2>1. before = changed /\ before \in Record
    <3>1. before = changed
      BY DEF TurnsAfter
    <3>2. TurnsAfter(c, None, None) \in [Turns -> Record]
      BY <1>1, TurnsAfterType
    <3> QED
      BY <3>1, <3>2
  <2>2. turn[t] \in Record
    BY <1>1 DEF TypesInv
  <2>3. stopped => turn[t].conv = c
    BY <1>1 DEF Stopped, Dropped, StopsCurrent, PlaceInv, Placed, Owes
  <2> HIDE DEF stopped
  <2>4. /\ changed.conv = turn[t].conv /\ changed.heard \in {"none", turn[t].heard}
        /\ stopped => changed.state = "cancelled"
        /\ ~stopped => changed.state = turn[t].state /\ changed.flag = turn[t].flag
    BY <2>2 DEF Record
  <2> HIDE DEF changed, before
  <2>5. PICK heard \in {"none", before.heard} : turn'[t] = [before EXCEPT !.heard = heard]
    BY <1>2 DEF before
  <2>6. /\ turn'[t] \in Record /\ turn'[t].conv = before.conv /\ turn'[t].heard = heard
        /\ turn'[t].state = before.state /\ turn'[t].flag = before.flag
    BY <2>1, <2>5 DEF Record
  <2> QED
    BY <2>1, <2>3, <2>4, <2>6
<1>8. TypesInv'
  <2>1. turn' \in [Turns -> Record]
    BY <1>2, <1>7
  <2> QED
    BY <1>1, <1>2, <1>5, <2>1, CutIsHold DEF TypesInv
<1>9. \A d \in Conversations : Busy(d)' => Busy(d) /\ d # c
  BY <1>4 DEF Busy
<1>10. FreshInv'
  <2>1. conversation' <= count["conversations"] /\ None <= count["conversations"]
    BY <1>1, <1>2 DEF FreshInv, None, TypesInv, Counted
  <2> QED
    BY <1>1, <1>5, <1>6, <1>7, <1>9, <2>1 DEF FreshInv
<1>11. StageInv'
  BY <1>1, <1>4 DEF StageInv, Staged
<1>12. PlaceInv'
  <2> SUFFICES ASSUME NEW d \in Conversations
               PROVE  Placed(d)'
    BY DEF PlaceInv
  <2>1. CASE d = c
    BY <1>4, <2>1 DEF Placed, Owes
  <2>2. CASE d # c
    <3>1. conv'[d] = conv[d] /\ Owes(d)' = Owes(d) /\ Placed(d)
      BY <1>1, <1>4, <2>2 DEF Owes, PlaceInv
    <3>2. \A t \in Owes(d) : /\ t \in Turns /\ turn'[t].conv = turn[t].conv
                             /\ turn'[t].state = turn[t].state /\ turn'[t].flag = turn[t].flag
      BY <1>7, <2>2, <3>1 DEF Placed
    <3> QED
      BY <1>5, <3>1, <3>2 DEF Placed, Owes
  <2> QED
    BY <2>1, <2>2
<1>13. FlagInv'
  BY <1>7 DEF OwingInv, FlagInv, Unsettled
<1>14. OwedInv'
  <2> SUFFICES ASSUME NEW t \in Turns, Unsettled(t)'
               PROVE  /\ turn'[t].conv # None
                      /\ conv'[turn'[t].conv].ended \/ t \in Owes(turn[t].conv)'
    BY DEF OwedInv
  <2>1. PICK d : d = turn[t].conv /\ d = turn'[t].conv
    BY <1>7
  <2>2. Unsettled(t) /\ d # None /\ d \in Conversations /\ (conv[d].ended \/ t \in Owes(d))
    BY <1>1, <1>7, <2>1 DEF OwingInv, OwedInv, TypesInv, Record, Unsettled
  <2>3. conv'[d].ended \/ t \in conv'[d].queue \cup ({conv'[d].current} \ {None})
    BY <1>4, <2>2 DEF Owes
  <2> QED
    BY <2>1, <2>2, <2>3 DEF Owes
<1>15. HoldInv'
  <2>1. CASE speech' = Free
    BY <1>1, <2>1, CutIsHold DEF HoldInv, TypesInv
  <2>2. CASE speech' # Free
    <3>1. speech'.by = speech.by /\ speech'.id = speech.id /\ speech'.at = speech.at
      BY <1>1, <1>2, <2>2, CutIsHold DEF TypesInv
    <3>2. speech.by = "answer" => speech.id # c
      BY <1>2, <2>2
    <3> QED
      BY <1>1, <1>4, <3>1, <3>2 DEF HoldInv
  <2> QED
    BY <2>1, <2>2
<1>16. OneInv'
  <2>1. ASSUME NEW d \in Conversations, Busy(d)', ~conv'[d].ended
        PROVE  d = conversation'
    BY <1>1, <1>2, <1>4, <1>9, <2>1 DEF OneInv
  <2>2. ASSUME NEW v \in Windows, window'[v].at # "off"
        PROVE  /\ window'[v].conv # None
               /\ conv'[window'[v].conv].ended \/ window'[v].conv = conversation'
    <3>1. PICK d : d = window[v].conv /\ d = window'[v].conv
      BY <1>6, <2>2
    <3>2. d # None /\ d \in Conversations /\ (conv[d].ended \/ d = conversation)
      BY <1>1, <1>6, <2>2, <3>1 DEF OneInv, Shape
    <3>3. conv'[d].ended \/ d = conversation'
      BY <1>2, <1>4, <3>2
    <3> QED
      BY <3>1, <3>2, <3>3
  <2> QED
    BY <2>1, <2>2 DEF OneInv
<1>17. HearInv'
  BY <1>6, <1>7 DEF OwingInv, HearInv
<1> QED
  BY <1>8, <1>10, <1>11, <1>12, <1>13, <1>14, <1>15, <1>16, <1>17 DEF OwingInv

-----------------------------------------------------------------------------
LEMMA InitOwing == Init => OwingInv
<1> SUFFICES ASSUME Init
             PROVE  OwingInv
  OBVIOUS
<1>1. IInv
  BY InitInv
<1>2. /\ NewTurn \in Record /\ Free \in Hold /\ NewTurn.state = "none" /\ ~NewTurn.flag
      /\ NewTurn.heard = "none" /\ NewTurn.conv = None
      /\ Away.at = "off" /\ Away.conv = None /\ Free.by = "nobody" /\ Free.at = "none"
      /\ LET d == NewConversation("chat")
         IN d.queue = {} /\ d.current = None /\ d.runner = "off" /\ d.answer = "none"
  BY DEF NewTurn, Record, Free, Hold, Away, NewConversation, None
<1>3. TypesInv
  BY <1>2 DEF Init, TypesInv
<1>4. \A c \in Conversations :
        conv[c].queue = {} /\ conv[c].current = None /\ conv[c].runner = "off"
        /\ conv[c].answer = "none"
  BY <1>2 DEF Init
<1>5. FreshInv
  BY <1>2, <1>4 DEF Init, FreshInv, Busy, Counted, None
<1>6. StageInv /\ PlaceInv /\ OneInv
  BY <1>2, <1>4 DEF Init, StageInv, Staged, PlaceInv, Placed, Owes, OneInv, Busy
<1>7. FlagInv /\ OwedInv /\ HoldInv /\ HearInv
  BY <1>2 DEF Init, FlagInv, OwedInv, HoldInv, HearInv, Unsettled
<1> QED
  BY <1>1, <1>3, <1>5, <1>6, <1>7 DEF OwingInv

LEMMA NextOwing == OwingInv /\ [Next]_vars => OwingInv'
<1> SUFFICES ASSUME OwingInv, [Next]_vars
             PROVE  OwingInv'
  OBVIOUS
<1>1. IInv /\ IInv' /\ Shape /\ OneInv
  BY NextInv DEF OwingInv, IInv
<1>2. CASE \E c \in Conversations : RunnerStep(c) \/ AnswerStep(c)
  BY <1>1, <1>2, RunnerOwing, AnswerOwing
<1>3. CASE \E t \in Turns : ListenStep(t)
  BY <1>1, <1>3, ListenOwing
<1>4. ASSUME NEW w \in Windows, WindowStep(w)
      PROVE  OwingInv'
  <2>1. CASE \E lease \in Leases : Connect(w, lease)
    BY <1>1, <2>1, ResumesOwing, StartsOwing DEF Connect
  <2>2. CASE EndFrom(w)
    <3>1. window[w].conv \in Conversations /\ End(window[w].conv) /\ UserActs
          /\ window' = [window EXCEPT ![w] = Away]
      BY <1>1, <2>2 DEF EndFrom, OneInv, Shape
    <3> QED
      BY <1>1, <3>1, EndOwing
  <2>3. CASE \E spoken \in BOOLEAN : Ask(w, spoken)
    BY <1>1, <2>3, AskOwing
  <2>4. CASE \E identifier \in {None} \cup Turns : Stop(w, identifier)
    BY <1>1, <2>4, StopStepOwing
  <2> QED
    BY <1>1, <1>4, <2>1, <2>2, <2>3, <2>4, WindowOwing, LeaveOwing, TakeInOwing
    DEF WindowStep
<1>5. CASE WorkerStep
  BY <1>1, <1>5, WorkerOwing
<1>6. CASE Forget
  BY <1>1, <1>6, ForgetOwing
<1>7. CASE EndFromOutside
  BY <1>1, <1>7, EndOwing DEF EndFromOutside, Shape
<1>8. CASE UNCHANGED vars
  <2>1. TypesInv /\ OneInv /\ FreshInv
    BY DEF OwingInv
  <2>2. FreshInv' /\ OneInv'
    BY <1>8, <2>1 DEF vars, FreshInv, OneInv, Busy
  <2> QED
    BY <1>1, <1>8, <2>1, <2>2, RestOwing DEF vars, TypesInv
<1> QED
  BY <1>2, <1>3, <1>4, <1>5, <1>6, <1>7, <1>8 DEF Next

-----------------------------------------------------------------------------
(* Where a question is transcribed or answered and its conversation goes   *)
(* on, it is the conversation of every handler that does not wait for an   *)
(* end, and busy.                                                          *)
LEMMA LeavingStops ==
  ASSUME OwingInv, NEW w \in Windows, Leave(w), window[w].at # "poll",
         ~speech.cut, speech'.cut, Waiting(AskedFor)
  PROVE  FALSE
<1>1. TypesInv /\ Shape /\ StageInv /\ PlaceInv /\ OwedInv /\ HoldInv /\ OneInv
  BY DEF OwingInv, IInv
<1>2. PICK c : c = window[w].conv
  OBVIOUS
<1>3. speech.at = "stream" /\ ~conv[c].ended /\ ~Busy(c)
  BY <1>2 DEF Leave, Unneeded, StopWorker, Cut
<1>4. AskedFor \in Turns
  <2>1. CASE speech.by = "listen"
    BY <1>1, <2>1 DEF HoldInv, AskedFor
  <2>2. CASE speech.by = "answer"
    <3>1. speech.id \in Conversations /\ conv[speech.id].answer = "speak"
      BY <1>1, <2>2 DEF HoldInv
    <3> QED
      BY <1>1, <2>2, <3>1 DEF AskedFor, StageInv, Staged, PlaceInv, Placed, Owes
  <2> QED
    BY <1>1, <1>3, <2>1, <2>2 DEF HoldInv, TypesInv, Hold
<1>5. PICK d : d = turn[AskedFor].conv
  OBVIOUS
<1>6. d \in Conversations /\ ~conv[d].ended /\ AskedFor \in Owes(d)
  BY <1>1, <1>4, <1>5 DEF Waiting, OwedInv, Unsettled, TypesInv, Record
<1>7. d = conversation /\ Busy(d)
  BY <1>1, <1>6 DEF OneInv, Busy, Owes
<1>8. c = conversation
  <2>1. window[w].at # "off"
    BY DEF Leave, Connecting
  <2> QED
    BY <1>1, <1>2, <1>3, <2>1 DEF OneInv
<1> QED
  BY <1>3, <1>7, <1>8

LEMMA CutsNothing ==
  ASSUME OwingInv, [Next]_vars, NEW w \in Windows, window[w].at \notin {"off", "poll"},
         window'[w].at = "off", ~speech.cut, speech'.cut
  PROVE  ~Waiting(AskedFor) \/ count'["stops"] # count["stops"]
<1>1. Shape /\ TypesInv
  BY DEF OwingInv, IInv
<1>2. \E v \in Windows : WindowStep(v)
  <2>1. window' # window
    OBVIOUS
  <2> QED
    BY <2>1 DEF Next, vars, RunnerStep, RunnerStarts, Sent, Answered, Switched, Released,
       AnswerStep, Begin, Think, Want, Spoken, Saved, Fails, ListenStep, Listens,
       HearsQuestion, HearsNoise, HearsStop, HearingFails, HearingBreaks, WorkerStep, Loads,
       HolderLaunches, HolderStreams, Forget, EndFromOutside
<1>3. PICK v \in Windows : WindowStep(v)
  BY <1>2
<1>4. CASE Leave(v)
  <2>1. v = w
    BY <1>1, <1>4 DEF Leave, Shape
  <2> QED
    BY <1>4, <2>1, LeavingStops
<1>5. CASE EndFrom(v)
  BY <1>1, <1>5 DEF EndFrom, UserActs, Tick, TypesInv, Counted
<1>6. CASE ~Leave(v) /\ ~EndFrom(v)
  <2>1. CASE \E lease \in Leases : Connect(v, lease)
    <3>1. PICK c : window' = [window EXCEPT ![v] = [Away EXCEPT !.at = Booting, !.conv = c]]
      BY <2>1 DEF Connect, Resumes, StartsAnother
    <3>2. [Away EXCEPT !.at = Booting, !.conv = c].at \in Connecting
      BY DEF Away, Booting, Connecting
    <3> QED
      BY <1>1, <3>1, <3>2 DEF Shape, Connecting
  <2>2. CASE Launch(v) \/ Attach(v) \/ TakeIn(v)
    BY <1>1, <2>2 DEF Launch, Attach, TakeIn, Shape, Away
  <2>3. CASE SendFails(v) \/ \E identifier \in {None} \cup Turns : Stop(v, identifier)
    BY <2>3 DEF SendFails, Stop
  <2>4. CASE \E spoken \in BOOLEAN : Ask(v, spoken)
    <3>1. PICK spoken \in BOOLEAN : window' = window \/
             window' = [window EXCEPT ![v] = [@ EXCEPT !.at = "intake",
                          !.turn = count["turns"] + 1, !.spoken = spoken]]
      BY <2>4 DEF Ask
    <3>2. [window[v] EXCEPT !.at = "intake", !.turn = count["turns"] + 1,
                            !.spoken = spoken].at = "intake"
      BY <1>1 DEF Shape
    <3>3. window' = [window EXCEPT ![v] =
            [window[v] EXCEPT !.at = "intake", !.turn = count["turns"] + 1,
                              !.spoken = spoken]]
      BY <3>1
    <3> QED
      BY <1>1, <3>2, <3>3 DEF Shape
  <2> QED
    BY <1>3, <1>6, <2>1, <2>2, <2>3, <2>4 DEF WindowStep
<1> QED
  BY <1>4, <1>5, <1>6

(* Closing a window only detaches it (ADR 0145): whatever a handler that   *)
(* ends leaves behind, and whoever comes and goes beside it, it never      *)
(* stops the worker under a question that is transcribed or answered,      *)
(* unless it is the user who ends the conversation, or the handler waited  *)
(* for a worker it had launched.                                           *)
THEOREM LeavingNeverCuts == Spec => LeavingCutsNothing
<1>1. OwingInv /\ [Next]_vars =>
        [\A w \in Windows :
           /\ window[w].at \notin {"off", "poll"} /\ window'[w].at = "off"
           /\ ~speech.cut /\ speech'.cut
           => \/ ~Waiting(AskedFor)
              \/ count'["stops"] # count["stops"]]_vars
  BY CutsNothing
<1> QED
  BY <1>1, InitOwing, NextOwing, PTL DEF Spec, LeavingCutsNothing

=============================================================================
