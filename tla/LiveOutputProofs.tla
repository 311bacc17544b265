-------------------------- MODULE LiveOutputProofs --------------------------
(***************************************************************************)
(* What LiveOutput guarantees for any number of streams and lines and any  *)
(* size of the ring buffer.                                                *)
(***************************************************************************)
EXTENDS LiveOutput, SequenceTheorems, TLAPS

(* m successive lines, the first one after line a.                         *)
Run(a, m) == [i \in 1..m |-> a + i]

Sorted(q) == \A i, j \in DOMAIN q : i < j => q[i] <= q[j]

AtMost(q, n) == \A i \in DOMAIN q : q[i] <= n

(* The lines a stream has taken from the log and the buffer.               *)
Taken(s) == sent[s] \o batch[s]

Joined(s) == pc[s] \in {"wait", "asleep", "awake", "send", "closed"}

(* The buffer is at most one line behind the log.                          *)
PumpInv == appended <= logged /\ logged <= appended + 1

(* A stream takes no more than there is, and holds a batch only to send it. *)
CursorInv ==
  \A s \in Streams :
    /\ next[s] <= logged
    /\ cursor[s] <= Buffered
    /\ pc[s] # "send" => batch[s] = <<>>

(* Until it attaches, a stream has sent the beginning of the log.          *)
ReplayInv == \A s \in Streams : ~Joined(s) => sent[s] = Run(0, next[s])

(* What a stream takes is in order; while the buffer still grew after its  *)
(* last look, it was all the pump had, with one line the log was ahead.    *)
OrderInv ==
  \A s \in Streams :
    /\ Sorted(Taken(s))
    /\ Joined(s) /\ cursor[s] < Size => AtMost(Taken(s), cursor[s] + 1)

(* While no line fell out of the buffer, a stream has the log as it read   *)
(* it, then the lines from those it found to those it took last.           *)
GapInv ==
  \A s \in Streams :
    Joined(s) /\ appended <= Size =>
      /\ joined[s] <= cursor[s]
      /\ Taken(s) = Run(0, next[s]) \o Run(joined[s], cursor[s] - joined[s])

(* A stream that saw the job done has looked for lines after the last one. *)
LastInv ==
  \A s \in Streams :
    (pc[s] = "send" /\ last[s]) \/ pc[s] = "closed" => ended /\ cursor[s] = Buffered

IInv ==
  TypeOK /\ PumpInv /\ CursorInv /\ ReplayInv /\ OrderInv /\ GapInv /\ LastInv

USE LiveOutputAssumption

-----------------------------------------------------------------------------
(* Lines *)

LEMMA RunType ==
  ASSUME NEW a \in Nat, NEW m \in Nat, a + m <= MaxLines
  PROVE  /\ Run(a, m) \in Seq(Lines)
         /\ Len(Run(a, m)) = m
         /\ DOMAIN Run(a, m) = 1..m
         /\ \A i \in 1..m : Run(a, m)[i] = a + i
<1>1. Run(a, m) \in [1..m -> Lines]
  BY DEF Run, Lines
<1>2. Run(a, m) \in Seq(Lines)
  BY <1>1, SeqDef
<1>3. QED
  BY <1>2, LenProperties DEF Run

(* Lines that follow those of a sequence keep it in order.                 *)
LEMMA RunSorted ==
  ASSUME NEW q \in Seq(Lines), NEW a \in Nat, NEW m \in Nat, a + m <= MaxLines,
         Sorted(q), m = 0 \/ AtMost(q, a + 1)
  PROVE  /\ q \o Run(a, m) \in Seq(Lines)
         /\ Sorted(q \o Run(a, m))
         /\ \A n \in Nat : AtMost(q, n) /\ a + m <= n => AtMost(q \o Run(a, m), n)
<1> DEFINE r == Run(a, m)
<1>1. /\ r \in Seq(Lines) /\ Len(r) = m
      /\ \A i \in 1..m : r[i] = a + i
  BY RunType
<1>2. Len(q) \in Nat /\ DOMAIN q = 1..Len(q) /\ \A i \in 1..Len(q) : q[i] \in Nat
  BY LenProperties, ElementOfSeq DEF Lines
<1> HIDE DEF r
<1>3. /\ q \o r \in Seq(Lines) /\ Len(q \o r) = Len(q) + m
      /\ \A i \in 1..Len(q) + m : (q \o r)[i] = IF i <= Len(q) THEN q[i] ELSE r[i - Len(q)]
  BY <1>1, ConcatProperties
<1>4. DOMAIN (q \o r) = 1..Len(q) + m
  BY <1>3, LenProperties
<1>5. Sorted(q \o r)
  <2> SUFFICES ASSUME NEW i \in 1..Len(q) + m, NEW j \in 1..Len(q) + m, i < j
               PROVE  (q \o r)[i] <= (q \o r)[j]
    BY <1>4 DEF Sorted
  <2>1. CASE j <= Len(q)
    <3>1. i \in 1..Len(q) /\ j \in 1..Len(q)
      BY <1>2, <2>1
    <3>2. q[i] <= q[j]
      BY <1>2, <3>1 DEF Sorted
    <3>3. QED
      BY <1>3, <2>1, <3>1, <3>2
  <2>2. CASE i > Len(q)
    <3>1. i - Len(q) \in 1..m /\ j - Len(q) \in 1..m
      BY <1>2, <2>2
    <3>2. (q \o r)[i] = a + (i - Len(q)) /\ (q \o r)[j] = a + (j - Len(q))
      BY <1>1, <1>2, <1>3, <2>2, <3>1
    <3>3. QED
      BY <1>2, <3>2
  <2>3. CASE i <= Len(q) /\ j > Len(q)
    <3>1. j - Len(q) \in 1..m /\ i \in 1..Len(q)
      BY <1>2, <2>3
    <3>2. (q \o r)[i] = q[i] /\ (q \o r)[j] = a + (j - Len(q))
      BY <1>1, <1>2, <1>3, <2>3, <3>1
    <3>3. q[i] <= a + 1
      BY <1>2, <3>1 DEF AtMost
    <3>4. QED
      BY <1>2, <3>1, <3>2, <3>3
  <2>4. j <= Len(q) \/ i > Len(q) \/ (i <= Len(q) /\ j > Len(q))
    BY <1>2
  <2>5. QED
    BY <2>1, <2>2, <2>3, <2>4
<1>6. ASSUME NEW n \in Nat, AtMost(q, n), a + m <= n
      PROVE  AtMost(q \o r, n)
  <2> SUFFICES ASSUME NEW i \in 1..Len(q) + m
               PROVE  (q \o r)[i] <= n
    BY <1>4 DEF AtMost
  <2>1. CASE i <= Len(q)
    BY <1>2, <1>3, <1>6, <2>1 DEF AtMost
  <2>2. CASE i > Len(q)
    <3>1. i - Len(q) \in 1..m
      BY <1>2, <2>2
    <3>2. (q \o r)[i] = a + (i - Len(q))
      BY <1>1, <1>2, <1>3, <2>2, <3>1
    <3>3. QED
      BY <1>2, <1>6, <3>1, <3>2
  <2>3. i <= Len(q) \/ i > Len(q)
    BY <1>2
  <2>4. QED
    BY <2>1, <2>2, <2>3
<1>7. QED
  BY <1>3, <1>5, <1>6 DEF r

(* Lines that follow on lines are more of the same.                        *)
LEMMA RunOnRun ==
  ASSUME NEW a \in Nat, NEW m \in Nat, NEW k \in Nat, a + m + k <= MaxLines
  PROVE  Run(a, m) \o Run(a + m, k) = Run(a, m + k)
<1> DEFINE q == Run(a, m)
           r == Run(a + m, k)
           t == Run(a, m + k)
<1>1. /\ q \in Seq(Lines) /\ Len(q) = m /\ \A i \in 1..m : q[i] = a + i
      /\ r \in Seq(Lines) /\ Len(r) = k /\ \A i \in 1..k : r[i] = a + m + i
      /\ t \in Seq(Lines) /\ Len(t) = m + k /\ \A i \in 1..m + k : t[i] = a + i
  BY RunType
<1> HIDE DEF q, r, t
<1>2. /\ q \o r \in Seq(Lines) /\ Len(q \o r) = m + k
      /\ \A i \in 1..m + k : (q \o r)[i] = IF i <= m THEN q[i] ELSE r[i - m]
  BY <1>1, ConcatProperties
<1>3. \A i \in 1..m + k : (q \o r)[i] = t[i]
  <2> SUFFICES ASSUME NEW i \in 1..m + k
               PROVE  (q \o r)[i] = t[i]
    OBVIOUS
  <2>1. CASE i <= m
    BY <1>1, <1>2, <2>1
  <2>2. CASE i > m
    <3>1. i - m \in 1..k
      BY <2>2
    <3>2. QED
      BY <1>1, <1>2, <2>2, <3>1
  <2>3. i <= m \/ i > m
    OBVIOUS
  <2>4. QED
    BY <2>1, <2>2, <2>3
<1>4. q \o r = t
  BY <1>1, <1>2, <1>3, SeqEqual
<1>5. QED
  BY <1>4 DEF q, r, t

(* The next line of the log comes after those before it.                   *)
LEMMA RunAppend ==
  ASSUME NEW n \in Nat, n < MaxLines
  PROVE  Append(Run(0, n), n + 1) = Run(0, n + 1)
<1> DEFINE q == Run(0, n)
           t == Run(0, n + 1)
<1>1. /\ q \in Seq(Lines) /\ Len(q) = n /\ \A i \in 1..n : q[i] = 0 + i
      /\ t \in Seq(Lines) /\ Len(t) = n + 1 /\ \A i \in 1..n + 1 : t[i] = 0 + i
  <2>1. 0 \in Nat /\ n + 1 \in Nat /\ 0 + n <= MaxLines /\ 0 + (n + 1) <= MaxLines
    OBVIOUS
  <2>2. q \in Seq(Lines) /\ Len(q) = n /\ \A i \in 1..n : q[i] = 0 + i
    BY <2>1, RunType
  <2>3. t \in Seq(Lines) /\ Len(t) = n + 1 /\ \A i \in 1..n + 1 : t[i] = 0 + i
    BY <2>1, RunType
  <2>4. QED
    BY <2>2, <2>3
<1> HIDE DEF q, t
<1>2. /\ Append(q, n + 1) \in Seq(Lines) /\ Len(Append(q, n + 1)) = n + 1
      /\ \A i \in 1..n : Append(q, n + 1)[i] = q[i]
      /\ Append(q, n + 1)[n + 1] = n + 1
  BY <1>1, AppendProperties DEF Lines
<1>3. \A i \in 1..n + 1 : i \in 1..n \/ i = n + 1
  OBVIOUS
<1>4. \A i \in 1..n + 1 : Append(q, n + 1)[i] = t[i]
  BY <1>1, <1>2, <1>3
<1>5. Append(q, n + 1) = t
  BY <1>1, <1>2, <1>4, SeqEqual
<1>6. QED
  BY <1>5 DEF q, t

LEMMA NoRun == ASSUME NEW a PROVE Run(a, 0) = <<>>
  BY DEF Run

(* The beginning of the log is in order and ends with its last line.       *)
LEMMA LogSorted ==
  ASSUME NEW n \in Nat, n <= MaxLines
  PROVE  /\ Run(0, n) \in Seq(Lines)
         /\ Sorted(Run(0, n))
         /\ \A k \in Nat : n <= k => AtMost(Run(0, n), k)
<1>1. Run(0, n) \in Seq(Lines) /\ DOMAIN Run(0, n) = 1..n /\ \A i \in 1..n : Run(0, n)[i] = i
  <2>1. 0 + n <= MaxLines /\ \A i \in 1..n : 0 + i = i
    OBVIOUS
  <2>2. /\ Run(0, n) \in Seq(Lines) /\ DOMAIN Run(0, n) = 1..n
        /\ \A i \in 1..n : Run(0, n)[i] = 0 + i
    BY <2>1, RunType
  <2>3. QED
    BY <2>1, <2>2
<1>2. QED
  BY <1>1 DEF Sorted, AtMost

(* What a stream takes from the buffer: lines that follow on the last one  *)
(* it could have seen there, or nothing once the buffer stopped growing.   *)
LEMMA AfterRun ==
  ASSUME TypeOK, PumpInv, NEW c \in 0..Size, c <= Buffered
  PROVE  /\ Buffered \in 0..Size /\ Buffered <= appended
         /\ After(c) = Run(appended - Buffered + c, Buffered - c)
         /\ After(c) \in Seq(Lines)
         /\ Buffered < Size => Buffered = appended
         /\ appended <= Size => Buffered = appended
<1>1. /\ Buffered \in 0..Size /\ Buffered <= appended
      /\ Buffered < Size => Buffered = appended
      /\ appended <= Size => Buffered = appended
  BY DEF TypeOK, Buffered
<1>2. After(c) = Run(appended - Buffered + c, Buffered - c)
  BY DEF After, Run
<1>3. /\ appended \in Nat /\ appended <= MaxLines
      /\ appended - Buffered + c \in Nat /\ Buffered - c \in Nat
      /\ (appended - Buffered + c) + (Buffered - c) <= MaxLines
  BY <1>1 DEF TypeOK
<1>4. Run(appended - Buffered + c, Buffered - c) \in Seq(Lines)
  BY <1>3, RunType
<1>5. QED
  BY <1>1, <1>2, <1>4

-----------------------------------------------------------------------------
LEMMA InitInv == Init => IInv
<1> SUFFICES ASSUME Init
             PROVE  IInv
  OBVIOUS
<1>1. /\ \A q \in Streams : Taken(q) = Run(0, 0) /\ sent[q] = Run(0, next[q])
      /\ Run(0, 0) = <<>> /\ <<>> \in Seq(Lines)
  BY NoRun, EmptySeq, ConcatEmptySeq DEF Init, Taken
<1>2. Sorted(Run(0, 0))
  BY <1>1 DEF Sorted
<1>3. PumpInv /\ CursorInv /\ LastInv
  BY DEF Init, PumpInv, CursorInv, LastInv, Buffered
<1>4. TypeOK
  <2>1. [q \in Streams |-> <<>>] \in [Streams -> Seq(Lines)]
    BY <1>1, Zenon
  <2>2. batch \in [Streams -> Seq(Lines)] /\ sent \in [Streams -> Seq(Lines)]
    BY <2>1 DEF Init
  <2>3. ended \in BOOLEAN /\ event \in {"none", "clear", "set"}
    BY Zenon DEF Init
  <2>4. logged \in 0..MaxLines /\ appended \in 0..MaxLines /\ wakes \in Nat
    BY DEF Init
  <2>5. /\ pc = [q \in Streams |-> "idle"] /\ last = [q \in Streams |-> FALSE]
        /\ next = [q \in Streams |-> 0] /\ cursor = [q \in Streams |-> 0]
        /\ joined = [q \in Streams |-> 0]
    BY DEF Init
  <2>6. QED
    BY <2>2, <2>3, <2>4, <2>5 DEF TypeOK
<1>5. ReplayInv /\ OrderInv /\ GapInv
  BY <1>1, <1>2 DEF Init, ReplayInv, OrderInv, GapInv, Joined
<1>6. QED
  BY <1>3, <1>4, <1>5 DEF IInv

(* The pump is one line ahead of the buffer; a cursor never passes it.     *)
LEMMA TypeInv == TypeOK /\ PumpInv /\ CursorInv /\ [Next]_vars => TypeOK' /\ PumpInv' /\ CursorInv'
<1> SUFFICES ASSUME TypeOK, PumpInv, CursorInv, [Next]_vars
             PROVE  TypeOK' /\ PumpInv' /\ CursorInv'
  OBVIOUS
<1> USE DEF TypeOK, PumpInv, CursorInv, Goto, pump, stream
<1>1. CASE WriteLog
  BY <1>1 DEF WriteLog, Buffered
<1>2. CASE AppendOutput
  BY <1>2 DEF AppendOutput, Buffered, Notify
<1>3. CASE JobEnds
  BY <1>3 DEF JobEnds, Buffered, Notify
<1>4. CASE SetEvent
  BY <1>4 DEF SetEvent, Buffered
<1>5. ASSUME NEW s \in Streams, Open(s)
      PROVE  TypeOK' /\ PumpInv' /\ CursorInv'
  BY <1>5 DEF Open, Buffered
<1>6. ASSUME NEW s \in Streams, ReplayLine(s)
      PROVE  TypeOK' /\ PumpInv' /\ CursorInv'
  <2>1. next[s] + 1 \in Lines /\ next'[s] = next[s] + 1 /\ next[s] + 1 <= logged
    BY <1>6 DEF ReplayLine, Lines
  <2>2. Append(sent[s], next'[s]) \in Seq(Lines)
    BY <2>1, AppendProperties
  <2>3. TypeOK'
    BY <1>6, <2>1, <2>2 DEF ReplayLine, Lines
  <2>4. PumpInv' /\ CursorInv'
    BY <1>6, <2>1 DEF ReplayLine, Buffered
  <2>5. QED
    BY <2>3, <2>4
<1>7. ASSUME NEW s \in Streams, EndOfLog(s)
      PROVE  TypeOK' /\ PumpInv' /\ CursorInv'
  BY <1>7 DEF EndOfLog, Buffered
<1>8. ASSUME NEW s \in Streams, Attach(s)
      PROVE  TypeOK' /\ PumpInv' /\ CursorInv'
  <2>1. Buffered \in 0..Size /\ Buffered' = Buffered /\ After(cursor[s]) \in Seq(Lines)
    BY <1>8, AfterRun DEF Attach, Buffered
  <2>2. QED
    BY <1>8, <2>1 DEF Attach
<1>9. ASSUME NEW s \in Streams, Wait(s)
      PROVE  TypeOK' /\ PumpInv' /\ CursorInv'
  BY <1>9 DEF Wait, Buffered
<1>10. ASSUME NEW s \in Streams, TakeLines(s)
      PROVE  TypeOK' /\ PumpInv' /\ CursorInv'
  <2>1. Buffered \in 0..Size /\ Buffered' = Buffered /\ After(cursor[s]) \in Seq(Lines)
    BY <1>10, AfterRun DEF TakeLines, Buffered
  <2>2. QED
    BY <1>10, <2>1 DEF TakeLines
<1>11. ASSUME NEW s \in Streams, SendLines(s)
      PROVE  TypeOK' /\ PumpInv' /\ CursorInv'
  <2>1. sent[s] \o batch[s] \in Seq(Lines) /\ <<>> \in Seq(Lines)
    BY ConcatProperties, EmptySeq
  <2>2. QED
    BY <1>11, <2>1 DEF SendLines, Buffered
<1>12. CASE UNCHANGED vars
  BY <1>12 DEF vars, Buffered
<1>13. QED
  BY <1>1, <1>2, <1>3, <1>4, <1>5, <1>6, <1>7, <1>8, <1>9, <1>10, <1>11, <1>12 DEF Next, Follow

(* Until it attaches, a stream only goes on in the log.                    *)
LEMMA ReplayInvStep ==
  TypeOK /\ PumpInv /\ CursorInv /\ ReplayInv /\ [Next]_vars => ReplayInv'
<1> SUFFICES ASSUME TypeOK, PumpInv, CursorInv, ReplayInv, [Next]_vars
             PROVE  ReplayInv'
  OBVIOUS
<1> USE DEF TypeOK, ReplayInv, Joined, Goto, pump, stream
<1>1. CASE WriteLog \/ AppendOutput \/ JobEnds \/ SetEvent \/ UNCHANGED vars
  BY <1>1 DEF WriteLog, AppendOutput, JobEnds, SetEvent, vars
<1>2. ASSUME NEW s \in Streams,
             Open(s) \/ EndOfLog(s) \/ Attach(s) \/ Wait(s) \/ TakeLines(s)
      PROVE  ReplayInv'
  BY <1>2 DEF Open, EndOfLog, Attach, Wait, TakeLines
<1>3. ASSUME NEW s \in Streams, ReplayLine(s)
      PROVE  ReplayInv'
  <2>1. next[s] \in Nat /\ next[s] < MaxLines /\ next'[s] = next[s] + 1 /\ pc[s] = "replay"
    BY <1>3 DEF ReplayLine
  <2>2. Append(Run(0, next[s]), next[s] + 1) = Run(0, next[s] + 1)
    BY <2>1, RunAppend
  <2>3. sent'[s] = Run(0, next'[s])
    BY <1>3, <2>1, <2>2 DEF ReplayLine
  <2>4. QED
    BY <1>3, <2>3 DEF ReplayLine
<1>4. ASSUME NEW s \in Streams, SendLines(s)
      PROVE  ReplayInv'
  BY <1>4 DEF SendLines
<1>5. QED
  BY <1>1, <1>2, <1>3, <1>4 DEF Next, Follow

(* Only a line of the log and lines of the buffer are taken.               *)
LEMMA TakenStep ==
  ASSUME TypeOK, CursorInv, [Next]_vars, NEW q \in Streams
  PROVE  \/ Taken(q)' = Taken(q) /\ cursor'[q] = cursor[q] /\ next'[q] = next[q]
            /\ joined'[q] = joined[q] /\ (Joined(q)' <=> Joined(q))
         \/ ReplayLine(q)
         \/ Attach(q) /\ Taken(q)' = Taken(q)
         \/ TakeLines(q) /\ Taken(q) = sent[q] /\ Taken(q)' = Taken(q) \o After(cursor[q])
<1> USE DEF TypeOK, Goto, pump, stream
<1> DEFINE Kept == /\ Taken(q)' = Taken(q) /\ cursor'[q] = cursor[q] /\ next'[q] = next[q]
                   /\ joined'[q] = joined[q] /\ (Joined(q)' <=> Joined(q))
<1>1. ASSUME sent'[q] = sent[q], batch'[q] = batch[q], cursor'[q] = cursor[q],
             next'[q] = next[q], joined'[q] = joined[q], Joined(q)' <=> Joined(q)
      PROVE  Kept
  BY <1>1 DEF Taken
<1>2. CASE WriteLog \/ AppendOutput \/ JobEnds \/ SetEvent \/ UNCHANGED vars
  BY <1>1, <1>2 DEF WriteLog, AppendOutput, JobEnds, SetEvent, vars, Joined
<1>3. ASSUME NEW s \in Streams, Open(s) \/ EndOfLog(s) \/ Wait(s)
      PROVE  Kept
  BY <1>1, <1>3 DEF Open, EndOfLog, Wait, Joined
<1>4. ASSUME NEW s \in Streams, s # q,
             ReplayLine(s) \/ Attach(s) \/ TakeLines(s) \/ SendLines(s)
      PROVE  Kept
  BY <1>1, <1>4 DEF ReplayLine, Attach, TakeLines, SendLines, Joined
<1>5. CASE Attach(q)
  BY <1>5 DEF Attach, Taken
<1>6. CASE TakeLines(q)
  <2>1. batch[q] = <<>> /\ batch'[q] = After(cursor[q]) /\ sent'[q] = sent[q]
    BY <1>6 DEF TakeLines, CursorInv
  <2>2. sent[q] \o <<>> = sent[q]
    BY ConcatEmptySeq
  <2>3. QED
    BY <1>6, <2>1, <2>2 DEF Taken
<1>7. CASE SendLines(q)
  <2>1. /\ sent'[q] = sent[q] \o batch[q] /\ batch'[q] = <<>>
        /\ UNCHANGED <<cursor, next, joined>> /\ (Joined(q)' <=> Joined(q))
    BY <1>7 DEF SendLines, Joined
  <2>2. sent[q] \o batch[q] \in Seq(Lines)
    BY ConcatProperties
  <2>3. (sent[q] \o batch[q]) \o <<>> = sent[q] \o batch[q]
    BY <2>2, ConcatEmptySeq
  <2>4. QED
    BY <2>1, <2>3 DEF Taken
<1>8. QED
  BY <1>2, <1>3, <1>4, <1>5, <1>6, <1>7 DEF Next, Follow

(* A stream that attaches has the log up to the pump's line or the one     *)
(* before; what it takes later comes after all it has.                     *)
LEMMA OrderInvStep ==
  TypeOK /\ PumpInv /\ CursorInv /\ ReplayInv /\ OrderInv /\ [Next]_vars => OrderInv'
<1> SUFFICES ASSUME TypeOK, PumpInv, CursorInv, ReplayInv, OrderInv, [Next]_vars,
                    NEW q \in Streams
             PROVE  /\ Sorted(Taken(q)')
                    /\ Joined(q)' /\ cursor'[q] < Size => AtMost(Taken(q)', cursor'[q] + 1)
  BY DEF OrderInv, Sorted, AtMost, Joined, Taken
<1>1. CASE Taken(q)' = Taken(q) /\ cursor'[q] = cursor[q] /\ (Joined(q)' <=> Joined(q))
  BY <1>1 DEF OrderInv
<1>2. CASE ReplayLine(q)
  <2>0. TypeOK' /\ CursorInv' /\ ReplayInv'
    BY ReplayInvStep, TypeInv
  <2>1. /\ ~Joined(q)' /\ sent'[q] = Run(0, next'[q]) /\ batch'[q] = <<>>
        /\ next'[q] \in Nat /\ next'[q] <= MaxLines
    <3>1. pc'[q] = "replay"
      BY <1>2 DEF ReplayLine
    <3>2. ~Joined(q)' /\ sent'[q] = Run(0, next'[q]) /\ batch'[q] = <<>>
      BY <2>0, <3>1 DEF CursorInv, ReplayInv, Joined
    <3>3. next'[q] \in 0..MaxLines
      BY <2>0 DEF TypeOK
    <3>4. QED
      BY <3>2, <3>3
  <2>2. Run(0, next'[q]) \in Seq(Lines) /\ Sorted(Run(0, next'[q]))
    BY <2>1, LogSorted
  <2>3. Taken(q)' = Run(0, next'[q])
    BY <2>1, <2>2, ConcatEmptySeq DEF Taken
  <2>4. QED
    BY <2>1, <2>2, <2>3
<1>3. CASE Attach(q) /\ Taken(q)' = Taken(q)
  <2>1. /\ sent[q] = Run(0, next[q]) /\ batch[q] = <<>> /\ cursor'[q] = Buffered
        /\ next[q] \in Nat /\ next[q] <= MaxLines /\ next[q] <= appended + 1
    <3>1. pc[q] = "attach" /\ cursor'[q] = Buffered
      BY <1>3 DEF Attach, TypeOK
    <3>2. sent[q] = Run(0, next[q]) /\ batch[q] = <<>>
      BY <3>1 DEF CursorInv, ReplayInv, Joined
    <3>3. next[q] \in Nat /\ next[q] <= MaxLines /\ next[q] <= appended + 1
      BY DEF TypeOK, PumpInv, CursorInv
    <3>4. QED
      BY <3>1, <3>2, <3>3
  <2>2. Run(0, next[q]) \in Seq(Lines) /\ \A k \in Nat : next[q] <= k => AtMost(Run(0, next[q]), k)
    BY <2>1, LogSorted
  <2>3. Taken(q) = Run(0, next[q])
    BY <2>1, <2>2, ConcatEmptySeq DEF Taken
  <2>4. cursor'[q] < Size => cursor'[q] = appended
    BY <2>1 DEF Buffered
  <2>5. cursor'[q] < Size => AtMost(Taken(q), cursor'[q] + 1)
    BY <2>1, <2>2, <2>3, <2>4 DEF TypeOK
  <2>6. QED
    BY <1>3, <2>5 DEF OrderInv
<1>4. CASE TakeLines(q) /\ Taken(q) = sent[q] /\ Taken(q)' = Taken(q) \o After(cursor[q])
  <2> DEFINE c == cursor[q]
             a == appended - Buffered + c
             m == Buffered - c
  <2>1. /\ Joined(q) /\ cursor'[q] = Buffered
        /\ c \in 0..Size /\ c <= Buffered /\ sent[q] \in Seq(Lines)
        /\ appended \in Nat /\ appended <= MaxLines
    BY <1>4 DEF TakeLines, TypeOK, CursorInv, Joined
  <2>2. /\ Buffered \in 0..Size /\ Buffered <= appended /\ After(c) = Run(a, m)
        /\ Buffered < Size => Buffered = appended
    BY <2>1, AfterRun
  <2>3. a \in Nat /\ m \in Nat /\ a + m = appended /\ c <= a
    BY <2>1, <2>2
  <2>4. Sorted(sent[q]) /\ (c < Size => AtMost(sent[q], c + 1))
    BY <1>4, <2>1 DEF OrderInv
  <2> HIDE DEF c, a, m
  <2>5. \A i \in DOMAIN sent[q] : sent[q][i] \in Nat
    BY <2>1, LenProperties, ElementOfSeq DEF Lines
  <2>6. ASSUME m # 0
        PROVE  AtMost(sent[q], a + 1)
    <3>1. c < Size
      BY <2>1, <2>2, <2>3, <2>6 DEF m
    <3>2. QED
      BY <2>1, <2>3, <2>4, <2>5, <3>1 DEF AtMost
  <2>7. /\ Sorted(sent[q] \o Run(a, m))
        /\ \A n \in Nat : AtMost(sent[q], n) /\ a + m <= n => AtMost(sent[q] \o Run(a, m), n)
    BY <2>1, <2>3, <2>4, <2>6, RunSorted
  <2>8. Taken(q)' = sent[q] \o Run(a, m)
    BY <1>4, <2>2 DEF c
  <2>9. ASSUME Buffered < Size
        PROVE  AtMost(Taken(q)', Buffered + 1)
    <3>1. AtMost(sent[q], Buffered + 1)
      BY <2>1, <2>2, <2>4, <2>5, <2>9 DEF AtMost
    <3>2. Buffered + 1 \in Nat /\ a + m <= Buffered + 1
      BY <2>1, <2>2, <2>3, <2>9
    <3>3. QED
      BY <2>7, <2>8, <3>1, <3>2
  <2>10. QED
    BY <2>1, <2>7, <2>8, <2>9
<1>5. QED
  BY <1>1, <1>2, <1>3, <1>4, TakenStep

(* While all lines fit, what a stream takes follows on what it had.        *)
LEMMA GapInvStep ==
  TypeOK /\ PumpInv /\ CursorInv /\ ReplayInv /\ GapInv /\ [Next]_vars => GapInv'
<1> SUFFICES ASSUME TypeOK, PumpInv, CursorInv, ReplayInv, GapInv, [Next]_vars,
                    NEW q \in Streams, Joined(q)', appended' <= Size
             PROVE  /\ joined'[q] <= cursor'[q]
                    /\ Taken(q)' = Run(0, next'[q]) \o Run(joined'[q], cursor'[q] - joined'[q])
  BY DEF GapInv, Joined, Taken
<1>0. appended \in Nat /\ appended <= MaxLines /\ appended <= Size
  BY DEF TypeOK, Next, Follow, WriteLog, AppendOutput, JobEnds, SetEvent, Open, ReplayLine,
         EndOfLog, Attach, Wait, TakeLines, SendLines, pump, vars
<1>1. CASE /\ Taken(q)' = Taken(q) /\ cursor'[q] = cursor[q] /\ next'[q] = next[q]
           /\ joined'[q] = joined[q] /\ (Joined(q)' <=> Joined(q))
  BY <1>0, <1>1 DEF GapInv
<1>2. CASE ReplayLine(q)
  BY <1>2 DEF ReplayLine, Joined
<1>3. CASE Attach(q) /\ Taken(q)' = Taken(q)
  <2>1. /\ cursor'[q] = Buffered /\ joined'[q] = appended /\ next'[q] = next[q]
        /\ pc[q] = "attach"
    BY <1>3 DEF Attach, TypeOK
  <2>2. sent[q] = Run(0, next[q]) /\ batch[q] = <<>> /\ sent[q] \in Seq(Lines)
    BY <2>1 DEF CursorInv, ReplayInv, Joined, TypeOK
  <2>3. Buffered = appended
    BY <1>0 DEF Buffered
  <2>4. Run(joined'[q], cursor'[q] - joined'[q]) = <<>>
    BY <1>0, <2>1, <2>3, NoRun
  <2>5. Taken(q) = sent[q] /\ sent[q] \o <<>> = sent[q]
    BY <2>2, ConcatEmptySeq DEF Taken
  <2>6. QED
    BY <1>0, <1>3, <2>1, <2>2, <2>3, <2>4, <2>5
<1>4. CASE TakeLines(q) /\ Taken(q) = sent[q] /\ Taken(q)' = Taken(q) \o After(cursor[q])
  <2> DEFINE c == cursor[q]
             j == joined[q]
             n == next[q]
  <2>1. /\ Joined(q) /\ cursor'[q] = Buffered /\ joined'[q] = j /\ next'[q] = n
        /\ c \in 0..Size /\ c <= Buffered /\ j \in Nat /\ n \in Nat /\ n <= MaxLines
    BY <1>4 DEF TakeLines, TypeOK, CursorInv, Joined
  <2>2. Buffered = appended /\ After(c) = Run(appended - Buffered + c, Buffered - c)
    BY <1>0, <2>1, AfterRun
  <2>3. j <= c /\ Taken(q) = Run(0, n) \o Run(j, c - j)
    BY <1>0, <2>1 DEF GapInv
  <2> HIDE DEF c, j, n
  <2>4. After(c) = Run(c, appended - c) /\ c <= appended
    BY <1>0, <2>1, <2>2
  <2>5. /\ c - j \in Nat /\ appended - c \in Nat /\ j + (c - j) = c
        /\ (c - j) + (appended - c) = appended - j
        /\ j + (c - j) + (appended - c) <= MaxLines
        /\ 0 + n <= MaxLines /\ j + (c - j) <= MaxLines /\ c + (appended - c) <= MaxLines
    BY <1>0, <2>1, <2>3, <2>4
  <2>6. Run(j, c - j) \o Run(c, appended - c) = Run(j, appended - j)
    <3> DEFINE u == c - j
               v == appended - c
    <3>1. /\ u \in Nat /\ v \in Nat /\ j \in Nat /\ j + u + v <= MaxLines
          /\ j + u = c /\ u + v = appended - j
      BY <2>1, <2>5
    <3> HIDE DEF u, v
    <3>2. Run(j, u) \o Run(j + u, v) = Run(j, u + v)
      BY <3>1, RunOnRun
    <3>3. QED
      BY <3>1, <3>2 DEF u, v
  <2>7. /\ Run(0, n) \in Seq(Lines) /\ Run(j, c - j) \in Seq(Lines)
        /\ Run(c, appended - c) \in Seq(Lines)
    BY <2>1, <2>5, RunType
  <2>8. (Run(0, n) \o Run(j, c - j)) \o Run(c, appended - c)
          = Run(0, n) \o (Run(j, c - j) \o Run(c, appended - c))
    <3> DEFINE x == Run(0, n)
               y == Run(j, c - j)
               z == Run(c, appended - c)
    <3>1. x \in Seq(Lines) /\ y \in Seq(Lines) /\ z \in Seq(Lines)
      BY <2>7
    <3> HIDE DEF x, y, z
    <3>2. (x \o y) \o z = x \o (y \o z)
      BY <3>1, ConcatAssociative
    <3>3. QED
      BY <3>2 DEF x, y, z
  <2>9. Taken(q)' = Run(0, n) \o Run(j, appended - j)
    BY <1>4, <2>3, <2>4, <2>6, <2>8 DEF c
  <2>10. QED
    BY <2>1, <2>2, <2>3, <2>4, <2>9, <1>0
<1>5. QED
  BY <1>1, <1>2, <1>3, <1>4, TakenStep

(* The pump is done when the job is marked, so what a stream takes after   *)
(* it saw the mark is the last there is.                                   *)
LEMMA LastInvStep == TypeOK /\ CursorInv /\ LastInv /\ [Next]_vars => LastInv'
<1> SUFFICES ASSUME TypeOK, CursorInv, LastInv, [Next]_vars
             PROVE  LastInv'
  OBVIOUS
<1> USE DEF TypeOK, LastInv, Goto, pump, stream
<1>1. CASE WriteLog \/ AppendOutput \/ JobEnds \/ SetEvent \/ UNCHANGED vars
  <2>1. CASE WriteLog
    BY <2>1 DEF WriteLog, Buffered
  <2>2. CASE AppendOutput
    BY <2>2 DEF AppendOutput, Buffered
  <2>3. CASE JobEnds
    BY <2>3 DEF JobEnds, Buffered
  <2>4. CASE SetEvent
    BY <2>4 DEF SetEvent, Buffered
  <2>5. CASE UNCHANGED vars
    BY <2>5 DEF Buffered, vars
  <2>6. QED
    BY <1>1, <2>1, <2>2, <2>3, <2>4, <2>5
<1>2. ASSUME NEW s \in Streams,
             Open(s) \/ ReplayLine(s) \/ EndOfLog(s) \/ Attach(s) \/ Wait(s) \/ SendLines(s)
      PROVE  LastInv'
  BY <1>2 DEF Open, ReplayLine, EndOfLog, Attach, Wait, SendLines, Buffered
<1>3. ASSUME NEW s \in Streams, TakeLines(s)
      PROVE  LastInv'
  <2>1. /\ pc' = [pc EXCEPT ![s] = "send"] /\ last' = [last EXCEPT ![s] = ended]
        /\ cursor' = [cursor EXCEPT ![s] = Buffered] /\ ended' = ended /\ Buffered' = Buffered
    BY <1>3 DEF TakeLines, Buffered
  <2>2. QED
    BY <2>1
<1>4. QED
  BY <1>1, <1>2, <1>3 DEF Next, Follow

LEMMA NextInv == IInv /\ [Next]_vars => IInv'
  BY TypeInv, ReplayInvStep, OrderInvStep, GapInvStep, LastInvStep DEF IInv

LEMMA Invariance == Spec => []IInv
  BY InitInv, NextInv, PTL DEF Spec

-----------------------------------------------------------------------------
(* Every state of the pump and the streams is well formed: no cursor       *)
(* passes the buffer's end, no line is taken that was not printed.         *)
THEOREM TypeCorrect == Spec => []TypeOK
  BY Invariance, PTL DEF IInv

(* No stream sends a line after a later one, for any number of lines, also *)
(* when the ring buffer overflows, and however the pump runs between the   *)
(* replay, the attachment and the looks at the buffer.                     *)
THEOREM LinesComeInOrder == Spec => []InOrder
<1>1. IInv => InOrder
  <2> SUFFICES ASSUME IInv, NEW s \in Streams, NEW i \in DOMAIN sent[s], NEW j \in DOMAIN sent[s],
                      i < j
               PROVE  sent[s][i] <= sent[s][j]
    BY DEF InOrder
  <2>1. sent[s] \in Seq(Lines) /\ batch[s] \in Seq(Lines)
    BY DEF IInv, TypeOK
  <2>2. /\ Len(sent[s]) \in Nat /\ Len(batch[s]) \in Nat /\ DOMAIN sent[s] = 1..Len(sent[s])
    BY <2>1, LenProperties
  <2>3. /\ i \in DOMAIN Taken(s) /\ j \in DOMAIN Taken(s)
        /\ Taken(s)[i] = sent[s][i] /\ Taken(s)[j] = sent[s][j]
    <3> DEFINE q == sent[s]
               r == batch[s]
    <3>1. /\ q \in Seq(Lines) /\ r \in Seq(Lines) /\ Len(q) \in Nat /\ Len(r) \in Nat
          /\ i \in 1..Len(q) /\ j \in 1..Len(q)
      BY <2>1, <2>2
    <3> HIDE DEF q, r
    <3>2. /\ q \o r \in Seq(Lines) /\ Len(q \o r) = Len(q) + Len(r)
          /\ \A k \in 1..Len(q) + Len(r) : (q \o r)[k] = IF k <= Len(q) THEN q[k] ELSE r[k - Len(q)]
      BY <3>1, ConcatProperties
    <3>3. DOMAIN (q \o r) = 1..Len(q) + Len(r)
      BY <3>2, LenProperties
    <3>4. i \in 1..Len(q) + Len(r) /\ j \in 1..Len(q) + Len(r) /\ i <= Len(q) /\ j <= Len(q)
      BY <3>1
    <3>5. (q \o r)[i] = q[i] /\ (q \o r)[j] = q[j]
      BY <3>2, <3>4
    <3>6. QED
      BY <3>3, <3>4, <3>5 DEF q, r, Taken
  <2>4. Sorted(Taken(s))
    BY DEF IInv, OrderInv
  <2>5. QED
    BY <2>3, <2>4 DEF Sorted
<1>2. QED
  BY Invariance, <1>1, PTL

(* A stream that ends has missed no line and sent none twice, beyond the   *)
(* one line that may be in the log before it is in the buffer, as long as  *)
(* the buffer holds them all.                                              *)
THEOREM NoLineIsMissed == Spec => []NothingMissed
<1>1. IInv => NothingMissed
  <2> SUFFICES ASSUME IInv, NEW s \in Streams, pc[s] = "closed", appended <= Size
               PROVE  sent[s] = [i \in 1..next[s] |-> i]
                                  \o [i \in 1..appended - joined[s] |-> joined[s] + i]
    BY DEF NothingMissed, Closed
  <2>1. Buffered = appended /\ cursor[s] = Buffered
    BY DEF IInv, TypeOK, LastInv, Buffered
  <2>2. Taken(s) = Run(0, next[s]) \o Run(joined[s], appended - joined[s])
    BY <2>1 DEF IInv, GapInv, Joined
  <2>3. Taken(s) = sent[s]
    BY ConcatEmptySeq DEF IInv, TypeOK, CursorInv, Taken
  <2>4. Run(0, next[s]) = [i \in 1..next[s] |-> i]
    BY DEF IInv, TypeOK, Run
  <2>5. QED
    BY <2>2, <2>3, <2>4 DEF Run
<1>2. QED
  BY Invariance, <1>1, PTL

=============================================================================
