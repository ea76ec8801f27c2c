-------------------------- MODULE ConsoleTailProofs --------------------------
(***************************************************************************)
(* TLAPS proofs about ConsoleTail: for a log of any length, any number of  *)
(* truncations and any number of failed writes, what the streamer prints   *)
(* is in order, skips nothing of a log that is only appended to, is        *)
(* complete when a stopped streamer's last poll came through, and its      *)
(* warning about an empty console is true.                                 *)
(*                                                                         *)
(* The length that a poll learnt, the range it then asks for and the log   *)
(* that answers are of three moments.  ReadInv says what they still have   *)
(* in common when the answer arrives; the other invariants say how the     *)
(* offset relates to what was printed (AppendInv, OrderInv, CountInv) and  *)
(* what the end of the last poll implies (EndInv).                         *)
(***************************************************************************)
EXTENDS ConsoleTail, TLAPS

\* A byte of the log as it is now was printed.
Seen == \E i \in DOMAIN printed : printed[i][1] = gen

\* finish runs once, after run; the guest of a settled streamer stays off.
PhaseInv ==
  /\ final => pc # "tick"
  /\ pc \in {"flush", "done"} => final
  /\ settled => final /\ guest = "off"
  /\ warned => pc = "done" /\ bytesRead = 0

\* A range was asked for from the offset on, up to the length the log had:
\* still true of a log that only grew, and of one that has printed bytes.
ReadInv ==
  pc = "read" =>
    /\ from <= to
    /\ gen = 0 => from = offset /\ to < len
    /\ gen = 0 /\ settled => to = len - 1
    /\ failures = 0 /\ Seen => from = offset
    /\ bytesRead = 0 => from = 0

\* Of a log that is only appended to, the bytes below the offset are printed.
AppendInv == gen = 0 => offset <= len /\ NothingSkipped

\* What was printed is in order and not beyond the offset.
OrderInv ==
  failures = 0 =>
    /\ StreamedInOrder
    /\ \A i \in DOMAIN printed : /\ printed[i][1] <= gen
                                 /\ printed[i][1] = gen => printed[i][2] <= offset
    /\ Seen => offset <= len

CountInv == bytesRead = 0 => offset = 0

\* The last poll came through: it has read a settled log to its end.
EndInv ==
  pc \in {"flush", "done"} /\ settled /\ lastPoll = "ok" =>
    /\ gen = 0 => offset = len
    /\ bytesRead = 0 => len = 0

IInv == /\ TypeOK /\ PhaseInv /\ ReadInv /\ AppendInv /\ OrderInv
        /\ CountInv /\ EndInv

-----------------------------------------------------------------------------
(* The bytes that a poll delivers.                                         *)

Chunks == Seq((0 .. MaxTruncations) \X (1 .. MaxLen))

\* What Bytes returns: that many bytes, of the log's generation, in order.
LEMMA BytesAre ==
  ASSUME TypeOK, NEW first \in Nat \ {0}, NEW last \in 0 .. MaxLen, first <= last + 1
  PROVE  /\ Bytes(first, last) \in Chunks
         /\ Len(Bytes(first, last)) = last - first + 1
         /\ \A i \in 1 .. last - first + 1 : Bytes(first, last)[i] = <<gen, first + i - 1>>
<1> USE ConsoleTailAssumption DEF TypeOK
<1>1. last - first + 1 \in Nat
  OBVIOUS
<1>2. \A i \in 1 .. last - first + 1 :
        <<gen, first + i - 1>> \in (0 .. MaxTruncations) \X (1 .. MaxLen)
  OBVIOUS
<1> QED
  BY <1>1, <1>2 DEF Bytes, Chunks

\* A poll that delivers bytes of the log, maybe none.
Delivers(first, last, new) ==
  /\ first \in Nat \ {0} /\ last \in 0 .. MaxLen /\ first <= last + 1
  /\ new \in 0 .. MaxLen
  /\ Deliver(Bytes(first, last), new)
  /\ UNCHANGED request

\* What the answers have in common, whatever the log did since it was asked
\* for: the bytes that are new come with the offset that follows them, the
\* offset of a log that has printed bytes goes on from where it was, and a
\* settled log is read to its end.
Follows(first, last, new) ==
  /\ first <= last => new = last
  /\ gen = 0 => new \in offset .. len /\ (new > offset => first = offset + 1 /\ last = new)
  /\ gen = 0 /\ settled => new = len
  /\ failures = 0 /\ Seen => new \in offset .. len /\ (first <= last => first = offset + 1)
  /\ first <= last => new <= len
  /\ bytesRead = 0 /\ last < first => new = 0 /\ (settled => len = 0)

\* Nothing is delivered: the poll asks for a range, a size, or ends.
Asks == /\ pc = "read" => pc' # "read"
        /\ pc' = "read" => from' = (IF len < offset THEN 0 ELSE offset) /\ to' = len - 1
                             /\ len # from'
        /\ pc' # "read" => UNCHANGED request
        /\ pc' \in {"probe", "read"} \/ PollEnds("missing") \/ PollEnds("failed")
        /\ pc' \in {"probe", "read"} => UNCHANGED lastPoll
        /\ UNCHANGED <<log, stopping, final, warned, settled, stream>>

\* No bytes are bytes of the log.
LEMMA NoBytes == ASSUME TypeOK PROVE Bytes(1, 0) = <<>>
<1>1. Bytes(1, 0) \in Chunks /\ Len(Bytes(1, 0)) = 0
  BY BytesAre, ConsoleTailAssumption
<1> QED
  BY <1>1 DEF Chunks

\* Every answer delivers, or asks for a range.
LEMMA AnswersDeliver ==
  ASSUME IInv, Poll
  PROVE  \/ Asks
         \/ \E first, last, new : Delivers(first, last, new) /\ Follows(first, last, new)
<1> USE ConsoleTailAssumption DEF IInv, TypeOK, Requests
<1>1. CASE HeadRefused
  BY <1>1 DEF HeadRefused, Asks
<1>2. CASE RequestFails
  BY <1>2 DEF RequestFails, Asks, PollEnds
<1>3. CASE AnswerSize
  <2> DEFINE start == IF len < offset THEN 0 ELSE offset
  <2>1. CASE len # start
    BY <1>3, <2>1 DEF AnswerSize, SizeKnown, Asks
  <2>2. CASE len = start
    <3>1. Deliver(<<>>, start) /\ UNCHANGED request
      BY <1>3, <2>2 DEF AnswerSize, SizeKnown
    <3>2. Delivers(1, 0, start)
      BY <3>1, NoBytes DEF Delivers
    <3>3. Follows(1, 0, start)
      BY <2>2 DEF Follows, AppendInv, OrderInv, CountInv
    <3> QED
      BY <3>2, <3>3
  <2> QED
    BY <2>1, <2>2
<1>4. CASE AnswerPartial
  <2> DEFINE last == IF to < len THEN to + 1 ELSE len
  <2>1. Deliver(Bytes(from + 1, last), last) /\ UNCHANGED request /\ from < len /\ pc = "read"
    BY <1>4 DEF AnswerPartial
  <2>2. Delivers(from + 1, last, last)
    BY <2>1 DEF Delivers, ReadInv
  <2>3. Follows(from + 1, last, last)
    BY <2>1 DEF Follows, ReadInv, AppendInv, OrderInv
  <2> QED
    BY <2>2, <2>3
<1>5. CASE AnswerFull
  <2> DEFINE first == IF len < from THEN 1 ELSE from + 1
  <2>1. Deliver(Bytes(first, len), len) /\ UNCHANGED request /\ pc = "read"
    BY <1>5 DEF AnswerFull
  <2>2. Delivers(first, len, len)
    BY <2>1 DEF Delivers
  <2>3. Follows(first, len, len)
    BY <2>1 DEF Follows, ReadInv, AppendInv, OrderInv
  <2> QED
    BY <2>2, <2>3
<1>6. CASE AnswerUnsatisfiable
  <2>1. PICK known \in {len, from} : Deliver(<<>>, known)
    BY <1>6 DEF AnswerUnsatisfiable
  <2>2. UNCHANGED request /\ pc = "read" /\ from >= len
    BY <1>6 DEF AnswerUnsatisfiable
  <2>3. Delivers(1, 0, known)
    BY <2>1, <2>2, NoBytes DEF Delivers
  <2>4. Follows(1, 0, known)
    BY <2>2 DEF Follows, ReadInv, AppendInv, OrderInv
  <2> QED
    BY <2>3, <2>4
<1> QED
  BY <1>1, <1>2, <1>3, <1>4, <1>5, <1>6 DEF Poll

\* A delivery hands the writer all of its bytes, or, when the write fails,
\* the first of them.
LEMMA DeliveryIs ==
  ASSUME TypeOK, NEW first, NEW last, NEW new, Delivers(first, last, new)
  PROVE  /\ UNCHANGED <<log, stopping, final, warned, settled, request>>
         /\ pc' = IF final THEN "flush" ELSE "tick"
         /\ \/ /\ offset' = new /\ printed' = printed \o Bytes(first, last)
               /\ bytesRead' = bytesRead + (last - first + 1)
               /\ failures' = failures /\ lastPoll' = "ok"
            \/ /\ failures' = failures + 1 /\ failures < MaxWriteFailures
               /\ \E n \in 0 .. last - first :
                    printed' = printed \o SubSeq(Bytes(first, last), 1, n)
               /\ UNCHANGED <<offset, bytesRead>> /\ lastPoll' = "failed"
<1>1. Len(Bytes(first, last)) = last - first + 1
  BY BytesAre DEF Delivers
<1>2. Len(Bytes(first, last)) - 1 = last - first
  BY <1>1, ConsoleTailAssumption DEF Delivers
<1> QED
  BY <1>1, <1>2 DEF Delivers, Deliver, PollEnds

\* What was printed stays, and the bytes delivered come after it.
LEMMA PrintedGrows ==
  ASSUME TypeOK, NEW first \in Nat \ {0}, NEW last \in 0 .. MaxLen, first <= last + 1,
         NEW n \in 0 .. last - first + 1,
         printed' = printed \o SubSeq(Bytes(first, last), 1, n)
  PROVE  /\ printed' \in Chunks /\ Len(printed') = Len(printed) + n
         /\ \A i \in 1 .. Len(printed) : printed'[i] = printed[i]
         /\ \A i \in Len(printed) + 1 .. Len(printed) + n :
              printed'[i] = <<gen, first + (i - Len(printed)) - 1>>
<1> USE ConsoleTailAssumption
<1> DEFINE chunk == SubSeq(Bytes(first, last), 1, n)
<1>1. /\ chunk \in Chunks /\ Len(chunk) = n
      /\ \A i \in 1 .. n : chunk[i] = <<gen, first + i - 1>>
  <2>1. /\ Bytes(first, last) \in Chunks /\ Len(Bytes(first, last)) = last - first + 1
        /\ \A i \in 1 .. last - first + 1 : Bytes(first, last)[i] = <<gen, first + i - 1>>
    BY BytesAre
  <2>2. last - first + 1 \in Nat /\ n \in Nat /\ n <= last - first + 1
    OBVIOUS
  <2>3. chunk \in Chunks /\ Len(chunk) = n /\ \A i \in 1 .. n : chunk[i] = Bytes(first, last)[i]
    BY <2>1, <2>2 DEF Chunks
  <2> QED
    BY <2>1, <2>2, <2>3
<1>2. printed \in Chunks
  BY DEF TypeOK, Chunks
<1>3. n \in Nat /\ Len(printed) \in Nat
  BY <1>2 DEF Chunks
<1> HIDE DEF chunk
<1>4. /\ printed' \in Chunks /\ Len(printed') = Len(printed) + n
      /\ \A i \in 1 .. Len(printed) : printed'[i] = printed[i]
      /\ \A i \in Len(printed) + 1 .. Len(printed) + n : printed'[i] = chunk[i - Len(printed)]
  <2>1. printed' = printed \o chunk
    BY DEF chunk
  <2>2. printed' \in Chunks /\ Len(printed') = Len(printed) + n
    <3>1. \A A : \A s, t \in Seq(A) : s \o t \in Seq(A) /\ Len(s \o t) = Len(s) + Len(t)
      OBVIOUS
    <3>2. printed \o chunk \in Chunks /\ Len(printed \o chunk) = Len(printed) + Len(chunk)
      BY <1>1, <1>2, <3>1, Zenon DEF Chunks
    <3> QED
      BY <1>1, <2>1, <3>2, Zenon
  <2>3. \A i \in 1 .. Len(printed) : printed'[i] = printed[i]
    BY <1>1, <1>2, <1>3, <2>1 DEF Chunks
  <2>4. \A i \in Len(printed) + 1 .. Len(printed) + n : printed'[i] = chunk[i - Len(printed)]
    BY <1>1, <1>2, <1>3, <2>1 DEF Chunks
  <2> QED
    BY <2>2, <2>3, <2>4
<1>5. \A i \in Len(printed) + 1 .. Len(printed) + n : i - Len(printed) \in 1 .. n
  BY <1>3
<1> QED
  BY <1>1, <1>4, <1>5

\* All of the bytes delivered are the first of them.
LEMMA WholeChunk ==
  ASSUME TypeOK, NEW first \in Nat \ {0}, NEW last \in 0 .. MaxLen, first <= last + 1
  PROVE  Bytes(first, last) = SubSeq(Bytes(first, last), 1, last - first + 1)
<1>1. Bytes(first, last) \in Chunks /\ Len(Bytes(first, last)) = last - first + 1
  BY BytesAre
<1>2. last - first + 1 \in Nat
  BY ConsoleTailAssumption
<1> QED
  BY <1>1, <1>2 DEF Chunks

\* A printed byte has a generation and a position.
LEMMA PrintedBytes ==
  ASSUME TypeOK, NEW i \in DOMAIN printed
  PROVE  printed[i][1] \in Nat /\ printed[i][2] \in Nat
<1> DEFINE A == (0 .. MaxTruncations) \X (1 .. MaxLen)
<1>1. \A B : \A s \in Seq(B) : \A k \in DOMAIN s : s[k] \in B
  OBVIOUS
<1>2. printed[i] \in A
  BY <1>1, Zenon DEF TypeOK
<1>3. \A b \in A : b[1] \in Nat /\ b[2] \in Nat
  BY ConsoleTailAssumption
<1> QED
  BY <1>2, <1>3, Zenon

-----------------------------------------------------------------------------
(* The step of each part of the streamer keeps the invariant.              *)

\* A write that succeeds: what was printed stays in order, grows by the bytes
\* that follow the offset, and the offset moves behind them.
LEMMA WrittenStep ==
  ASSUME IInv, pc \in Requests,
         NEW first, NEW last, NEW new,
         Delivers(first, last, new), Follows(first, last, new),
         UNCHANGED <<log, stopping, final, warned, settled, request>>,
         pc' = IF final THEN "flush" ELSE "tick",
         offset' = new, printed' = printed \o Bytes(first, last),
         bytesRead' = bytesRead + (last - first + 1),
         failures' = failures, lastPoll' = "ok"
  PROVE  IInv'
<1> DEFINE n == last - first + 1
           before == Len(printed)
<1>1. TypeOK
  BY DEF IInv
<1>2. /\ first \in Nat \ {0} /\ last \in 0 .. MaxLen /\ first <= last + 1
      /\ new \in 0 .. MaxLen
  BY DEF Delivers
<1>3. n \in Nat /\ n \in 0 .. last - first + 1 /\ before \in Nat
  BY <1>1, <1>2, ConsoleTailAssumption DEF TypeOK
<1>4. /\ printed' \in Chunks /\ Len(printed') = before + n
      /\ \A i \in 1 .. before : printed'[i] = printed[i]
      /\ \A i \in before + 1 .. before + n : printed'[i] = <<gen, first + (i - before) - 1>>
  <2>1. printed' = printed \o SubSeq(Bytes(first, last), 1, n)
    BY <1>1, <1>2, WholeChunk
  <2>2. first <= last + 1 /\ n \in 0 .. last - first + 1
    BY <1>2, <1>3
  <2> QED
    BY <1>1, <1>2, <2>1, <2>2, PrintedGrows, Zenon
<1>5. DOMAIN printed = 1 .. before /\ DOMAIN printed' = 1 .. before + n
  BY <1>1, <1>4 DEF TypeOK, Chunks
<1>6. UNCHANGED <<exists, gen, len, guest, stopping, final, warned, settled, from, to,
                  failures>>
  BY DEF log, request
<1>7. gen \in Nat /\ len \in Nat /\ offset \in Nat /\ bytesRead \in Nat
  BY <1>1, ConsoleTailAssumption DEF TypeOK
<1> HIDE DEF n, before
<1>8. n = last - first + 1
  BY DEF n
<1>9. bytesRead' = bytesRead + n
  BY <1>8
<1>10. TypeOK'
  <2>1. bytesRead' \in Nat
    BY <1>3, <1>7, <1>9
  <2>2. printed' \in Seq((0 .. MaxTruncations) \X (1 .. MaxLen))
    BY <1>4 DEF Chunks
  <2>3. /\ pc' \in Requests \cup {"tick", "flush", "done"}
        /\ lastPoll' \in {"none", "ok", "missing", "failed"}
    OBVIOUS
  <2> QED
    BY <1>1, <1>2, <1>6, <2>1, <2>2, <2>3 DEF TypeOK
<1>11. PhaseInv'
  BY <1>6 DEF IInv, PhaseInv, Requests
<1>12. ReadInv'
  BY DEF ReadInv
<1>13. AppendInv'
  <2> SUFFICES ASSUME gen' = 0
               PROVE  offset' <= len' /\ NothingSkipped'
    BY DEF AppendInv
  <2>1. gen = 0 /\ new \in offset .. len /\ (new > offset => first = offset + 1 /\ last = new)
    BY <1>6 DEF Follows
  <2>2. offset' <= len'
    BY <1>6, <1>7, <2>1
  <2>3. ASSUME NEW i \in 1 .. new PROVE <<0, i>> \in Range(printed')
    <3>1. CASE i <= offset
      <4>1. PICK k \in DOMAIN printed : printed[k] = <<0, i>>
        BY <1>7, <2>1, <2>3, <3>1 DEF IInv, AppendInv, NothingSkipped, Range
      <4>2. k \in DOMAIN printed' /\ printed'[k] = <<0, i>>
        BY <1>3, <1>4, <1>5, <4>1
      <4> QED
        BY <4>2 DEF Range
    <3>2. CASE i > offset
      <4>1. first = offset + 1 /\ n = new - offset
        BY <1>2, <1>7, <1>8, <2>1, <2>3, <3>2
      <4>2. before + (i - offset) \in before + 1 .. before + n
        BY <1>2, <1>3, <1>7, <2>1, <2>3, <3>2, <4>1
      <4>3. printed'[before + (i - offset)] =
              <<gen, first + ((before + (i - offset)) - before) - 1>>
        BY <1>4, <4>2
      <4>4. first + ((before + (i - offset)) - before) - 1 = i
        BY <1>2, <1>3, <1>7, <2>3, <4>1
      <4>5. /\ before + (i - offset) \in DOMAIN printed'
            /\ printed'[before + (i - offset)] = <<0, i>>
        BY <1>3, <1>5, <2>1, <4>2, <4>3, <4>4
      <4> QED
        BY <4>5 DEF Range
    <3> QED
      BY <1>2, <1>7, <2>3, <3>1, <3>2
  <2> QED
    BY <2>2, <2>3 DEF NothingSkipped
<1>14. OrderInv'
  <2> SUFFICES ASSUME failures = 0
               PROVE  /\ StreamedInOrder'
                      /\ \A i \in DOMAIN printed' :
                           /\ printed'[i][1] <= gen
                           /\ printed'[i][1] = gen => printed'[i][2] <= new
                      /\ Seen' => new <= len
    BY <1>6 DEF OrderInv
  <2>1. /\ \A i, j \in 1 .. before : i < j => Before(printed[i], printed[j])
        /\ \A i \in 1 .. before : /\ printed[i][1] <= gen
                                  /\ printed[i][1] = gen => printed[i][2] <= offset
    BY <1>5 DEF IInv, OrderInv, StreamedInOrder
  <2>2. ASSUME NEW i \in 1 .. before, printed[i][1] = gen
        PROVE  new \in offset .. len /\ (first <= last => first = offset + 1)
    BY <1>5, <2>2 DEF Follows, Seen
  <2>3. ASSUME NEW i \in before + 1 .. before + n
        PROVE  /\ printed'[i][1] = gen /\ printed'[i][2] = first + (i - before) - 1
               /\ first <= last /\ new = last /\ new <= len
               /\ first <= printed'[i][2] /\ printed'[i][2] <= last
    <3>1. first <= last
      BY <1>2, <1>3, <1>8, <2>3
    <3>2. printed'[i] = <<gen, first + (i - before) - 1>>
      BY <1>4, <2>3
    <3>3. printed'[i][1] = gen /\ printed'[i][2] = first + (i - before) - 1
      BY <3>2
    <3>4. new = last /\ new <= len
      BY <3>1 DEF Follows
    <3> QED
      BY <1>2, <1>3, <1>8, <2>3, <3>1, <3>3, <3>4
  <2>4. ASSUME NEW i \in 1 .. before
        PROVE  printed'[i] = printed[i] /\ printed[i][2] \in Nat /\ printed[i][1] \in Nat
    <3>1. i \in DOMAIN printed
      BY <1>5, <2>4
    <3> QED
      BY <1>1, <1>4, <2>4, <3>1, PrintedBytes
  <2>5. ASSUME NEW i \in 1 .. before + n
        PROVE  i \in 1 .. before \/ i \in before + 1 .. before + n
    BY <1>3, <2>5
  <2>6. StreamedInOrder'
    <3> SUFFICES ASSUME NEW i \in 1 .. before + n, NEW j \in 1 .. before + n, i < j
                 PROVE  Before(printed'[i], printed'[j])
      BY <1>5 DEF StreamedInOrder, Before
    <3>1. CASE i \in 1 .. before /\ j \in 1 .. before
      BY <2>1, <2>4, <3>1
    <3>2. CASE i \in 1 .. before /\ j \in before + 1 .. before + n
      <4>1. /\ printed'[j][1] = gen /\ first <= printed'[j][2] /\ first <= last
            /\ printed'[j][2] \in Nat
        <5>1. j \in before + 1 .. before + n
          BY <3>2
        <5>2. /\ printed'[j][1] = gen /\ printed'[j][2] = first + (j - before) - 1
              /\ first <= last /\ first <= printed'[j][2]
          BY <2>3, <5>1, Zenon
        <5>3. first + (j - before) - 1 \in Nat
          BY <1>2, <1>3, <5>1
        <5> QED
          BY <5>2, <5>3
      <4>2. /\ printed'[i] = printed[i] /\ printed[i][1] <= gen
            /\ printed[i][1] \in Nat /\ printed[i][2] \in Nat
        BY <2>1, <2>4, <3>2
      <4>3. printed[i][1] = gen => printed[i][2] <= offset /\ first = offset + 1
        BY <2>1, <2>2, <3>2, <4>1
      <4> QED
        <5>1. CASE printed[i][1] = gen
          <6>1. printed[i][2] < printed'[j][2]
            <7>1. \A a, b \in Nat : a <= offset /\ offset + 1 <= b => a < b
              BY <1>7
            <7>2. /\ printed[i][2] \in Nat /\ printed'[j][2] \in Nat
                  /\ printed[i][2] <= offset /\ offset + 1 <= printed'[j][2]
              BY <4>1, <4>2, <4>3, <5>1, Zenon
            <7> QED
              BY <7>1, <7>2, Zenon
          <6> QED
            BY <4>1, <4>2, <5>1, <6>1, Zenon DEF Before
        <5>2. CASE printed[i][1] # gen
          <6>1. printed[i][1] < gen
            BY <1>7, <4>2, <5>2
          <6> QED
            BY <4>1, <4>2, <6>1, Zenon DEF Before
        <5> QED
          BY <5>1, <5>2
    <3>3. CASE i \in before + 1 .. before + n /\ j \in before + 1 .. before + n
      <4>1. printed'[i][1] = gen /\ printed'[i][2] = first + (i - before) - 1
        BY <2>3, <3>3
      <4>2. printed'[j][1] = gen /\ printed'[j][2] = first + (j - before) - 1
        BY <2>3, <3>3
      <4> QED
        BY <1>2, <1>3, <1>7, <4>1, <4>2 DEF Before
    <3>4. CASE i \in before + 1 .. before + n /\ j \in 1 .. before
      BY <1>3, <3>4
    <3> QED
      BY <2>5, <3>1, <3>2, <3>3, <3>4
  <2>7. ASSUME NEW i \in 1 .. before + n
        PROVE  printed'[i][1] <= gen /\ (printed'[i][1] = gen => printed'[i][2] <= new)
    <3>1. CASE i \in 1 .. before
      <4>1. printed'[i] = printed[i] /\ printed[i][2] \in Nat /\ printed[i][1] <= gen
        BY <2>1, <2>4, <3>1
      <4>2. printed[i][1] = gen => printed[i][2] <= offset /\ offset <= new
        BY <1>2, <1>7, <2>1, <2>2, <3>1
      <4> QED
        BY <1>2, <1>7, <4>1, <4>2
    <3>2. CASE i \in before + 1 .. before + n
      <4>1. printed'[i][1] = gen /\ new = last /\ printed'[i][2] <= last
        BY <2>3, <3>2, Zenon
      <4>2. gen <= gen
        BY <1>7
      <4> QED
        BY <4>1, <4>2, Zenon
    <3> QED
      BY <2>5, <2>7, <3>1, <3>2
  <2>8. Seen' => new <= len
    <3> SUFFICES ASSUME NEW i \in 1 .. before + n, printed'[i][1] = gen
                 PROVE  new <= len
      BY <1>5, <1>6 DEF Seen
    <3>1. CASE i \in 1 .. before
      <4>1. printed[i][1] = gen
        BY <2>4, <3>1
      <4>2. new \in offset .. len
        BY <2>2, <3>1, <4>1, Zenon
      <4> QED
        BY <1>7, <4>2
    <3>2. CASE i \in before + 1 .. before + n
      BY <2>3, <3>2
    <3> QED
      BY <2>5, <3>1, <3>2
  <2> QED
    BY <1>5, <2>6, <2>7, <2>8
<1>15. ASSUME bytesRead' = 0 PROVE bytesRead = 0 /\ last < first
  BY <1>2, <1>3, <1>7, <1>8, <1>9, <1>15
<1>16. CountInv'
  BY <1>15 DEF CountInv, Follows
<1>17. EndInv'
  BY <1>6, <1>15 DEF EndInv, Follows
<1> QED
  BY <1>10, <1>11, <1>12, <1>13, <1>14, <1>16, <1>17 DEF IInv

\* A write that fails has printed some of the bytes and moves nothing else, so
\* that the next poll delivers them again.
LEMMA FailedWriteStep ==
  ASSUME IInv, pc \in Requests,
         NEW first, NEW last, NEW new,
         Delivers(first, last, new),
         UNCHANGED <<log, stopping, final, warned, settled, request>>,
         pc' = IF final THEN "flush" ELSE "tick",
         failures' = failures + 1, failures < MaxWriteFailures,
         \E n \in 0 .. last - first : printed' = printed \o SubSeq(Bytes(first, last), 1, n),
         UNCHANGED <<offset, bytesRead>>, lastPoll' = "failed"
  PROVE  IInv'
<1>1. TypeOK
  BY DEF IInv
<1>2. /\ first \in Nat \ {0} /\ last \in 0 .. MaxLen /\ first <= last + 1
  BY DEF Delivers
<1>3. PICK n \in 0 .. last - first : printed' = printed \o SubSeq(Bytes(first, last), 1, n)
  OBVIOUS
<1>4. n \in 0 .. last - first + 1
  BY <1>2, ConsoleTailAssumption
<1>5. /\ printed' \in Chunks /\ Len(printed') = Len(printed) + n
      /\ \A i \in 1 .. Len(printed) : printed'[i] = printed[i]
  BY <1>1, <1>2, <1>3, <1>4, PrintedGrows
<1>6. UNCHANGED <<exists, gen, len, guest, stopping, final, warned, settled, from, to, offset,
                  bytesRead>>
  BY DEF log, request
<1>7. TypeOK'
  <2>1. printed' \in Seq((0 .. MaxTruncations) \X (1 .. MaxLen))
    BY <1>5 DEF Chunks
  <2>2. failures' \in 0 .. MaxWriteFailures
    BY <1>1, ConsoleTailAssumption DEF TypeOK
  <2>3. /\ pc' \in Requests \cup {"tick", "flush", "done"}
        /\ lastPoll' \in {"none", "ok", "missing", "failed"}
    OBVIOUS
  <2> QED
    BY <1>1, <1>6, <2>1, <2>2, <2>3 DEF TypeOK
<1>8. PhaseInv'
  BY <1>6 DEF IInv, PhaseInv, Requests
<1>9. ReadInv' /\ EndInv'
  BY DEF ReadInv, EndInv
<1>10. AppendInv'
  <2>1. /\ DOMAIN printed = 1 .. Len(printed) /\ Len(printed) \in Nat
        /\ DOMAIN printed' = 1 .. Len(printed) + n
    BY <1>1, <1>5 DEF TypeOK, Chunks
  <2>2. Range(printed) \subseteq Range(printed')
    BY <1>2, <1>5, <2>1 DEF Range
  <2> QED
    BY <1>6, <2>2 DEF IInv, AppendInv, NothingSkipped
<1>11. OrderInv'
  BY <1>1, ConsoleTailAssumption DEF OrderInv, TypeOK
<1>12. CountInv'
  BY <1>6 DEF IInv, CountInv
<1> QED
  BY <1>7, <1>8, <1>9, <1>10, <1>11, <1>12 DEF IInv

\* What was printed, the log's generation and the offset stay: so does the order.
LEMMA SamePrinted ==
  ASSUME UNCHANGED <<gen, offset, printed, failures>>
  PROVE  /\ Seen' <=> Seen
         /\ StreamedInOrder' <=> StreamedInOrder
         /\ NothingSkipped' <=> NothingSkipped
BY DEF Seen, StreamedInOrder, NothingSkipped, Before, Range

\* A request that delivers nothing.
LEMMA AskStep ==
  ASSUME IInv, pc \in Requests, Asks
  PROVE  IInv'
<1>1. UNCHANGED <<exists, gen, len, guest, stopping, final, warned, settled, offset, printed,
                  bytesRead, failures>>
  BY DEF Asks, log, stream
<1>2. TypeOK
  BY DEF IInv
<1>3. \/ pc' \in {"probe", "read"}
      \/ /\ pc' = IF final THEN "flush" ELSE "tick"
         /\ lastPoll' \in {"missing", "failed"}
  BY DEF Asks, PollEnds
<1>4. CASE pc' = "read"
  <2>1. /\ from' = (IF len < offset THEN 0 ELSE offset) /\ to' = len - 1
        /\ len # from' /\ lastPoll' = lastPoll
    BY <1>4 DEF Asks
  <2>2. from' \in 0 .. MaxLen /\ to' \in 0 .. MaxLen /\ from' <= to'
    BY <1>2, <2>1, ConsoleTailAssumption DEF TypeOK
  <2>3. TypeOK'
    BY <1>1, <1>2, <1>4, <2>1, <2>2 DEF TypeOK, Requests
  <2>4. ReadInv'
    BY <1>1, <1>2, <2>1, <2>2, SamePrinted, ConsoleTailAssumption
    DEF IInv, ReadInv, AppendInv, OrderInv, CountInv, TypeOK
  <2>5. PhaseInv' /\ EndInv' /\ CountInv'
    BY <1>1, <1>4 DEF IInv, PhaseInv, EndInv, CountInv, Requests
  <2>6. AppendInv' /\ OrderInv'
    BY <1>1, SamePrinted DEF IInv, AppendInv, OrderInv
  <2> QED
    BY <2>3, <2>4, <2>5, <2>6 DEF IInv
<1>5. CASE pc' # "read"
  <2>1. UNCHANGED <<from, to>>
    BY <1>5 DEF Asks, request
  <2>2. TypeOK'
    BY <1>1, <1>2, <1>3, <1>5, <2>1 DEF TypeOK, Requests, Asks
  <2>3. ReadInv' /\ PhaseInv' /\ EndInv' /\ CountInv'
    BY <1>1, <1>3, <1>5 DEF IInv, ReadInv, PhaseInv, EndInv, CountInv, Requests
  <2>4. AppendInv' /\ OrderInv'
    BY <1>1, SamePrinted DEF IInv, AppendInv, OrderInv
  <2> QED
    BY <2>2, <2>3, <2>4 DEF IInv
<1> QED
  BY <1>4, <1>5

\* Every step of a poll.
LEMMA PollStep ==
  ASSUME IInv, Poll
  PROVE  IInv'
<1>1. pc \in Requests
  BY DEF Poll, AnswerSize, HeadRefused, RequestFails, AnswerPartial, AnswerFull,
         AnswerUnsatisfiable, Requests
<1>2. CASE Asks
  BY <1>1, <1>2, AskStep
<1>3. CASE \E first, last, new : Delivers(first, last, new) /\ Follows(first, last, new)
  <2>1. PICK first, last, new : Delivers(first, last, new) /\ Follows(first, last, new)
    BY <1>3
  <2>2. TypeOK
    BY DEF IInv
  <2>3. /\ UNCHANGED <<log, stopping, final, warned, settled, request>>
        /\ pc' = IF final THEN "flush" ELSE "tick"
    BY <2>1, <2>2, DeliveryIs
  <2>4. CASE /\ offset' = new /\ printed' = printed \o Bytes(first, last)
             /\ bytesRead' = bytesRead + (last - first + 1)
             /\ failures' = failures /\ lastPoll' = "ok"
    BY <1>1, <2>1, <2>3, <2>4, WrittenStep
  <2>5. CASE /\ failures' = failures + 1 /\ failures < MaxWriteFailures
             /\ \E n \in 0 .. last - first :
                  printed' = printed \o SubSeq(Bytes(first, last), 1, n)
             /\ UNCHANGED <<offset, bytesRead>> /\ lastPoll' = "failed"
    BY <1>1, <2>1, <2>3, <2>5, FailedWriteStep
  <2> QED
    BY <2>1, <2>2, <2>4, <2>5, DeliveryIs
<1> QED
  BY <1>2, <1>3, AnswersDeliver

\* The streamer's steps between its polls, and the build's Stop.
LEMMA RunStep ==
  ASSUME IInv, Tick \/ Finish \/ Flush \/ Stop
  PROVE  IInv'
<1>1. UNCHANGED <<exists, gen, len, guest, offset, from, to, printed, bytesRead, failures,
                  lastPoll>>
  BY DEF Tick, Finish, Flush, Stop, log, request, stream
<1>2. TypeOK'
  <2>1. /\ pc' \in Requests \cup {"tick", "flush", "done"}
        /\ stopping' \in BOOLEAN /\ final' \in BOOLEAN
        /\ warned' \in BOOLEAN /\ settled' \in BOOLEAN
    BY Zenon DEF IInv, TypeOK, Requests, Tick, Finish, Flush, Stop
  <2> QED
    BY <1>1, <2>1 DEF IInv, TypeOK
<1>3. PhaseInv'
  <2>1. CASE Tick \/ Stop
    <3>1. /\ UNCHANGED <<final, warned, settled, guest, bytesRead>>
          /\ pc' = pc \/ (pc = "tick" /\ ~final /\ pc' = "head")
      BY <1>1, <2>1 DEF Tick, Stop
    <3> QED
      BY <3>1 DEF IInv, PhaseInv
  <2>2. CASE Finish
    <3>1. /\ UNCHANGED <<warned, guest, bytesRead>>
          /\ pc = "tick" /\ pc' = "head" /\ final'
          /\ settled' => guest = "off"
      BY <1>1, <2>2 DEF Finish
    <3> QED
      BY <3>1 DEF IInv, PhaseInv
  <2>3. CASE Flush
    <3>1. /\ UNCHANGED <<final, settled, guest, bytesRead>>
          /\ pc = "flush" /\ pc' = "done"
          /\ warned' => bytesRead = 0
      BY <1>1, <2>3 DEF Flush
    <3> QED
      BY <3>1 DEF IInv, PhaseInv
  <2> QED
    BY <2>1, <2>2, <2>3
<1>4. ReadInv'
  <2>1. pc' = "read" => pc = "read" /\ settled' = settled
    BY DEF Tick, Finish, Flush, Stop
  <2> QED
    BY <1>1, <2>1, SamePrinted DEF IInv, ReadInv
<1>5. AppendInv' /\ OrderInv' /\ CountInv'
  BY <1>1, SamePrinted DEF IInv, AppendInv, OrderInv, CountInv
<1>6. EndInv'
  <2>1. pc' \in {"flush", "done"} => pc \in {"flush", "done"} /\ settled' = settled
    BY DEF Tick, Finish, Flush, Stop
  <2> QED
    BY <1>1, <2>1 DEF IInv, EndInv
<1> QED
  BY <1>2, <1>3, <1>4, <1>5, <1>6 DEF IInv

\* The guest and the datastore.  A log that is truncated is one of which
\* nothing was printed yet; a settled streamer's guest writes no more.
LEMMA OutsideStep ==
  ASSUME IInv, Outside
  PROVE  IInv'
<1>1. UNCHANGED <<pc, stopping, final, warned, lastPoll, settled, from, to, offset, printed,
                  bytesRead, failures>>
  BY DEF Outside, request, stream
<1>2. TypeOK
  BY DEF IInv
<1>3. guest = "running" /\ ~settled
  BY DEF Outside, CreateLog, GuestWrites, Truncate, PowerOff, IInv, PhaseInv
<1>4. TypeOK'
  <2>1. /\ exists' \in BOOLEAN /\ gen' \in 0 .. MaxTruncations /\ len' \in 0 .. MaxLen
        /\ guest' \in {"running", "off"}
    <3>1. CASE CreateLog
      BY <1>2, <3>1 DEF CreateLog, TypeOK
    <3>2. CASE GuestWrites
      BY <1>2, <3>2, ConsoleTailAssumption DEF GuestWrites, TypeOK
    <3>3. CASE Truncate
      BY <1>2, <3>3, ConsoleTailAssumption DEF Truncate, TypeOK
    <3>4. CASE PowerOff
      BY <1>2, <3>4 DEF PowerOff, TypeOK
    <3> QED
      BY <3>1, <3>2, <3>3, <3>4 DEF Outside
  <2> QED
    BY <1>1, <1>2, <2>1 DEF TypeOK
<1>5. PhaseInv' /\ EndInv' /\ CountInv'
  BY <1>1, <1>3 DEF IInv, PhaseInv, EndInv, CountInv
<1>6. CASE Truncate
  <2>1. gen' = gen + 1 /\ gen \in Nat /\ gen' # 0 /\ gen < gen'
    BY <1>2, <1>6, ConsoleTailAssumption DEF Truncate, TypeOK
  <2>2. failures = 0 => \A i \in DOMAIN printed : printed[i][1] < gen'
    <3> SUFFICES ASSUME failures = 0, NEW i \in DOMAIN printed
                 PROVE  printed[i][1] < gen'
      OBVIOUS
    <3>1. printed[i][1] <= gen /\ printed[i][1] \in Nat
      BY <1>2, PrintedBytes DEF IInv, OrderInv
    <3> QED
      BY <2>1, <3>1
  <2>3. failures = 0 => ~Seen'
    <3> SUFFICES ASSUME failures = 0, NEW i \in DOMAIN printed
                 PROVE  printed[i][1] # gen'
      BY <1>1 DEF Seen
    <3>1. printed[i][1] < gen' /\ printed[i][1] \in Nat
      BY <1>2, <2>2, PrintedBytes
    <3> QED
      BY <2>1, <3>1
  <2>4. AppendInv'
    BY <2>1 DEF AppendInv
  <2>5. OrderInv'
    <3>1. StreamedInOrder' <=> StreamedInOrder
      BY <1>1 DEF StreamedInOrder, Before
    <3>2. failures = 0 => \A i \in DOMAIN printed : printed[i][1] <= gen' /\ printed[i][1] # gen'
      <4> SUFFICES ASSUME failures = 0, NEW i \in DOMAIN printed
                   PROVE  printed[i][1] <= gen' /\ printed[i][1] # gen'
        OBVIOUS
      <4>1. printed[i][1] < gen' /\ printed[i][1] \in Nat
        BY <1>2, <2>2, PrintedBytes
      <4> QED
        BY <2>1, <4>1
    <3> QED
      BY <1>1, <2>3, <3>1, <3>2 DEF IInv, OrderInv
  <2>6. ReadInv'
    BY <1>1, <2>1, <2>3 DEF IInv, ReadInv
  <2> QED
    BY <1>4, <1>5, <2>4, <2>5, <2>6 DEF IInv
<1>7. CASE CreateLog \/ GuestWrites \/ PowerOff
  <2>1. gen' = gen /\ len' \in Nat /\ len \in Nat /\ len <= len'
    BY <1>2, <1>7, ConsoleTailAssumption DEF CreateLog, GuestWrites, PowerOff, TypeOK
  <2>2. AppendInv' /\ OrderInv'
    BY <1>1, <1>2, <2>1, SamePrinted, ConsoleTailAssumption
    DEF IInv, AppendInv, OrderInv, TypeOK
  <2>3. ReadInv'
    <3> SUFFICES ASSUME pc = "read"
                 PROVE  /\ from <= to
                        /\ gen = 0 => from = offset /\ to < len'
                        /\ failures = 0 /\ Seen => from = offset
                        /\ bytesRead = 0 => from = 0
      BY <1>1, <1>3, <2>1, SamePrinted DEF ReadInv
    <3>1. /\ from <= to
          /\ gen = 0 => from = offset /\ to < len
          /\ failures = 0 /\ Seen => from = offset
          /\ bytesRead = 0 => from = 0
      BY DEF IInv, ReadInv
    <3>2. to \in Nat
      BY <1>2, ConsoleTailAssumption DEF TypeOK
    <3> QED
      BY <2>1, <3>1, <3>2
  <2> QED
    BY <1>4, <1>5, <2>2, <2>3 DEF IInv
<1> QED
  BY <1>6, <1>7 DEF Outside

\* The streamer starts with the invariant.
LEMMA TailInvInit == Init => IInv
<1> SUFFICES ASSUME Init PROVE IInv
  OBVIOUS
<1>1. TypeOK
  <2>1. printed \in Seq((0 .. MaxTruncations) \X (1 .. MaxLen))
    BY DEF Init
  <2>2. /\ 0 \in 0 .. MaxLen /\ 0 \in 0 .. MaxTruncations /\ 0 \in 0 .. MaxWriteFailures
        /\ 0 \in Nat
    BY ConsoleTailAssumption
  <2> QED
    BY <2>1, <2>2 DEF Init, TypeOK, Requests
<1>2. PhaseInv /\ ReadInv /\ EndInv /\ CountInv
  BY DEF Init, PhaseInv, ReadInv, EndInv, CountInv
<1>3. DOMAIN printed = {}
  BY DEF Init
<1>4. AppendInv /\ OrderInv
  BY <1>3 DEF Init, AppendInv, OrderInv, NothingSkipped, StreamedInOrder, Seen
<1> QED
  BY <1>1, <1>2, <1>4 DEF IInv

\* Every step keeps the invariant.
LEMMA TailInvStep == IInv /\ [Next]_vars => IInv'
<1> SUFFICES ASSUME IInv, [Next]_vars PROVE IInv'
  OBVIOUS
<1>1. CASE Outside
  BY <1>1, OutsideStep
<1>2. CASE Streamer \/ Stop
  BY <1>2, PollStep, RunStep DEF Streamer
<1>3. CASE UNCHANGED vars
  <2>1. TypeOK'
    BY <1>3 DEF vars, IInv, TypeOK
  <2>2. UNCHANGED <<pc, gen, len, guest, final, offset, from, to, printed, bytesRead, warned,
                    failures, lastPoll, settled>>
    BY <1>3 DEF vars
  <2>3. PhaseInv' /\ EndInv' /\ CountInv'
    BY <2>2 DEF IInv, PhaseInv, EndInv, CountInv
  <2>4. ReadInv' /\ AppendInv' /\ OrderInv'
    BY <2>2, SamePrinted DEF IInv, ReadInv, AppendInv, OrderInv
  <2> QED
    BY <2>1, <2>3, <2>4 DEF IInv
<1> QED
  BY <1>1, <1>2, <1>3 DEF Next

-----------------------------------------------------------------------------
(* What the streamer promises.                                             *)

\* The invariant holds of every behaviour of the streamer and its log,
\* whatever the server answers and whenever the log grows or is replaced.
THEOREM TailInvariant == Spec => []IInv
BY TailInvInit, TailInvStep, PTL DEF Spec

\* Every variable keeps its type: in particular the offset and the range that
\* Tail and readRange compute from three different lengths stay within the log.
THEOREM TypeCorrect == Spec => []TypeOK
<1>1. IInv => TypeOK
  BY DEF IInv
<1> QED
  BY <1>1, TailInvariant, PTL

\* As long as the output takes what it is given, the console is printed in
\* order and no byte of it twice (Tail, readRange and poll).
THEOREM PrintedInOrder == Spec => []StreamedInOrder
<1>1. IInv => StreamedInOrder
  BY DEF IInv, OrderInv, StreamedInOrder
<1> QED
  BY <1>1, TailInvariant, PTL

\* Of a log that is only appended to, every byte below the offset was handed
\* to the writer, failed writes or not (poll moves the offset last).
THEOREM OffsetSkipsNothing == Spec => []NothingSkipped
<1>1. IInv => NothingSkipped
  BY DEF IInv, AppendInv, NothingSkipped
<1> QED
  BY <1>1, TailInvariant, PTL

\* finish's poll, when it comes through and the guest is off, prints the log
\* to its end: stopping the streamer loses none of the installer's last words.
THEOREM StoppedStreamComplete == Spec => []StoppedStreamIsComplete
<1>1. IInv => StoppedStreamIsComplete
  BY DEF IInv, EndInv, AppendInv, NothingSkipped, StoppedStreamIsComplete
<1> QED
  BY <1>1, TailInvariant, PTL

\* The warning about a console with no bytes is printed of an empty log only,
\* if the last poll came through (finish reads bytesRead after its poll).
THEOREM WarningIsTrue == Spec => []ZeroWarningIsTrue
<1>1. IInv => ZeroWarningIsTrue
  BY DEF IInv, EndInv, PhaseInv, ZeroWarningIsTrue
<1> QED
  BY <1>1, TailInvariant, PTL

=============================================================================
