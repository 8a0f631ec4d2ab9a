----------------------------- MODULE RioProofs -----------------------------
(***************************************************************************)
(* Proofs about buffered I/O for every stream, every size of the buffers,  *)
(* every mix of calls and any number of interrupts: RioInv is inductive.   *)
(***************************************************************************)
EXTENDS Rio, SequenceTheorems, TLAPS

\* The numbers of a state, and its sequences, apart: what the steps below use.
LEMMA Numbers ==
  ASSUME RioInv
  PROVE  /\ bufp \in Nat /\ nleft \in Nat /\ done \in Nat /\ Total \in Nat /\ BUFSIZE \in Nat
         /\ PipeSize \in Nat /\ bufp + nleft <= Total /\ done <= bufp /\ Unread \in Nat
         /\ Len(pipe) \in Nat /\ Len(usrbuf) \in Nat /\ Len(got) \in Nat
         /\ rio_cnt \in Int /\ rio_bufptr \in Nat
<1>1. RioInv /\ TypeOK /\ Bounds
  BY DEF RioInv
<1>2. /\ bufp \in 0..Total /\ nleft \in 0..Total /\ done \in 0..Total
      /\ rio_cnt \in -1..BUFSIZE /\ rio_bufptr \in 0..BUFSIZE
  BY <1>1 DEF TypeOK, Bytes
<1>3. Len(pipe) \in Nat /\ Len(usrbuf) \in Nat /\ Len(got) \in Nat
  BY <1>1, LenProperties DEF TypeOK
<1>4. Total \in Nat /\ BUFSIZE \in Nat /\ PipeSize \in Nat
  BY RioAssumption
<1>5. bufp + nleft <= Total /\ done <= bufp
  BY <1>1 DEF Bounds
<1> QED
  BY <1>2, <1>3, <1>4, <1>5 DEF Unread

LEMMA Sequences ==
  ASSUME RioInv
  PROVE  /\ pipe \in Seq(Bytes) /\ usrbuf \in Seq(Bytes) /\ got \in Seq(Bytes)
         /\ rio_buf \in [0..BUFSIZE - 1 -> Bytes]
         /\ \A i \in 1..Len(pipe) : pipe[i] \in Bytes
BY ElementOfSeq DEF RioInv, TypeOK

\* A new write call starts where the last one ended.
LEMMA CallWritenStep ==
  ASSUME RioInv, NEW n \in WriteSizes, CallWriten(n)
  PROVE  RioInv'
<1>1. n \in Nat /\ done + n <= Total /\ bufp = done
  BY RioAssumption DEF CallWriten, RioInv, Bounds
<1>2. TypeOK'
  <2>1. n \in 0..Total
    BY <1>1, Numbers
  <2> QED
    BY <1>1, <2>1 DEF CallWriten, RioInv, TypeOK, rioVars, callVars
<1>3. Bounds'
  BY <1>1, Numbers DEF CallWriten, RioInv, Bounds, Unread, rioVars, callVars
<1>4. StreamIntact'
  BY <1>1 DEF CallWriten, RioInv, StreamIntact, Unread, rioVars, callVars
<1> QED
  BY <1>2, <1>3, <1>4 DEF RioInv

\* The bytes the kernel takes are the next ones of the stream.
LEMMA WriteStep ==
  ASSUME RioInv, NEW k \in 1..Total, Write(k)
  PROVE  RioInv'
<1> DEFINE b == [i \in 1..k |-> bufp + i]
<1>0. /\ bufp \in Nat /\ nleft \in Nat /\ Len(pipe) \in Nat /\ Total \in Nat /\ bufp + nleft <= Total
      /\ done \in Nat /\ done <= bufp /\ PipeSize \in Nat
  BY Numbers
<1>1. k \in Nat /\ k <= nleft
  <2>1. k <= Least(nleft, PipeSize - Len(pipe))
    BY DEF Write
  <2> QED
    BY <1>0, <2>1 DEF Least
<1>2. b \in Seq(Bytes) /\ Len(b) = k
  <2>1. \A i \in 1..k : bufp + i \in Bytes
    BY <1>0, <1>1 DEF Bytes
  <2> QED
    BY <1>1, <2>1
<1>3. /\ pipe' = pipe \o b
      /\ pipe' \in Seq(Bytes) /\ Len(pipe') = Len(pipe) + k
      /\ \A i \in 1..Len(pipe) + k : pipe'[i] = IF i <= Len(pipe) THEN pipe[i] ELSE b[i - Len(pipe)]
  <2>1. pipe' = pipe \o b
    BY DEF Write
  <2>2. pipe \in Seq(Bytes)
    BY Sequences
  <2> HIDE DEF b
  <2> QED
    BY <1>2, <2>1, <2>2, ConcatProperties
<1>4. writer' = "writing" /\ writer = "writing" /\ nleft' = nleft - k /\ bufp' = bufp + k
  BY DEF Write
<1>5. TypeOK'
  <2>1. nleft - k \in 0..Total /\ bufp + k \in Bytes
    BY <1>0, <1>1 DEF Bytes
  <2> HIDE DEF b
  <2> QED
    BY <1>3, <1>4, <2>1 DEF Write, RioInv, TypeOK, rioVars, callVars
<1>6. Bounds'
  <2>1. bufp' + nleft' <= Total /\ done <= bufp'
    BY <1>0, <1>1, <1>4
  <2> QED
    BY <1>4, <2>1 DEF Write, RioInv, Bounds, Unread, rioVars, callVars
<1>7. StreamIntact'
  <2>1. SUFFICES ASSUME ~failed
                 PROVE  /\ Len(got) + Len(usrbuf) + Unread + Len(pipe') = bufp'
                        /\ \A i \in 1..Len(pipe') : pipe'[i] = bufp' - Len(pipe') + i
    BY DEF Write, RioInv, StreamIntact, Unread, rioVars, callVars
  <2>2. /\ Len(got) + Len(usrbuf) + Unread + Len(pipe) = bufp
        /\ \A i \in 1..Len(pipe) : pipe[i] = bufp - Len(pipe) + i
    BY <2>1 DEF RioInv, StreamIntact
  <2>3. \A i \in 1..Len(pipe') : pipe'[i] = bufp' - Len(pipe') + i
    <3>1. SUFFICES ASSUME NEW i \in 1..Len(pipe) + k
                   PROVE  pipe'[i] = bufp - Len(pipe) + i
      BY <1>0, <1>1, <1>3, <1>4
    <3>2. CASE i <= Len(pipe)
      <4>1. i \in 1..Len(pipe)
        BY <1>0, <1>1, <3>2
      <4> QED
        BY <1>3, <2>2, <3>2, <4>1
    <3>3. CASE ~(i <= Len(pipe))
      <4>1. i - Len(pipe) \in 1..k
        BY <1>0, <1>1, <3>3
      <4>2. pipe'[i] = bufp + (i - Len(pipe))
        BY <1>3, <3>3, <4>1
      <4> QED
        BY <1>0, <4>2
    <3> QED
      BY <3>2, <3>3
  <2>4. Len(got) + Len(usrbuf) + Unread + Len(pipe') = bufp'
    <3>1. Len(got) \in Nat /\ Len(usrbuf) \in Nat /\ Unread \in Nat
      BY Numbers
    <3> QED
      BY <1>0, <1>1, <1>3, <1>4, <2>2, <3>1
  <2> QED
    BY <2>3, <2>4
<1> QED
  BY <1>5, <1>6, <1>7 DEF RioInv

\* The other steps of the writer move no byte.
LEMMA WriterStep ==
  ASSUME RioInv, WriteInterrupted \/ WriteFails \/ WritenReturns \/ WriterCloses
  PROVE  RioInv'
<1>1. /\ UNCHANGED <<bufp, nleft, pipe, rioVars, callVars>>
      /\ done' = done \/ (nleft = 0 /\ done' = bufp /\ writer' = "idle")
      /\ writer' = "idle" => writer = "idle" \/ (nleft = 0 /\ done' = bufp)
      /\ writer' \in {writer, "idle", "failed", "closed"}
  BY DEF WriteInterrupted, WriteFails, WritenReturns, WriterCloses, writerVars
<1>2. interrupts' \in 0..MaxInterrupts
  <2>1. interrupts \in 0..MaxInterrupts /\ MaxInterrupts \in Nat
    BY RioAssumption DEF RioInv, TypeOK
  <2>2. interrupts' = interrupts \/ (interrupts < MaxInterrupts /\ interrupts' = interrupts + 1)
    BY DEF WriteInterrupted, WriteFails, WritenReturns, WriterCloses, Interrupt
  <2> QED
    BY <2>1, <2>2
<1>3. TypeOK'
  BY <1>1, <1>2 DEF RioInv, TypeOK, rioVars, callVars
<1>4. Bounds'
  <2>1. done' <= bufp' /\ (writer' = "idle" => done' = bufp' /\ nleft' = 0)
    <3>1. bufp \in Nat /\ done <= bufp /\ (writer = "idle" => done = bufp /\ nleft = 0)
      BY Numbers DEF RioInv, Bounds
    <3> QED
      BY <1>1, <3>1 DEF WriteInterrupted, WriteFails, WritenReturns, WriterCloses, writerVars
  <2> QED
    BY <1>1, <2>1 DEF RioInv, Bounds, Unread, rioVars, callVars
<1>5. StreamIntact'
  BY <1>1 DEF RioInv, StreamIntact, Unread, rioVars, callVars
<1> QED
  BY <1>3, <1>4, <1>5 DEF RioInv

\* Leaving, or starting a read, moves no byte: no call holds one.
LEMMA CallReadStep ==
  ASSUME RioInv, ReaderLeaves \/ \E c \in Calls : CallRead(c)
  PROVE  RioInv'
<1>1. CASE ReaderLeaves
  BY <1>1 DEF ReaderLeaves, RioInv, TypeOK, Bounds, StreamIntact, Unread, writerVars, rioVars
<1>2. ASSUME NEW c \in Calls, CallRead(c)
      PROVE  RioInv'
  <2>1. c \in [op : {"nb", "line"}, n : Nat \ {0}]
    BY RioAssumption
  <2>2. /\ UNCHANGED <<writer, bufp, nleft, done, pipe, rioVars, got, last, failed, gone, interrupts>>
        /\ call' = c /\ usrbuf' = <<>> /\ usrbuf = <<>>
    BY <1>2 DEF CallRead, NoCall, writerVars, RioInv, Bounds
  <2>3. TypeOK'
    BY <2>1, <2>2 DEF RioInv, TypeOK, rioVars
  <2>4. Bounds'
    BY <2>2 DEF RioInv, Bounds, Unread, rioVars
  <2>5. StreamIntact'
    BY <2>2 DEF RioInv, StreamIntact, Unread, rioVars
  <2> QED
    BY <2>3, <2>4, <2>5 DEF RioInv
<1> QED
  BY <1>1, <1>2

\* The bytes read go to the front of rio_buf, where rio_bufptr points again.
LEMMA RefillStep ==
  ASSUME RioInv, NEW k \in 1..BUFSIZE, Refill(k)
  PROVE  RioInv'
<1> DEFINE rest == SubSeq(pipe, k + 1, Len(pipe))
<1>0. /\ bufp \in Nat /\ Len(pipe) \in Nat /\ BUFSIZE \in Nat /\ rio_cnt \in Int
      /\ Len(got) \in Nat /\ Len(usrbuf) \in Nat
  BY Numbers
<1>1. k \in Nat /\ k >= 1 /\ k <= BUFSIZE /\ k <= Len(pipe) /\ Unread = 0
  <2>1. k <= Least(BUFSIZE, Len(pipe)) /\ rio_cnt <= 0
    BY DEF Refill
  <2> QED
    BY <1>0, <2>1 DEF Least, Unread
<1>2. /\ UNCHANGED <<writerVars, callVars, interrupts>>
      /\ rio_cnt' = k /\ rio_bufptr' = 0 /\ pipe' = rest
      /\ rio_buf' = [i \in 0..BUFSIZE - 1 |-> IF i < k THEN pipe[i + 1] ELSE rio_buf[i]]
  BY DEF Refill
<1>3. Unread' = k
  BY <1>1, <1>2 DEF Unread
<1>4. pipe \in Seq(Bytes) /\ \A i \in 1..Len(pipe) : pipe[i] \in Bytes
  BY Sequences
<1>5. /\ rest \in Seq(Bytes) /\ Len(rest) = Len(pipe) - k
      /\ \A i \in 1..Len(pipe) - k : rest[i] = pipe[k + i]
  <2>1. \A i \in k + 1..Len(pipe) : pipe[i] \in Bytes
    BY <1>0, <1>1, <1>4
  <2>2. k + 1 \in Int /\ Len(pipe) \in Int
    BY <1>0, <1>1
  <2>3. /\ rest \in Seq(Bytes)
        /\ Len(rest) = IF k + 1 <= Len(pipe) THEN Len(pipe) - (k + 1) + 1 ELSE 0
        /\ \A i \in 1..Len(pipe) - (k + 1) + 1 : rest[i] = pipe[k + 1 + i - 1]
    BY <2>1, <2>2, SubSeqProperties
  <2> HIDE DEF rest
  <2> QED
    BY <1>0, <1>1, <2>3
<1> HIDE DEF rest
<1>6. rio_buf' \in [0..BUFSIZE - 1 -> Bytes]
  <2>1. \A i \in 0..BUFSIZE - 1 : i < k => pipe[i + 1] \in Bytes
    BY <1>0, <1>1, <1>4
  <2> QED
    BY <1>2, <2>1, Sequences
<1>7. TypeOK'
  <2>1. rio_cnt' \in -1..BUFSIZE /\ rio_bufptr' \in 0..BUFSIZE
    BY <1>0, <1>1, <1>2
  <2> QED
    BY <1>2, <1>5, <1>6, <2>1 DEF RioInv, TypeOK, writerVars, callVars
<1>8. Bounds'
  <2>1. rio_bufptr' + Unread' <= BUFSIZE
    BY <1>0, <1>1, <1>2, <1>3
  <2> QED
    BY <1>2, <2>1 DEF RioInv, Bounds, writerVars, callVars
<1>9. StreamIntact'
  <2>1. SUFFICES ASSUME ~failed
                 PROVE  /\ Len(got) + Len(usrbuf) + k + Len(rest) = bufp
                        /\ \A i \in 1..k : rio_buf'[i - 1] = Len(got) + Len(usrbuf) + i
                        /\ \A i \in 1..Len(rest) : rest[i] = bufp - Len(rest) + i
    <3>1. \A i \in 1..k : rio_bufptr' + i - 1 = i - 1
      BY <1>1, <1>2
    <3> QED
      BY <1>2, <1>3, <3>1 DEF RioInv, StreamIntact, writerVars, callVars
  <2>2. /\ Len(got) + Len(usrbuf) + Len(pipe) = bufp
        /\ \A i \in 1..Len(pipe) : pipe[i] = bufp - Len(pipe) + i
    BY <1>0, <1>1, <2>1 DEF RioInv, StreamIntact
  <2>3. \A i \in 1..k : rio_buf'[i - 1] = Len(got) + Len(usrbuf) + i
    <3>1. SUFFICES ASSUME NEW i \in 1..k
                   PROVE  rio_buf'[i - 1] = Len(got) + Len(usrbuf) + i
      OBVIOUS
    <3>2. i - 1 \in 0..BUFSIZE - 1 /\ i - 1 < k /\ i - 1 + 1 = i /\ i \in 1..Len(pipe)
      BY <1>0, <1>1
    <3>3. rio_buf'[i - 1] = pipe[i]
      BY <1>2, <3>2
    <3>4. pipe[i] = bufp - Len(pipe) + i
      BY <2>2, <3>2
    <3>5. Len(got) + Len(usrbuf) + Len(pipe) = bufp /\ i \in Int
      BY <2>2
    <3>6. bufp - Len(pipe) + i = Len(got) + Len(usrbuf) + i
      BY <1>0, <3>5
    <3> QED
      BY <3>3, <3>4, <3>6
  <2>4. \A i \in 1..Len(rest) : rest[i] = bufp - Len(rest) + i
    <3>1. SUFFICES ASSUME NEW i \in 1..Len(pipe) - k
                   PROVE  rest[i] = bufp - (Len(pipe) - k) + i
      BY <1>5
    <3>2. k + i \in 1..Len(pipe)
      BY <1>0, <1>1
    <3>3. rest[i] = bufp - Len(pipe) + (k + i)
      BY <1>5, <2>2, <3>2
    <3> QED
      BY <1>0, <1>1, <3>3
  <2>5. Len(got) + Len(usrbuf) + k + Len(rest) = bufp
    <3>1. Len(got) + Len(usrbuf) + Len(pipe) = bufp /\ Len(rest) = Len(pipe) - k
      BY <1>5, <2>2
    <3> QED
      BY <1>0, <1>1, <3>1
  <2> QED
    BY <2>3, <2>4, <2>5
<1> QED
  BY <1>7, <1>8, <1>9 DEF RioInv

\* What a copy appends to usrbuf is the front of the unread bytes.
LEMMA CopyStep ==
  ASSUME RioInv, Copy
  PROVE  RioInv'
<1>1. PICK k \in Nat : /\ k <= rio_cnt /\ 1 <= k
                       /\ usrbuf' = usrbuf \o [i \in 1..k |-> rio_buf[rio_bufptr + i - 1]]
                       /\ rio_bufptr' = rio_bufptr + k
                       /\ rio_cnt' = rio_cnt - k
  <2>1. rio_cnt \in Int /\ rio_cnt > 0 /\ Wanted > 0
    BY Numbers DEF Copy
  <2>2. Wanted \in Int
    <3>1. Len(usrbuf) \in Int /\ call.n \in Nat
      BY Numbers DEF RioInv, TypeOK
    <3> QED
      BY <3>1 DEF Wanted
  <2>3. Least(Wanted, rio_cnt) \in Nat /\ Least(Wanted, rio_cnt) <= rio_cnt /\ 1 <= Least(Wanted, rio_cnt)
    BY <2>1, <2>2 DEF Least
  <2> QED
    BY <2>1, <2>3 DEF Copy
<1> DEFINE b == [i \in 1..k |-> rio_buf[rio_bufptr + i - 1]]
<1>2. /\ UNCHANGED <<writerVars, pipe, rio_buf, call, got, last, failed, gone, interrupts>>
      /\ call.op \notin {"idle", "eof"}
  BY DEF Copy, Wanted
<1>3. /\ rio_cnt \in Int /\ rio_bufptr \in Nat /\ Len(usrbuf) \in Nat /\ Len(got) \in Nat
      /\ BUFSIZE \in Nat /\ bufp \in Nat /\ Len(pipe) \in Nat /\ Unread = rio_cnt
      /\ rio_bufptr + rio_cnt <= BUFSIZE /\ rio_cnt <= BUFSIZE
  <2>1. rio_cnt > 0 /\ Unread = rio_cnt
    BY DEF Copy, Unread
  <2>2. rio_bufptr + Unread <= BUFSIZE
    BY DEF RioInv, Bounds
  <2>3. rio_bufptr \in Nat /\ rio_cnt \in Int /\ BUFSIZE \in Nat
    BY Numbers
  <2>4. rio_cnt <= BUFSIZE
    BY <2>1, <2>2, <2>3
  <2> QED
    BY <2>1, <2>2, <2>4, Numbers
<1>4. b \in Seq(Bytes) /\ Len(b) = k
  <2>1. \A i \in 1..k : rio_bufptr + i - 1 \in 0..BUFSIZE - 1
    BY <1>1, <1>3
  <2>2. \A i \in 1..k : rio_buf[rio_bufptr + i - 1] \in Bytes
    BY <2>1, Sequences
  <2> QED
    BY <1>1, <2>2
<1>5. /\ usrbuf' \in Seq(Bytes) /\ Len(usrbuf') = Len(usrbuf) + k
      /\ \A i \in 1..Len(usrbuf) + k :
           usrbuf'[i] = IF i <= Len(usrbuf) THEN usrbuf[i] ELSE b[i - Len(usrbuf)]
  <2>1. usrbuf' = usrbuf \o b /\ usrbuf \in Seq(Bytes)
    BY <1>1, Sequences
  <2> HIDE DEF b
  <2> QED
    BY <1>4, <2>1, ConcatProperties
<1>6. Unread' = rio_cnt - k
  BY <1>1, <1>3 DEF Unread
<1>7. TypeOK'
  <2>1. rio_cnt' \in -1..BUFSIZE /\ rio_bufptr' \in 0..BUFSIZE
    BY <1>1, <1>3
  <2> QED
    BY <1>2, <1>5, <2>1 DEF RioInv, TypeOK, writerVars
<1>8. Bounds'
  <2>1. rio_bufptr' + Unread' <= BUFSIZE
    BY <1>1, <1>3, <1>6
  <2> QED
    BY <1>2, <2>1 DEF RioInv, Bounds, writerVars
<1>9. StreamIntact'
  <2>1. SUFFICES ASSUME ~failed
                 PROVE  /\ Len(got) + Len(usrbuf') + (rio_cnt - k) + Len(pipe) = bufp
                        /\ \A i \in 1..Len(usrbuf') : usrbuf'[i] = Len(got) + i
                        /\ \A i \in 1..rio_cnt - k :
                             rio_buf[rio_bufptr' + i - 1] = Len(got) + Len(usrbuf') + i
    BY <1>2, <1>6 DEF RioInv, StreamIntact, writerVars
  <2>2. /\ Len(got) + Len(usrbuf) + rio_cnt + Len(pipe) = bufp
        /\ \A i \in 1..Len(usrbuf) : usrbuf[i] = Len(got) + i
        /\ \A i \in 1..rio_cnt : rio_buf[rio_bufptr + i - 1] = Len(got) + Len(usrbuf) + i
    BY <1>3, <2>1 DEF RioInv, StreamIntact
  <2>3. Len(got) + Len(usrbuf') + (rio_cnt - k) + Len(pipe) = bufp
    <3>1. Len(got) + Len(usrbuf) + rio_cnt + Len(pipe) = bufp /\ Len(usrbuf') = Len(usrbuf) + k
      BY <1>5, <2>2
    <3> QED
      BY <1>1, <1>3, <3>1
  <2>4. \A i \in 1..Len(usrbuf') : usrbuf'[i] = Len(got) + i
    <3>1. SUFFICES ASSUME NEW i \in 1..Len(usrbuf) + k
                   PROVE  usrbuf'[i] = Len(got) + i
      BY <1>5
    <3>2. CASE i <= Len(usrbuf)
      <4>1. i \in 1..Len(usrbuf)
        BY <1>1, <1>3, <3>2
      <4> QED
        BY <1>5, <2>2, <3>2, <4>1
    <3>3. CASE ~(i <= Len(usrbuf))
      <4>1. i - Len(usrbuf) \in 1..k /\ i - Len(usrbuf) \in 1..rio_cnt
        BY <1>1, <1>3, <3>3
      <4>2. usrbuf'[i] = rio_buf[rio_bufptr + (i - Len(usrbuf)) - 1]
        BY <1>5, <3>3, <4>1
      <4>3. usrbuf'[i] = Len(got) + Len(usrbuf) + (i - Len(usrbuf))
        BY <2>2, <4>1, <4>2
      <4> QED
        BY <1>3, <4>3
    <3> QED
      BY <3>2, <3>3
  <2>5. \A i \in 1..rio_cnt - k : rio_buf[rio_bufptr' + i - 1] = Len(got) + Len(usrbuf') + i
    <3>1. SUFFICES ASSUME NEW i \in 1..rio_cnt - k
                   PROVE  rio_buf[rio_bufptr' + i - 1] = Len(got) + Len(usrbuf') + i
      OBVIOUS
    <3>2. k + i \in 1..rio_cnt /\ rio_bufptr' + i - 1 = rio_bufptr + (k + i) - 1
      BY <1>1, <1>3
    <3>3. rio_buf[rio_bufptr' + i - 1] = Len(got) + Len(usrbuf) + (k + i)
      BY <2>2, <3>2
    <3>4. Len(usrbuf') = Len(usrbuf) + k
      BY <1>5
    <3> QED
      BY <1>1, <1>3, <3>3, <3>4
  <2> QED
    BY <2>3, <2>4, <2>5
<1> QED
  BY <1>7, <1>8, <1>9 DEF RioInv

\* A returning call hands its bytes over in order.
LEMMA ReturnStep ==
  ASSUME RioInv, ReadReturns \/ RefillEof
  PROVE  RioInv'
<1>1. PICK end \in BOOLEAN : Return(end)
  BY DEF ReadReturns, RefillEof
<1>2. /\ UNCHANGED <<writerVars, pipe, rio_buf, rio_bufptr, failed, gone, interrupts>>
      /\ call.op \in {"nb", "line"}
      /\ rio_cnt' = rio_cnt \/ (rio_cnt <= 0 /\ rio_cnt' = 0)
  <2>1. CASE ReadReturns
    BY <2>1 DEF ReadReturns, rioVars
  <2>2. CASE RefillEof
    <3>1. Wanted > 0 /\ rio_cnt <= 0
      BY <2>2 DEF RefillEof
    <3>2. Wanted > 0 => call.op \in {"nb", "line"}
      BY DEF Wanted
    <3> QED
      BY <2>2, <3>1, <3>2 DEF RefillEof
  <2> QED
    BY <2>1, <2>2
<1>3. Unread' = Unread /\ rio_cnt' \in -1..BUFSIZE
  <2>1. rio_cnt \in -1..BUFSIZE /\ BUFSIZE \in Nat
    BY Numbers DEF RioInv, TypeOK
  <2> QED
    BY <1>2, <2>1 DEF Unread
<1>4. /\ Len(got) \in Nat /\ Len(usrbuf) \in Nat /\ Unread \in Nat /\ Len(pipe) \in Nat
      /\ got \in Seq(Bytes) /\ usrbuf \in Seq(Bytes)
  BY Numbers, Sequences
<1>5. /\ got' \in Seq(Bytes) /\ Len(got') = Len(got) + Len(usrbuf)
      /\ \A i \in 1..Len(got) + Len(usrbuf) :
           got'[i] = IF i <= Len(got) THEN got[i] ELSE usrbuf[i - Len(got)]
      /\ usrbuf' = <<>> /\ usrbuf' \in Seq(Bytes) /\ Len(usrbuf') = 0
  BY <1>1, <1>4, ConcatProperties, EmptySeq DEF Return
<1>6. TypeOK'
  <2>1. call' \in [op : {"idle", "nb", "line", "eof"}, n : Nat]
    BY <1>1 DEF Return, NoCall
  <2>2. last' \in [op : {"idle", "nb", "line"}, n : Nat, bytes : Seq(Bytes), end : BOOLEAN]
    <3>1. call.n \in Nat
      BY DEF RioInv, TypeOK
    <3> QED
      BY <1>1, <1>2, <1>4, <3>1 DEF Return
  <2> QED
    BY <1>2, <1>3, <1>5, <2>1, <2>2 DEF RioInv, TypeOK, writerVars
<1>7. Bounds'
  BY <1>2, <1>3, <1>5 DEF RioInv, Bounds, writerVars
<1>8. StreamIntact'
  <2>1. SUFFICES ASSUME ~failed
                 PROVE  /\ Len(got') + 0 + Unread + Len(pipe) = bufp
                        /\ \A i \in 1..Len(got') : got'[i] = i
                        /\ \A i \in 1..Unread : rio_buf[rio_bufptr + i - 1] = Len(got') + 0 + i
    BY <1>2, <1>3, <1>5 DEF RioInv, StreamIntact, writerVars
  <2>2. /\ Len(got) + Len(usrbuf) + Unread + Len(pipe) = bufp
        /\ \A i \in 1..Len(got) : got[i] = i
        /\ \A i \in 1..Len(usrbuf) : usrbuf[i] = Len(got) + i
        /\ \A i \in 1..Unread : rio_buf[rio_bufptr + i - 1] = Len(got) + Len(usrbuf) + i
    BY <2>1 DEF RioInv, StreamIntact
  <2>3. \A i \in 1..Len(got') : got'[i] = i
    <3>1. SUFFICES ASSUME NEW i \in 1..Len(got) + Len(usrbuf)
                   PROVE  got'[i] = i
      BY <1>5
    <3>2. CASE i <= Len(got)
      <4>1. i \in 1..Len(got)
        BY <1>4, <3>2
      <4> QED
        BY <1>5, <2>2, <3>2, <4>1
    <3>3. CASE ~(i <= Len(got))
      <4>1. i - Len(got) \in 1..Len(usrbuf)
        BY <1>4, <3>3
      <4>2. got'[i] = Len(got) + (i - Len(got))
        BY <1>5, <2>2, <3>3, <4>1
      <4> QED
        BY <1>4, <4>2
    <3> QED
      BY <3>2, <3>3
  <2>4. Len(got') + 0 = Len(got) + Len(usrbuf)
    BY <1>4, <1>5
  <2> QED
    BY <2>2, <2>3, <2>4
<1> QED
  BY <1>6, <1>7, <1>8 DEF RioInv

\* An interrupted or failed read leaves rio_cnt at -1, which holds no byte.
LEMMA FailStep ==
  ASSUME RioInv, RefillInterrupted \/ RefillFails
  PROVE  RioInv'
<1>1. /\ UNCHANGED <<writerVars, pipe, rio_buf, rio_bufptr, got, last, gone>>
      /\ rio_cnt <= 0 /\ rio_cnt' = -1
      /\ \/ UNCHANGED <<call, usrbuf, failed>>
         \/ call' = NoCall /\ usrbuf' = <<>> /\ failed' = TRUE
  BY DEF RefillInterrupted, RefillFails, callVars
<1>2. rio_cnt' \in -1..BUFSIZE /\ Unread' = Unread
  <2>1. BUFSIZE \in Nat /\ rio_cnt \in Int
    BY Numbers
  <2> QED
    BY <1>1, <2>1 DEF Unread
<1>3. interrupts' \in 0..MaxInterrupts
  <2>1. interrupts \in 0..MaxInterrupts /\ MaxInterrupts \in Nat
    BY RioAssumption DEF RioInv, TypeOK
  <2>2. interrupts' = interrupts \/ (interrupts < MaxInterrupts /\ interrupts' = interrupts + 1)
    BY DEF RefillInterrupted, RefillFails, Interrupt
  <2> QED
    BY <2>1, <2>2
<1>4. call' \in [op : {"idle", "nb", "line", "eof"}, n : Nat] /\ usrbuf' \in Seq(Bytes) /\ failed' \in BOOLEAN
  <2>1. NoCall \in [op : {"idle", "nb", "line", "eof"}, n : Nat] /\ <<>> \in Seq(Bytes)
    BY EmptySeq DEF NoCall
  <2> QED
    BY <1>1, <2>1 DEF RioInv, TypeOK
<1>5. TypeOK'
  BY <1>1, <1>2, <1>3, <1>4 DEF RioInv, TypeOK, writerVars
<1>6. Bounds'
  BY <1>1, <1>2 DEF RioInv, Bounds, writerVars
<1>7. StreamIntact'
  BY <1>1, <1>2 DEF RioInv, StreamIntact, writerVars
<1> QED
  BY <1>5, <1>6, <1>7 DEF RioInv

-----------------------------------------------------------------------------

\* The copies stay inside the buffers and the stream is intact in every
\* reachable state.
THEOREM RioInvariance == Spec => []RioInv
<1>1. Init => RioInv
  <2> SUFFICES ASSUME Init
               PROVE  RioInv
    OBVIOUS
  <2>1. Unread = 0 /\ Len(<<>>) = 0
    BY DEF Init, Unread
  <2>2. TypeOK
    <3>1. <<>> \in Seq(Bytes) /\ NoCall \in [op : {"idle", "nb", "line", "eof"}, n : Nat]
      BY EmptySeq DEF NoCall
    <3>2. last \in [op : {"idle", "nb", "line"}, n : Nat, bytes : Seq(Bytes), end : BOOLEAN]
      BY <3>1 DEF Init
    <3>3. 0 \in Bytes /\ 0 \in -1..BUFSIZE /\ 0 \in 0..BUFSIZE /\ 0 \in 0..MaxInterrupts /\ 0 \in 0..Total
      BY RioAssumption DEF Bytes
    <3> QED
      BY <3>1, <3>2, <3>3 DEF Init, TypeOK
  <2>3. Bounds /\ StreamIntact
    BY <2>1, RioAssumption DEF Init, Bounds, StreamIntact
  <2> QED
    BY <2>2, <2>3 DEF RioInv
<1>2. RioInv /\ [Next]_vars => RioInv'
  <2> SUFFICES ASSUME RioInv, [Next]_vars
               PROVE  RioInv'
    OBVIOUS
  <2>1. CASE Quiet \/ UNCHANGED vars
    BY <2>1 DEF Quiet, vars, writerVars, rioVars, callVars, RioInv, TypeOK, Bounds,
                StreamIntact, Unread
  <2>2. CASE WriterNext
    BY <2>2, CallWritenStep, WriteStep, WriterStep DEF WriterNext
  <2>3. CASE ReaderNext
    BY <2>3, CallReadStep, RefillStep, ReturnStep, CopyStep DEF ReaderNext
  <2>4. CASE WriteInterrupted \/ RefillInterrupted \/ RefillFails \/ ReaderLeaves
    BY <2>4, WriterStep, FailStep, CallReadStep
  <2> QED
    BY <2>1, <2>2, <2>3, <2>4 DEF Next
<1> QED
  BY <1>1, <1>2, PTL DEF Spec

\* No byte is lost, doubled or out of order, whatever the short counts, the
\* interrupts and the mix of calls, until a read fails.
THEOREM StreamKept == Spec => []StreamIntact
<1>1. RioInv => StreamIntact
  BY DEF RioInv
<1> QED
  BY <1>1, RioInvariance, PTL

\* rio_writen reports only what the kernel accepted.
THEOREM ReportsKept == Spec => []ReportedAccepted
<1>1. RioInv => ReportedAccepted
  BY DEF RioInv, Bounds, StreamIntact, ReportedAccepted
<1> QED
  BY <1>1, RioInvariance, PTL

\* The bytes and their types stay as the fields declare them.
THEOREM TypesKept == Spec => []TypeOK
<1>1. RioInv => TypeOK
  BY DEF RioInv
<1> QED
  BY <1>1, RioInvariance, PTL

-----------------------------------------------------------------------------
\* A call in progress has copied no more than it may, and a line call no
\* newline but the last byte.
Underway ==
  LET k == Len(usrbuf) IN
  /\ call.op = "nb" => k <= call.n
  /\ call.op = "line" => k < call.n /\ \A i \in 1..k - 1 : usrbuf[i] \notin NL

\* One copy of rio_read keeps a call within its request.
LEMMA CopyUnderway ==
  ASSUME RioInv, Underway, Copy
  PROVE  Underway'
<1> DEFINE k == IF call.op = "line" THEN 1 ELSE Least(Wanted, rio_cnt)
           b == [i \in 1..k |-> rio_buf[rio_bufptr + i - 1]]
<1>1. /\ Wanted > 0 /\ rio_cnt > 0 /\ call' = call
      /\ usrbuf' = usrbuf \o b
  BY DEF Copy
<1>2. /\ rio_cnt \in Int /\ Len(usrbuf) \in Nat /\ usrbuf \in Seq(Bytes)
      /\ call.n \in Nat /\ rio_bufptr + rio_cnt <= BUFSIZE /\ rio_bufptr \in Nat /\ BUFSIZE \in Nat
  BY <1>1, Numbers, Sequences DEF RioInv, TypeOK, Bounds, Unread
<1>3. CASE call.op = "nb"
  <2>1. Wanted = call.n - Len(usrbuf)
    BY <1>3 DEF Wanted
  <2>2. k \in Nat /\ k <= Wanted /\ k <= rio_cnt
    BY <1>1, <1>2, <1>3, <2>1 DEF Least
  <2> HIDE DEF k
  <2>3. b \in Seq(Bytes) /\ Len(b) = k
    <3>1. \A i \in 1..k : rio_bufptr + i - 1 \in 0..BUFSIZE - 1
      BY <1>2, <2>2
    <3>2. \A i \in 1..k : rio_buf[rio_bufptr + i - 1] \in Bytes
      BY <3>1, Sequences
    <3> QED
      BY <2>2, <3>2
  <2> HIDE DEF b
  <2>4. Len(usrbuf') = Len(usrbuf) + k
    BY <1>1, <1>2, <2>3, ConcatProperties
  <2> QED
    BY <1>1, <1>2, <1>3, <2>1, <2>2, <2>4 DEF Underway
<1>4. CASE call.op = "line"
  <2>1. k = 1
    BY <1>4
  <2>2. b \in Seq(Bytes) /\ Len(b) = 1
    <3>1. rio_bufptr + 1 - 1 \in 0..BUFSIZE - 1
      BY <1>1, <1>2
    <3>2. \A i \in 1..1 : rio_buf[rio_bufptr + i - 1] \in Bytes
      BY <3>1, Sequences
    <3> QED
      BY <2>1, <3>2
  <2>3. ~(usrbuf # <<>> /\ usrbuf[Len(usrbuf)] \in NL) /\ call.n - 1 - Len(usrbuf) > 0
    BY <1>1, <1>4 DEF Wanted
  <2> HIDE DEF b, k
  <2>4. /\ Len(usrbuf') = Len(usrbuf) + 1
        /\ \A i \in 1..Len(usrbuf) : usrbuf'[i] = usrbuf[i]
    <3>1. /\ Len(usrbuf') = Len(usrbuf) + 1
          /\ \A i \in 1..Len(usrbuf) + 1 :
               usrbuf'[i] = IF i <= Len(usrbuf) THEN usrbuf[i] ELSE b[i - Len(usrbuf)]
      BY <1>1, <1>2, <2>2, ConcatProperties
    <3>2. \A i \in 1..Len(usrbuf) : i \in 1..Len(usrbuf) + 1 /\ i <= Len(usrbuf)
      BY <1>2
    <3> QED
      BY <3>1, <3>2
  <2>5. ASSUME NEW i \in 1..Len(usrbuf)
        PROVE  usrbuf[i] \notin NL
    <3>1. usrbuf # <<>>
      BY <1>2, EmptySeq
    <3>2. CASE i = Len(usrbuf)
      BY <2>3, <3>1, <3>2
    <3>3. CASE i # Len(usrbuf)
      <4>1. i \in 1..Len(usrbuf) - 1
        BY <1>2, <3>3
      <4> QED
        BY <1>4, <4>1 DEF Underway
    <3> QED
      BY <3>2, <3>3
  <2>6. Len(usrbuf) + 1 < call.n /\ Len(usrbuf) + 1 - 1 = Len(usrbuf)
    BY <1>2, <2>3
  <2> QED
    BY <1>1, <1>4, <2>4, <2>5, <2>6 DEF Underway
<1>5. CASE call.op \notin {"nb", "line"}
  BY <1>1, <1>5 DEF Underway
<1> QED
  BY <1>3, <1>4, <1>5

\* A call returns when it wants nothing more, or at the end of the stream.
LEMMA ReturnComplete ==
  ASSUME RioInv, Underway, ReadReturns \/ RefillEof
  PROVE  CallsComplete' /\ Underway'
<1>0. Wanted \in Int
  <2>1. Len(usrbuf) \in Int /\ call.n \in Nat
    BY Numbers DEF RioInv, TypeOK
  <2> QED
    BY <2>1 DEF Wanted
<1>1. PICK end \in BOOLEAN : Return(end) /\ (end <=> Wanted > 0)
  <2>1. CASE ReadReturns
    <3>1. Return(FALSE) /\ Wanted <= 0
      BY <2>1 DEF ReadReturns
    <3>2. ~(Wanted > 0)
      <4> HIDE DEF Wanted
      <4> QED
        BY <1>0, <3>1
    <3> QED
      BY <3>1, <3>2, Zenon
  <2>2. CASE RefillEof
    BY <2>2 DEF RefillEof
  <2> QED
    BY <2>1, <2>2
<1>2. Len(usrbuf) \in Nat /\ call.n \in Nat /\ usrbuf \in Seq(Bytes)
  BY Numbers, Sequences DEF RioInv, TypeOK
<1>3. last' = [op |-> call.op, n |-> call.n, bytes |-> usrbuf, end |-> end]
      /\ call'.op \in {"idle", "eof"}
  BY <1>1 DEF Return, NoCall
<1>4. ASSUME call.op = "nb"
      PROVE  Len(usrbuf) = call.n \/ (end /\ Len(usrbuf) < call.n)
  BY <1>1, <1>2, <1>4 DEF Wanted, Underway
<1>5. ASSUME call.op = "line"
      PROVE  Len(usrbuf) = call.n - 1 \/ (Len(usrbuf) > 0 /\ usrbuf[Len(usrbuf)] \in NL) \/ end
  <2>1. CASE usrbuf # <<>> /\ usrbuf[Len(usrbuf)] \in NL
    BY <1>2, <2>1, EmptySeq
  <2>2. CASE ~(usrbuf # <<>> /\ usrbuf[Len(usrbuf)] \in NL)
    BY <1>1, <1>2, <1>5, <2>2 DEF Wanted, Underway
  <2> QED
    BY <2>1, <2>2
<1> QED
  BY <1>3, <1>4, <1>5 DEF CallsComplete, Underway

\* A call hands out less than it was asked for only at the end of a line or of
\* the stream, and never more, whatever the short counts and interrupts.
THEOREM CallsAreComplete == Spec => []CallsComplete
<1> DEFINE Inv == Underway /\ CallsComplete
<1>1. Init => Inv
  BY EmptySeq DEF Init, NoCall, Underway, CallsComplete
<1>2. RioInv /\ Inv /\ [Next]_vars => Inv'
  <2> SUFFICES ASSUME RioInv, Inv, [Next]_vars
               PROVE  Inv'
    OBVIOUS
  <2>1. CASE UNCHANGED <<call, usrbuf, last>>
    BY <2>1 DEF Underway, CallsComplete
  <2>2. ASSUME NEW c \in Calls, CallRead(c)
        PROVE  Inv'
    <3>1. c.n \in Nat \ {0} /\ call' = c /\ usrbuf' = <<>> /\ last' = last /\ Len(<<>>) = 0
      BY <2>2, RioAssumption, EmptySeq DEF CallRead
    <3> QED
      BY <3>1 DEF Underway, CallsComplete
  <2>3. CASE Copy
    BY <2>3, CopyUnderway DEF Copy, CallsComplete
  <2>4. CASE ReadReturns \/ RefillEof
    BY <2>4, ReturnComplete
  <2>5. CASE RefillFails
    BY <2>5 DEF RefillFails, NoCall, Underway, CallsComplete
  <2>6. WriterNext \/ WriteInterrupted \/ RefillInterrupted \/ ReaderLeaves \/ Quiet
        \/ (\E k \in 1..BUFSIZE : Refill(k)) \/ UNCHANGED vars
          => UNCHANGED <<call, usrbuf, last>>
    BY DEF WriterNext, CallWriten, Write, WriteFails, WritenReturns, WriterCloses,
           WriteInterrupted, RefillInterrupted, ReaderLeaves, Quiet, Refill, vars, callVars
  <2> QED
    BY <2>1, <2>2, <2>3, <2>4, <2>5, <2>6 DEF Next, ReaderNext
<1>3. Inv => CallsComplete
  OBVIOUS
<1> QED
  BY <1>1, <1>2, <1>3, RioInvariance, PTL DEF Spec

=============================================================================
