-------------------------------- MODULE Rio --------------------------------
(***************************************************************************)
(* The buffered I/O package in lab10/csapp.c at work: one process sends a  *)
(* stream of bytes with rio_writen, another reads it with rio_readnb and   *)
(* rio_readlineb, in any order, from one rio_t.  The kernel may accept and *)
(* return fewer bytes than asked for and interrupt any call.               *)
(*                                                                         *)
(* A byte is its position in the stream, so that a lost, repeated or       *)
(* misplaced byte shows; NL says which positions hold a newline.           *)
(***************************************************************************)
EXTENDS Integers, Sequences

CONSTANTS
  Total,          \* length of the stream
  NL,             \* the positions of newlines
  BUFSIZE,        \* RIO_BUFSIZE
  PipeSize,       \* bytes the kernel holds
  WriteSizes,     \* the n of rio_writen
  Calls,          \* the reader's calls: [op, n]
  MaxInterrupts,  \* bound on EINTR in the runs
  MayFail         \* whether calls may fail and the reader may go

ASSUME RioAssumption ==
  /\ Total \in Nat /\ NL \subseteq 1..Total
  /\ BUFSIZE \in Nat \ {0} /\ PipeSize \in Nat \ {0} /\ MaxInterrupts \in Nat
  /\ WriteSizes \subseteq Nat \ {0}
  /\ Calls \subseteq [op : {"nb", "line"}, n : Nat \ {0}]
  /\ MayFail \in BOOLEAN

VARIABLES
  writer,      \* "idle", "writing", "failed" or "closed"
  bufp, nleft, \* rio_writen: the last byte written, the number to go
  done,        \* bytes whose writing was reported to the caller
  pipe,        \* what the kernel holds
  rio_buf, rio_cnt, rio_bufptr,  \* the rio_t
  call,        \* the reader's call, op "idle" between calls, "eof" after the last
  usrbuf,      \* what the call has copied
  got,         \* the bytes all returned calls handed out
  last,        \* the last returned call: [op, n, bytes, end]
  failed,      \* a read failed: what that call had copied is lost
  gone,        \* the reader closed its end
  interrupts

writerVars == <<writer, bufp, nleft, done>>
rioVars    == <<rio_buf, rio_cnt, rio_bufptr>>
callVars   == <<call, usrbuf, got, last, failed, gone>>
vars == <<writerVars, pipe, rioVars, callVars, interrupts>>

Bytes == 0..Total
Least(a, b) == IF a < b THEN a ELSE b
NoCall == [op |-> "idle", n |-> 0]

TypeOK ==
  /\ writer \in {"idle", "writing", "failed", "closed"}
  /\ bufp \in Bytes /\ nleft \in 0..Total /\ done \in Bytes
  /\ pipe \in Seq(Bytes)
  /\ rio_buf \in [0..BUFSIZE - 1 -> Bytes]
  /\ rio_cnt \in -1..BUFSIZE /\ rio_bufptr \in 0..BUFSIZE
  /\ call \in [op : {"idle", "nb", "line", "eof"}, n : Nat]
  /\ usrbuf \in Seq(Bytes) /\ got \in Seq(Bytes)
  /\ last \in [op : {"idle", "nb", "line"}, n : Nat, bytes : Seq(Bytes), end : BOOLEAN]
  /\ failed \in BOOLEAN /\ gone \in BOOLEAN
  /\ interrupts \in 0..MaxInterrupts

Init ==
  /\ writer = "idle" /\ bufp = 0 /\ nleft = 0 /\ done = 0
  /\ pipe = <<>>
  /\ rio_buf = [i \in 0..BUFSIZE - 1 |-> 0] /\ rio_cnt = 0 /\ rio_bufptr = 0
  /\ call = NoCall /\ usrbuf = <<>> /\ got = <<>>
  /\ last = [op |-> "idle", n |-> 0, bytes |-> <<>>, end |-> FALSE]
  /\ failed = FALSE /\ gone = FALSE
  /\ interrupts = 0

Interrupt == interrupts < MaxInterrupts /\ interrupts' = interrupts + 1

-----------------------------------------------------------------------------
(* rio_writen *)

CallWriten(n) ==
  /\ writer = "idle" /\ done + n <= Total
  /\ writer' = "writing" /\ bufp' = done /\ nleft' = n
  /\ UNCHANGED <<done, pipe, rioVars, callVars, interrupts>>

\* Mutant of Write: bufp moves by what was asked, not by what was written.
WriteSkips(k) ==
  /\ writer = "writing" /\ ~gone
  /\ k <= Least(nleft, PipeSize - Len(pipe))
  /\ pipe' = pipe \o [i \in 1..k |-> bufp + i]
  /\ nleft' = nleft - k /\ bufp' = bufp + nleft
  /\ UNCHANGED <<writer, done, rioVars, callVars, interrupts>>

\* The kernel takes k bytes.
Write(k) ==
  /\ writer = "writing" /\ ~gone
  /\ k <= Least(nleft, PipeSize - Len(pipe))
  /\ pipe' = pipe \o [i \in 1..k |-> bufp + i]
  /\ nleft' = nleft - k /\ bufp' = bufp + k
  /\ UNCHANGED <<writer, done, rioVars, callVars, interrupts>>

WriteInterrupted ==
  /\ writer = "writing" /\ nleft > 0 /\ Interrupt
  /\ UNCHANGED <<writerVars, pipe, rioVars, callVars>>

\* No reader: -1 whatever was written before.
WriteFails ==
  /\ writer = "writing" /\ nleft > 0 /\ gone
  /\ writer' = "failed"
  /\ UNCHANGED <<bufp, nleft, done, pipe, rioVars, callVars, interrupts>>

WritenReturns ==
  /\ writer = "writing" /\ nleft = 0
  /\ writer' = "idle" /\ done' = bufp
  /\ UNCHANGED <<bufp, nleft, pipe, rioVars, callVars, interrupts>>

WriterCloses ==
  /\ writer \in {"idle", "failed"} /\ (writer = "idle" => done = Total \/ MayFail)
  /\ writer' = "closed"
  /\ UNCHANGED <<bufp, nleft, done, pipe, rioVars, callVars, interrupts>>

-----------------------------------------------------------------------------
(* rio_readnb and rio_readlineb with the rio_read they call *)

CallRead(c) ==
  /\ call = NoCall /\ ~gone
  /\ call' = c /\ usrbuf' = <<>>
  /\ UNCHANGED <<writerVars, pipe, rioVars, got, last, failed, gone, interrupts>>

\* The bytes the call still wants: rio_readlineb keeps room for the final 0.
Wanted ==
  CASE call.op = "nb"   -> call.n - Len(usrbuf)
    [] call.op = "line" -> IF usrbuf # <<>> /\ usrbuf[Len(usrbuf)] \in NL
                             THEN 0 ELSE call.n - 1 - Len(usrbuf)
    [] OTHER            -> 0

\* The call returns what it copied; end says that it met the end of the stream.
Return(end) ==
  /\ got' = got \o usrbuf
  /\ last' = [op |-> call.op, n |-> call.n, bytes |-> usrbuf, end |-> end]
  /\ call' = IF end /\ usrbuf = <<>> THEN [NoCall EXCEPT !.op = "eof"] ELSE NoCall
  /\ usrbuf' = <<>>

\* rio_read: refill the empty buffer with k bytes.
Refill(k) ==
  /\ Wanted > 0 /\ rio_cnt <= 0
  /\ k <= Least(BUFSIZE, Len(pipe))
  /\ rio_buf' = [i \in 0..BUFSIZE - 1 |-> IF i < k THEN pipe[i + 1] ELSE rio_buf[i]]
  /\ rio_cnt' = k /\ rio_bufptr' = 0
  /\ pipe' = SubSeq(pipe, k + 1, Len(pipe))
  /\ UNCHANGED <<writerVars, callVars, interrupts>>

\* Mutant of RefillInterrupted: the interrupted call returns what it has.
RefillGivesUp ==
  /\ Wanted > 0 /\ rio_cnt <= 0 /\ Interrupt
  /\ rio_cnt' = -1
  /\ Return(FALSE)
  /\ UNCHANGED <<writerVars, pipe, rio_buf, rio_bufptr, failed, gone>>

\* read is interrupted: rio_cnt is -1 and the loop goes on.
RefillInterrupted ==
  /\ Wanted > 0 /\ rio_cnt <= 0 /\ Interrupt
  /\ rio_cnt' = -1
  /\ UNCHANGED <<writerVars, pipe, rio_buf, rio_bufptr, callVars>>

\* read finds the end of the stream: the call returns early.
RefillEof ==
  /\ Wanted > 0 /\ rio_cnt <= 0 /\ pipe = <<>> /\ writer = "closed"
  /\ rio_cnt' = 0
  /\ Return(TRUE)
  /\ UNCHANGED <<writerVars, pipe, rio_buf, rio_bufptr, failed, gone, interrupts>>

\* Any other error: -1, and what the call had copied is not reported.
RefillFails ==
  /\ MayFail /\ Wanted > 0 /\ rio_cnt <= 0
  /\ rio_cnt' = -1
  /\ call' = NoCall /\ usrbuf' = <<>> /\ failed' = TRUE
  /\ UNCHANGED <<writerVars, pipe, rio_buf, rio_bufptr, got, last, gone, interrupts>>

\* Mutant of Copy: rio_bufptr stays.
CopyKeepsPtr ==
  /\ Wanted > 0 /\ rio_cnt > 0
  /\ LET k == IF call.op = "line" THEN 1 ELSE Least(Wanted, rio_cnt) IN
     /\ usrbuf' = usrbuf \o [i \in 1..k |-> rio_buf[rio_bufptr + i - 1]]
     /\ rio_cnt' = rio_cnt - k
  /\ UNCHANGED <<writerVars, pipe, rio_buf, rio_bufptr, call, got, last, failed, gone, interrupts>>

\* Mutant of Copy: rio_readlineb takes the rest of the buffer.
CopyPastLine ==
  /\ Wanted > 0 /\ rio_cnt > 0
  /\ LET k == Least(Wanted, rio_cnt) IN
     /\ usrbuf' = usrbuf \o [i \in 1..k |-> rio_buf[rio_bufptr + i - 1]]
     /\ rio_bufptr' = rio_bufptr + k
     /\ rio_cnt' = rio_cnt - k
  /\ UNCHANGED <<writerVars, pipe, rio_buf, call, got, last, failed, gone, interrupts>>

\* rio_read: copy min(n, rio_cnt) bytes.  rio_readlineb asks for one at a time.
Copy ==
  /\ Wanted > 0 /\ rio_cnt > 0
  /\ LET k == IF call.op = "line" THEN 1 ELSE Least(Wanted, rio_cnt) IN
     /\ usrbuf' = usrbuf \o [i \in 1..k |-> rio_buf[rio_bufptr + i - 1]]
     /\ rio_bufptr' = rio_bufptr + k
     /\ rio_cnt' = rio_cnt - k
  /\ UNCHANGED <<writerVars, pipe, rio_buf, call, got, last, failed, gone, interrupts>>

ReadReturns ==
  /\ call.op \in {"nb", "line"} /\ Wanted <= 0
  /\ Return(FALSE)
  /\ UNCHANGED <<writerVars, pipe, rioVars, failed, gone, interrupts>>

ReaderLeaves ==
  /\ MayFail /\ call = NoCall /\ ~gone
  /\ gone' = TRUE
  /\ UNCHANGED <<writerVars, pipe, rioVars, call, usrbuf, got, last, failed, interrupts>>

\* Both sides have ended.
Quiet ==
  /\ writer = "closed" /\ (call.op = "eof" \/ gone)
  /\ UNCHANGED vars

WriterNext ==
  \/ \E n \in WriteSizes : CallWriten(n)
  \/ \E k \in 1..Total : Write(k)
  \/ WriteFails \/ WritenReturns \/ WriterCloses

ReaderNext ==
  \/ \E c \in Calls : CallRead(c)
  \/ \E k \in 1..BUFSIZE : Refill(k)
  \/ RefillEof \/ Copy \/ ReadReturns

Next ==
  \/ WriterNext \/ ReaderNext
  \/ WriteInterrupted \/ RefillInterrupted \/ RefillFails \/ ReaderLeaves \/ Quiet

Spec == Init /\ [][Next]_vars

\* Both processes run, the kernel interrupts only finitely often, and the reader
\* does not keep asking for a line with room for the final 0 only.
Useful(c) == c.op = "nb" \/ c.n > 1

FairSpec ==
  /\ Spec /\ WF_vars(WriterNext) /\ WF_vars(ReaderNext)
  /\ SF_vars(\E c \in Calls : Useful(c) /\ CallRead(c))

-----------------------------------------------------------------------------
(* Properties *)

Unread == IF rio_cnt > 0 THEN rio_cnt ELSE 0

\* Whatever the short counts and interrupts, the bytes handed out, copied,
\* buffered and in the kernel are the stream in order, none lost, none twice
\* (lines 561-571, 589-609), until a read fails.
StreamIntact ==
  ~failed =>
    /\ Len(got) + Len(usrbuf) + Unread + Len(pipe) = bufp
    /\ \A i \in 1..Len(got)    : got[i] = i
    /\ \A i \in 1..Len(usrbuf) : usrbuf[i] = Len(got) + i
    /\ \A i \in 1..Unread      : rio_buf[rio_bufptr + i - 1] = Len(got) + Len(usrbuf) + i
    /\ \A i \in 1..Len(pipe)   : pipe[i] = bufp - Len(pipe) + i

\* What keeps the copies inside the buffers, and the inductive invariant
\* (lines 555-610).
Bounds ==
  /\ bufp + nleft <= Total /\ done <= bufp
  /\ writer = "idle" => done = bufp /\ nleft = 0
  /\ rio_bufptr + Unread <= BUFSIZE
  /\ call.op \in {"idle", "eof"} => usrbuf = <<>>

RioInv == TypeOK /\ Bounds /\ StreamIntact

\* A call hands out less than was asked for only at the end of a line or of the
\* stream, and never more (lines 635-647, 660-674).
CallsComplete ==
  LET k == Len(last.bytes) IN
  /\ last.op = "nb" => k = last.n \/ (last.end /\ k < last.n)
  /\ last.op = "line" =>
       /\ k < last.n
       /\ \A i \in 1..k - 1 : last.bytes[i] \notin NL
       /\ k = last.n - 1 \/ (k > 0 /\ last.bytes[k] \in NL) \/ last.end

\* rio_writen reports success for bytes the kernel has accepted, no others
\* (line 571).
ReportedAccepted == ~failed => done <= Len(got) + Len(usrbuf) + Unread + Len(pipe)

\* All that was written before the close arrives although interrupts leave rio_cnt
\* at -1 and calls return short, unless a read fails or the reader goes (lines
\* 561, 589).
AllDelivered == <>(failed \/ gone \/ (writer = "closed" /\ Len(got) = done))

=============================================================================
