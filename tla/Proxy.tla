------------------------------- MODULE Proxy -------------------------------
(***************************************************************************)
(* The web proxy lab10/proxy.c: main accepts connections and starts a      *)
(* detached thread for each; a thread parses the request, connects to the  *)
(* server under a semaphore that guards gethostbyname, copies request and  *)
(* response, and writes a log entry under a second semaphore.              *)
(*                                                                         *)
(* A peer is a script that is fixed when its connection starts: how many   *)
(* lines it sends and whether the blank line follows or the connection     *)
(* ends first.  Lines and body blocks carry no text.  A failed read looks  *)
(* to the proxy like the end of the stream (the Rio_..._w wrappers).       *)
(***************************************************************************)
EXTENDS Integers, FiniteSets, Sequences, FiniteSetsExt

CONSTANTS
  Conns,             \* connections, each served by a thread of its own
  Requests,          \* scripts of the clients:  [kind, headers, cut]
  Responses,         \* scripts of the servers:  [headers, cut, body]
  FdLimit,           \* descriptors the process may have beside listenfd
  BufLines,          \* response header lines that fit in buf
  MaxTime            \* bound of the clock of the runs

\* "noslash" is a GET of http://host with neither port nor path.
RequestKinds == {"get", "noslash", "baduri", "post", "nothing"}

ASSUME ProxyAssumption ==
  /\ Requests \subseteq [kind : RequestKinds, headers : Nat, cut : BOOLEAN]
  /\ Responses \subseteq [headers : Nat, cut : BOOLEAN, body : Nat]
  /\ FdLimit \in Nat /\ BufLines \in Nat /\ MaxTime \in Nat
  /\ "none" \notin Conns

VARIABLES
  fds,               \* per descriptor, the peer it is open for: at most one
  log_mutex, fd_mutex,  \* the semaphores
  hostent,           \* the static result of gethostbyname
  tm,                \* the static result of localtime
  now,               \* the clock
  logFile,           \* entries written
  process,           \* "up", or the call that ended the process
  pc,                \* where each thread is
  req, rsp,          \* each peer's script: header lines left, and the body
  gone,              \* clients that no longer accept data
  buf,               \* the line in buf that the header loop looks at
  hlen,              \* response header lines appended to buf
  connfd, proxyfd,   \* the two descriptors of a thread
  addr,              \* the server address a thread has copied
  got,               \* what the client received: header, body blocks
  size,              \* body blocks counted for the log
  stamp              \* the time a thread read, and date and clock of its entry

netVars    == <<fds, connfd, proxyfd>>
sharedVars == <<log_mutex, fd_mutex, hostent, tm, logFile>>
peerVars   == <<req, rsp, gone, got>>
localVars  == <<buf, hlen, addr, size, stamp>>
vars == <<netVars, sharedVars, peerVars, localVars, now, process, pc>>

Fds == 1..FdLimit
Peers == Conns \X {"client", "server"}
Threads(locs) == {c \in Conns : pc[c] \in locs}

BadFd == -1
NoTime == -1
Times == 0..MaxTime \cup {NoTime}

\* Where a thread is: named for the call it makes next.
Locs == {"none", "readline", "error", "parse", "socket", "p_fd", "gethost", "copy",
         "connect", "request", "headers", "status", "response", "reply", "body",
         "close", "time", "localtime", "date", "clock", "p_log", "print", "v_log", "exit",
         "done"}

\* The wrappers that end the process when their call fails, and a fault.
Ends == {"Accept", "Rio_writen", "Close", "segv"}

Entries == [conn : Conns, size : Nat, date : Times, clock : Times]

TypeOK ==
  /\ fds \in [Fds -> SUBSET Peers]
  /\ log_mutex \in 0..1 /\ fd_mutex \in 0..1
  /\ hostent \in Conns \cup {"none"}
  /\ tm \in Times /\ now \in 0..MaxTime
  /\ logFile \in Seq(Entries)
  /\ process \in {"up"} \cup Ends
  /\ pc \in [Conns -> Locs]
  /\ req \in [Conns -> [kind : RequestKinds, headers : Nat, cut : BOOLEAN]]
  /\ rsp \in [Conns -> [headers : Nat, cut : BOOLEAN, body : Nat]]
  /\ gone \subseteq Conns
  /\ buf \in [Conns -> {"request", "header", "blank"}]
  /\ hlen \in [Conns -> 0..BufLines]
  /\ connfd \in [Conns -> Fds \cup {BadFd}]
  /\ proxyfd \in [Conns -> Fds \cup {BadFd}]
  /\ addr \in [Conns -> Conns \cup {"none"}]
  /\ got \in [Conns -> [header : BOOLEAN, body : Nat]]
  /\ size \in [Conns -> Nat]
  /\ stamp \in [Conns -> [read : Times, date : Times, clock : Times]]

Init ==
  /\ fds = [f \in Fds |-> {}]
  /\ log_mutex = 1 /\ fd_mutex = 1
  /\ hostent = "none" /\ tm = NoTime /\ now = 0
  /\ logFile = <<>>
  /\ process = "up"
  /\ pc = [c \in Conns |-> "none"]
  /\ req = [c \in Conns |-> [kind |-> "nothing", headers |-> 0, cut |-> TRUE]]
  /\ rsp = [c \in Conns |-> [headers |-> 0, cut |-> TRUE, body |-> 0]]
  /\ gone = {}
  /\ buf = [c \in Conns |-> "request"]
  /\ hlen = [c \in Conns |-> 0]
  /\ connfd = [c \in Conns |-> BadFd] /\ proxyfd = [c \in Conns |-> BadFd]
  /\ addr = [c \in Conns |-> "none"]
  /\ got = [c \in Conns |-> [header |-> FALSE, body |-> 0]]
  /\ size = [c \in Conns |-> 0]
  /\ stamp = [c \in Conns |-> [read |-> NoTime, date |-> NoTime, clock |-> NoTime]]

-----------------------------------------------------------------------------
(* Steps of a thread *)

At(c, l) == process = "up" /\ pc[c] = l
Goto(c, l) == pc' = [pc EXCEPT ![c] = l]

FreeFds == {f \in Fds : fds[f] = {}}

IsOpen(f, peer) == f \in Fds /\ fds[f] = {peer}

\* A write fails once the client has gone, or when the descriptor is not open.
CanWrite(c) == IsOpen(connfd[c], <<c, "client">>) /\ c \notin gone

\* Close: close fails on a descriptor that is not open, and unix_error ends
\* the process; l is where the thread goes on.
Close(f, c, l) ==
  IF f \in Fds /\ fds[f] # {}
    THEN fds' = [fds EXCEPT ![f] = {}] /\ Goto(c, l) /\ UNCHANGED process
    ELSE process' = "Close" /\ UNCHANGED <<fds, pc>>

\* main: Malloc, Accept and Pthread_create.
Accept(c, q) ==
  /\ At(c, "none") /\ FreeFds # {}
  /\ LET f == Min(FreeFds) IN
     /\ fds' = [fds EXCEPT ![f] = {<<c, "client">>}]
     /\ connfd' = [connfd EXCEPT ![c] = f]
  /\ req' = [req EXCEPT ![c] = q]
  /\ Goto(c, "readline")
  /\ UNCHANGED <<proxyfd, sharedVars, rsp, gone, got, localVars, now, process>>

\* accept fails for want of descriptors or because the client is gone again:
\* Accept calls unix_error.
AcceptFails ==
  /\ process = "up" /\ Threads({"none"}) # {}
  /\ process' = "Accept"
  /\ UNCHANGED <<netVars, sharedVars, peerVars, localVars, now, pc>>

\* doit reads the request line.  At the end of the stream the line in buf is
\* whatever the stack held, so any method and URI may follow.
ReadRequestLine(c) ==
  /\ At(c, "readline")
  /\ \E k \in IF req[c].kind = "nothing" THEN RequestKinds \ {"nothing"} ELSE {req[c].kind} :
       /\ req' = [req EXCEPT ![c].kind = k]
       /\ Goto(c, IF k = "post" THEN "error" ELSE "parse")
  /\ UNCHANGED <<netVars, sharedVars, rsp, gone, got, localVars, now, process>>

\* clienterror: Rio_writen, whose failure ends the process.
ClientError(c) ==
  /\ At(c, "error")
  /\ IF CanWrite(c)
       THEN Goto(c, "exit") /\ UNCHANGED process
       ELSE process' = "Rio_writen" /\ UNCHANGED pc
  /\ UNCHANGED <<netVars, sharedVars, peerVars, localVars, now>>

\* parse_uri: with no delimiter after the host strpbrk returns a null
\* pointer and the length of the host is garbage.
ParseUri(c) ==
  /\ At(c, "parse")
  /\ CASE req[c].kind = "baduri"  -> Goto(c, "exit") /\ UNCHANGED process
       [] req[c].kind = "noslash" -> process' = "segv" /\ UNCHANGED pc
       [] OTHER                   -> Goto(c, "socket") /\ UNCHANGED process
  /\ UNCHANGED <<netVars, sharedVars, peerVars, localVars, now>>

Socket(c) ==
  /\ At(c, "socket") /\ FreeFds # {}
  /\ LET f == Min(FreeFds) IN
     /\ fds' = [fds EXCEPT ![f] = {<<c, "server">>}]
     /\ proxyfd' = [proxyfd EXCEPT ![c] = f]
  /\ Goto(c, "p_fd")
  /\ UNCHANGED <<connfd, sharedVars, peerVars, localVars, now, process>>

\* socket fails, for want of a descriptor or of memory: open_clientfd_ts returns
\* -1, which doit does not look at.
SocketFails(c) ==
  /\ At(c, "socket")
  /\ proxyfd' = [proxyfd EXCEPT ![c] = BadFd]
  /\ Goto(c, "request")
  /\ UNCHANGED <<fds, connfd, sharedVars, peerVars, localVars, now, process>>

\* Mutant of PFdMutex: gethostbyname without the semaphore.
SkipFdMutex(c) ==
  /\ At(c, "p_fd")
  /\ Goto(c, "gethost")
  /\ UNCHANGED <<netVars, sharedVars, peerVars, localVars, now, process>>

PFdMutex(c) ==
  /\ At(c, "p_fd") /\ fd_mutex > 0
  /\ fd_mutex' = fd_mutex - 1
  /\ Goto(c, "gethost")
  /\ UNCHANGED <<netVars, log_mutex, hostent, tm, logFile, peerVars, localVars, now, process>>

\* The library writes its static buffer for every caller.
Gethostbyname(c) ==
  /\ At(c, "gethost")
  /\ hostent' = c
  /\ Goto(c, "copy")
  /\ UNCHANGED <<netVars, log_mutex, fd_mutex, tm, logFile, peerVars, localVars, now, process>>

\* Mutant of GethostbynameFails: the early return forgets V(&fd_mutex) and
\* is not fatal.
GethostbynameForgetsV(c) ==
  /\ At(c, "gethost")
  /\ fds' = [fds EXCEPT ![proxyfd[c]] = {}]
  /\ proxyfd' = [proxyfd EXCEPT ![c] = BadFd]
  /\ Goto(c, "exit")
  /\ UNCHANGED <<connfd, sharedVars, peerVars, localVars, now, process>>

\* Unknown host: V, and -2 is returned; the socket stays open.
GethostbynameFails(c) ==
  /\ At(c, "gethost")
  /\ fd_mutex' = fd_mutex + 1
  /\ proxyfd' = [proxyfd EXCEPT ![c] = BadFd]
  /\ Goto(c, "request")
  /\ UNCHANGED <<fds, connfd, log_mutex, hostent, tm, logFile, peerVars, localVars, now, process>>

\* bcopy of the address and V.
CopyAddress(c) ==
  /\ At(c, "copy")
  /\ addr' = [addr EXCEPT ![c] = hostent]
  /\ fd_mutex' = fd_mutex + 1
  /\ Goto(c, "connect")
  /\ UNCHANGED <<netVars, log_mutex, hostent, tm, logFile, peerVars, buf, hlen, size,
                 stamp, now, process>>

Connect(c, r) ==
  /\ At(c, "connect")
  /\ rsp' = [rsp EXCEPT ![c] = r]
  /\ Goto(c, "request")
  /\ UNCHANGED <<netVars, sharedVars, req, gone, got, localVars, now, process>>

\* connect fails: -1 is returned, the socket stays open.
ConnectFails(c) ==
  /\ At(c, "connect")
  /\ proxyfd' = [proxyfd EXCEPT ![c] = BadFd]
  /\ Goto(c, "request")
  /\ UNCHANGED <<fds, connfd, sharedVars, peerVars, localVars, now, process>>

\* What goes to the server: the write may fail at any time, since the server may
\* have gone, and fails when proxyfd is not open.  Then proxyfd is closed, and
\* closing what open_clientfd_ts returned for an error ends the process.
ToServer(c, l) ==
  \/ IsOpen(proxyfd[c], <<c, "server">>) /\ Goto(c, l) /\ UNCHANGED <<fds, process>>
  \/ Close(proxyfd[c], c, "exit")

SendRequest(c) ==
  /\ At(c, "request")
  /\ ToServer(c, "headers")
  /\ buf' = [buf EXCEPT ![c] = "request"]
  /\ UNCHANGED <<connfd, proxyfd, sharedVars, peerVars, hlen, addr, size, stamp, now>>

\* One line of the loop that forwards the request headers.  At the end of the
\* stream Rio_readlineb_w leaves buf as it is, and the old line is sent again.
ForwardHeader(c) ==
  /\ At(c, "headers") /\ buf[c] # "blank"
  /\ LET q == req[c] IN
     /\ buf' = [buf EXCEPT ![c] = CASE q.headers > 0 -> "header"
                                    [] q.headers = 0 /\ ~q.cut -> "blank"
                                    [] OTHER -> @]
     /\ req' = IF q.headers > 0 THEN [req EXCEPT ![c].headers = @ - 1] ELSE req
  /\ ToServer(c, "headers")
  /\ UNCHANGED <<connfd, proxyfd, sharedVars, rsp, gone, got, hlen, addr, size, stamp, now>>

HeadersSent(c) ==
  /\ At(c, "headers") /\ buf[c] = "blank"
  /\ Goto(c, "status")
  /\ UNCHANGED <<netVars, sharedVars, peerVars, localVars, now, process>>

\* The first line of the response.  With none, tmp is not initialised and may
\* look like a blank line or not.
ReadStatus(c) ==
  /\ At(c, "status")
  /\ \/ rsp[c].headers > 0 /\ Goto(c, "response")
     \/ rsp[c].headers = 0 /\ ~rsp[c].cut /\ Goto(c, "reply")
     \/ rsp[c].headers = 0 /\ rsp[c].cut /\ \E l \in {"response", "reply"} : Goto(c, l)
  /\ UNCHANGED <<netVars, sharedVars, peerVars, localVars, now, process>>

\* strcat(buf, tmp) and the next line; at the end of the stream tmp stays the
\* same and the loop goes on until buf overflows.
AppendHeader(c) ==
  /\ At(c, "response") /\ hlen[c] < BufLines
  /\ LET r == rsp[c]
         left == IF r.headers > 0 THEN r.headers - 1 ELSE 0
     IN  /\ rsp' = [rsp EXCEPT ![c].headers = left]
         /\ Goto(c, IF left = 0 /\ ~r.cut THEN "reply" ELSE "response")
  /\ hlen' = [hlen EXCEPT ![c] = @ + 1]
  /\ UNCHANGED <<netVars, sharedVars, req, gone, got, buf, addr, size, stamp, now, process>>

HeaderOverflows(c) ==
  /\ At(c, "response") /\ hlen[c] = BufLines
  /\ process' = "segv"
  /\ UNCHANGED <<netVars, sharedVars, peerVars, localVars, now, pc>>

\* The header collected is written to the server's descriptor again; whether
\* that works is not looked at.
SendHeader(c) ==
  /\ At(c, "reply")
  /\ Goto(c, "body")
  /\ UNCHANGED <<netVars, sharedVars, peerVars, localVars, now, process>>

\* A block of the body is read and counted; rio_writen to the client may fail
\* unnoticed.
CopyBlock(c) ==
  /\ At(c, "body") /\ size[c] < rsp[c].body
  /\ size' = [size EXCEPT ![c] = @ + 1]
  /\ got' = IF CanWrite(c)
              THEN [got EXCEPT ![c].body = @ + 1] ELSE got
  /\ UNCHANGED <<netVars, sharedVars, req, rsp, gone, buf, hlen, addr, stamp, now, process, pc>>

\* Mutant of BodyEnds: a block that is not full is taken for the last.
BodyEndsShort(c) ==
  /\ At(c, "body")
  /\ Goto(c, "close")
  /\ UNCHANGED <<netVars, sharedVars, peerVars, localVars, now, process>>

BodyEnds(c) ==
  /\ At(c, "body") /\ size[c] = rsp[c].body
  /\ Goto(c, "close")
  /\ UNCHANGED <<netVars, sharedVars, peerVars, localVars, now, process>>

\* Mutant of CloseServer: the body ends with proxyfd left open.
CloseServerForgotten(c) ==
  /\ At(c, "close")
  /\ Goto(c, "time")
  /\ UNCHANGED <<netVars, sharedVars, peerVars, localVars, now, process>>

\* Mutant of CloseServer: the client's descriptor in its place.
CloseServerWrongFd(c) ==
  /\ At(c, "close")
  /\ Close(connfd[c], c, "time")
  /\ UNCHANGED <<connfd, proxyfd, sharedVars, peerVars, localVars, now>>

CloseServer(c) ==
  /\ At(c, "close")
  /\ Close(proxyfd[c], c, "time")
  /\ UNCHANGED <<connfd, proxyfd, sharedVars, peerVars, localVars, now>>

\* format_log_entry asks for the time.
Time(c) ==
  /\ At(c, "time")
  /\ stamp' = [stamp EXCEPT ![c].read = now]
  /\ Goto(c, "localtime")
  /\ UNCHANGED <<netVars, sharedVars, peerVars, buf, hlen, addr, size, now, process>>

\* localtime writes its static buffer for every caller.
Localtime(c) ==
  /\ At(c, "localtime")
  /\ tm' = stamp[c].read
  /\ Goto(c, "date")
  /\ UNCHANGED <<netVars, log_mutex, fd_mutex, hostent, logFile, peerVars, localVars, now, process>>

\* strftime reads that buffer field by field, the date before the clock, with
\* no lock.  localtime fills the clock before the date, under a lock of the
\* library: a read while it writes mixes two times as a write between the two
\* reads does.
StrftimeDate(c) ==
  /\ At(c, "date")
  /\ stamp' = [stamp EXCEPT ![c].date = tm]
  /\ Goto(c, "clock")
  /\ UNCHANGED <<netVars, sharedVars, peerVars, buf, hlen, addr, size, now, process>>

StrftimeClock(c) ==
  /\ At(c, "clock")
  /\ stamp' = [stamp EXCEPT ![c].clock = tm]
  /\ Goto(c, "p_log")
  /\ UNCHANGED <<netVars, sharedVars, peerVars, buf, hlen, addr, size, now, process>>

\* Mutant of PLogMutex: no semaphore.
SkipLogMutex(c) ==
  /\ At(c, "p_log")
  /\ Goto(c, "print")
  /\ UNCHANGED <<netVars, sharedVars, peerVars, localVars, now, process>>

PLogMutex(c) ==
  /\ At(c, "p_log") /\ log_mutex > 0
  /\ log_mutex' = log_mutex - 1
  /\ Goto(c, "print")
  /\ UNCHANGED <<netVars, fd_mutex, hostent, tm, logFile, peerVars, localVars, now, process>>

\* fprintf and fflush.
PrintLog(c) ==
  /\ At(c, "print")
  /\ logFile' = Append(logFile, [conn |-> c, size |-> size[c],
                                 date |-> stamp[c].date, clock |-> stamp[c].clock])
  /\ Goto(c, "v_log")
  /\ UNCHANGED <<netVars, log_mutex, fd_mutex, hostent, tm, peerVars, localVars, now, process>>

VLogMutex(c) ==
  /\ At(c, "v_log")
  /\ log_mutex' = log_mutex + 1
  /\ Goto(c, "exit")
  /\ UNCHANGED <<netVars, fd_mutex, hostent, tm, logFile, peerVars, localVars, now, process>>

\* The end of the thread routine: Close(connfd).
CloseClient(c) ==
  /\ At(c, "exit")
  /\ Close(connfd[c], c, "done")
  /\ UNCHANGED <<connfd, proxyfd, sharedVars, peerVars, localVars, now>>

-----------------------------------------------------------------------------
(* The peers, the clock and the end *)

\* A client closes its connection: what it sent before is still read, and it
\* takes no more data.
ClientLeaves(c) ==
  /\ process = "up" /\ pc[c] \notin {"none", "done"}
  /\ gone' = gone \cup {c}
  /\ UNCHANGED <<netVars, sharedVars, req, rsp, got, localVars, now, process, pc>>

Tick ==
  /\ process = "up" /\ now < MaxTime
  /\ now' = now + 1
  /\ UNCHANGED <<netVars, sharedVars, peerVars, localVars, process, pc>>

\* Nothing is left to do: the process ended, or main waits in accept.
Quiet ==
  /\ process # "up" \/ \A c \in Conns : pc[c] = "done"
  /\ UNCHANGED vars

ThreadStep(c) ==
  \/ ReadRequestLine(c) \/ ClientError(c) \/ ParseUri(c) \/ Socket(c) \/ SocketFails(c)
  \/ PFdMutex(c) \/ Gethostbyname(c) \/ GethostbynameFails(c) \/ CopyAddress(c)
  \/ (\E r \in Responses : Connect(c, r)) \/ ConnectFails(c) \/ SendRequest(c)
  \/ ForwardHeader(c) \/ HeadersSent(c) \/ ReadStatus(c) \/ AppendHeader(c)
  \/ HeaderOverflows(c) \/ SendHeader(c) \/ CopyBlock(c) \/ BodyEnds(c) \/ CloseServer(c)
  \/ Time(c) \/ Localtime(c) \/ StrftimeDate(c) \/ StrftimeClock(c)
  \/ PLogMutex(c) \/ PrintLog(c) \/ VLogMutex(c) \/ CloseClient(c)

Next ==
  \/ \E c \in Conns, q \in Requests : Accept(c, q)
  \/ AcceptFails
  \/ \E c \in Conns : ThreadStep(c)
  \/ \E c \in Conns : ClientLeaves(c)
  \/ Tick \/ Quiet

Spec == Init /\ [][Next]_vars

\* Every started thread is scheduled; peers answer, the clock and new clients
\* are under no obligation.
FairSpec == Spec /\ \A c \in Conns : WF_vars(ThreadStep(c))

-----------------------------------------------------------------------------
(* Properties *)

Semaphore(s, holders) ==
  \/ s = 1 /\ Threads(holders) = {}
  \/ s = 0 /\ \E c \in Conns : Threads(holders) = {c}

\* Each semaphore is free, or exactly one thread is between its P and V, on
\* every path through open_clientfd_ts and doit (lines 203-206 and 223-234).
MutualExclusion ==
  /\ Semaphore(fd_mutex, {"gethost", "copy"})
  /\ Semaphore(log_mutex, {"print", "v_log"})

\* The address a thread connects to is that of the host it asked for, although
\* every thread's answer arrives in the one static hostent (lines 222-234).
RightServer == \A c \in Conns : addr[c] \in {"none", c}

\* A thread that still uses a descriptor owns it: nobody closed it under it, and
\* no later accept or socket got its number (lines 82-83, 157-200).
UsesClient(c) == pc[c] \notin {"none", "done"}
UsesServer(c) ==
  /\ pc[c] \in {"p_fd", "gethost", "copy", "connect", "request", "headers", "status", "response",
               "reply", "body", "close"}
  /\ proxyfd[c] # BadFd
DescriptorsOwned ==
  process = "up" =>
    \A c \in Conns :
      /\ UsesClient(c) => connfd[c] \in Fds /\ fds[connfd[c]] = {<<c, "client">>}
      /\ UsesServer(c) => proxyfd[c] \in Fds /\ fds[proxyfd[c]] = {<<c, "server">>}

\* A proxy that goes on serving has got back both descriptors of every thread
\* that ended, whichever way it ended (lines 83, 163, 175, 200).
DescriptorsReclaimed ==
  process = "up" =>
    \A c \in Conns : pc[c] = "done" => \A f \in Fds : fds[f] \cap {<<c, "client">>, <<c, "server">>} = {}

\* The log has one entry at most for a connection.  Its size is that of the
\* response from the server, also when the client left in the middle of it and
\* took less; a client that stayed has all of it.  Although localtime's buffer
\* belongs to all threads, date and clock of an entry were read by some thread,
\* if not by the same (lines 192-206, 315-344).
Asked == {stamp[c].read : c \in Conns} \ {NoTime}

LogTrue ==
  \A i \in DOMAIN logFile :
    LET c == logFile[i].conn IN
    /\ \A j \in DOMAIN logFile : logFile[j].conn = c => j = i
    /\ logFile[i].size = rsp[c].body
    /\ got[c].body = logFile[i].size \/ c \in gone
    /\ logFile[i].date \in Asked /\ logFile[i].clock \in Asked

\* Why the invariants hold (the inductive invariant ProxyInv): between its call
\* and its copy a thread finds its own answer in hostent, and a descriptor is
\* open only while its thread knows its number; one whose number is lost behind
\* an error code of open_clientfd_ts meets Close(-1) next.
HostentOwn == \A c \in Conns : pc[c] = "copy" => hostent = c

OnlyOwnersHold ==
  process = "up" =>
    \A f \in Fds, c \in Conns :
      /\ <<c, "client">> \in fds[f] => UsesClient(c) /\ connfd[c] = f
      /\ <<c, "server">> \in fds[f] => \/ UsesServer(c) /\ proxyfd[c] = f
                                       \/ pc[c] = "request" /\ proxyfd[c] = BadFd

\* The inductive invariant of the semaphores and descriptors (lines 75-241).
ProxyInv ==
  /\ TypeOK /\ MutualExclusion /\ HostentOwn /\ RightServer
  /\ DescriptorsOwned /\ OnlyOwnersHold

\* With peers that finish what they send, every accepted connection is served to
\* the end, or the whole process ended (lines 75-85, 128-210).
ThreadsEnd ==
  \A c \in Conns : pc[c] = "readline" ~> (pc[c] = "done" \/ process # "up")

\* A server that cannot be reached is no reason to stop serving the other
\* clients: the wrappers of the proxy "simply return after printing a warning
\* message when I/O fails", and so no Close ends the process either (lines 45-63,
\* 161-177).
ProxySurvives == process # "Close"

=============================================================================
