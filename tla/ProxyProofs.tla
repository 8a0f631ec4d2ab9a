---------------------------- MODULE ProxyProofs ----------------------------
(***************************************************************************)
(* Proofs about the proxy for any set of connections, any peers and any    *)
(* limit of descriptors: ProxyInv (module Proxy) is inductive.             *)
(***************************************************************************)
EXTENDS Proxy, LeastNumber

\* accept and socket return the smallest free number.
LEMMA MinFree ==
  ASSUME FreeFds # {}
  PROVE  Min(FreeFds) \in FreeFds /\ FreeFds \subseteq Fds
<1>1. FreeFds \in SUBSET Nat /\ FreeFds \subseteq Fds
  BY ProxyAssumption DEF FreeFds, Fds
<1>2. \E n \in FreeFds : \A m \in FreeFds : n <= m
  BY <1>1, LeastOfSet
<1> QED
  BY <1>1, <1>2 DEF Min

\* Changing one field of a peer's script, or of what a client received.
LEMMA RequestUpdates ==
  ASSUME NEW c \in Conns, NEW q \in [Conns -> [kind : RequestKinds, headers : Nat, cut : BOOLEAN]]
  PROVE  /\ \A k \in RequestKinds :
              [q EXCEPT ![c].kind = k] \in [Conns -> [kind : RequestKinds, headers : Nat, cut : BOOLEAN]]
         /\ \A n \in Nat :
              [q EXCEPT ![c].headers = n] \in [Conns -> [kind : RequestKinds, headers : Nat, cut : BOOLEAN]]
OBVIOUS

LEMMA ResponseUpdates ==
  ASSUME NEW c \in Conns, NEW r \in [Conns -> [headers : Nat, cut : BOOLEAN, body : Nat]], NEW n \in Nat
  PROVE  /\ [r EXCEPT ![c].headers = n] \in [Conns -> [headers : Nat, cut : BOOLEAN, body : Nat]]
         /\ [r EXCEPT ![c].body = n] \in [Conns -> [headers : Nat, cut : BOOLEAN, body : Nat]]
OBVIOUS

LEMMA StampUpdates ==
  ASSUME NEW c \in Conns, NEW g \in [Conns -> [read : Times, date : Times, clock : Times]], NEW n \in Times
  PROVE  /\ [g EXCEPT ![c].read = n] \in [Conns -> [read : Times, date : Times, clock : Times]]
         /\ [g EXCEPT ![c].date = n] \in [Conns -> [read : Times, date : Times, clock : Times]]
         /\ [g EXCEPT ![c].clock = n] \in [Conns -> [read : Times, date : Times, clock : Times]]
OBVIOUS

LEMMA GotUpdate ==
  ASSUME NEW c \in Conns, NEW g \in [Conns -> [header : BOOLEAN, body : Nat]], NEW n \in Nat
  PROVE  [g EXCEPT ![c].body = n] \in [Conns -> [header : BOOLEAN, body : Nat]]
OBVIOUS

\* Every step keeps the types; the semaphores stay binary because their holders
\* are known.
LEMMA TypeStep ==
  ASSUME TypeOK, MutualExclusion, [Next]_vars
  PROVE  TypeOK'
<1> USE DEF TypeOK, Ends, At, Goto, vars, netVars, sharedVars, peerVars, localVars
<1>1. ASSUME NEW c \in Conns, NEW q \in Requests, Accept(c, q)
      PROVE  TypeOK'
  <2>1. Min(FreeFds) \in Fds
    BY <1>1, MinFree DEF Accept
  <2>2. <<c, "client">> \in Peers
    BY DEF Peers
  <2>3. fds' \in [Fds -> SUBSET Peers]
    BY <1>1, <2>1, <2>2 DEF Accept
  <2>4. pc' \in [Conns -> Locs]
    BY <1>1 DEF Accept, Locs
  <2>5. connfd' \in [Conns -> Fds \cup {BadFd}]
    BY <1>1, <2>1 DEF Accept
  <2>6. req' \in [Conns -> [kind : RequestKinds, headers : Nat, cut : BOOLEAN]]
    BY <1>1, ProxyAssumption DEF Accept
  <2> QED
    BY <1>1, <2>1, <2>2, <2>3, <2>4, <2>5, <2>6 DEF Accept
<1>2. CASE AcceptFails
  BY <1>2 DEF AcceptFails
<1>3. ASSUME NEW c \in Conns, ReadRequestLine(c)
      PROVE  TypeOK'
  <2>1. req' \in [Conns -> [kind : RequestKinds, headers : Nat, cut : BOOLEAN]]
    <3>1. PICK k \in RequestKinds : req' = [req EXCEPT ![c].kind = k]
      BY <1>3 DEF ReadRequestLine
    <3> QED
      BY <3>1, RequestUpdates
  <2>2. pc' \in [Conns -> Locs]
    BY <1>3 DEF ReadRequestLine, Locs
  <2> QED
    BY <1>3, <2>1, <2>2 DEF ReadRequestLine
<1>4. ASSUME NEW c \in Conns, ClientError(c)
      PROVE  TypeOK'
  BY <1>4 DEF ClientError, Locs
<1>5. ASSUME NEW c \in Conns, ParseUri(c)
      PROVE  TypeOK'
  BY <1>5 DEF ParseUri, Locs
<1>6. ASSUME NEW c \in Conns, Socket(c)
      PROVE  TypeOK'
  <2>1. Min(FreeFds) \in Fds
    BY <1>6, MinFree DEF Socket
  <2>2. <<c, "server">> \in Peers
    BY DEF Peers
  <2>3. fds' \in [Fds -> SUBSET Peers]
    BY <1>6, <2>1, <2>2 DEF Socket
  <2>4. pc' \in [Conns -> Locs]
    BY <1>6 DEF Socket, Locs
  <2>5. proxyfd' \in [Conns -> Fds \cup {BadFd}]
    BY <1>6, <2>1 DEF Socket
  <2> QED
    BY <1>6, <2>1, <2>2, <2>3, <2>4, <2>5 DEF Socket
<1>7. ASSUME NEW c \in Conns, SocketFails(c)
      PROVE  TypeOK'
  BY <1>7 DEF SocketFails, Locs
<1>8. ASSUME NEW c \in Conns, PFdMutex(c)
      PROVE  TypeOK'
  <2>1. fd_mutex' \in 0..1
    BY <1>8 DEF PFdMutex
  <2>2. pc' \in [Conns -> Locs]
    BY <1>8 DEF PFdMutex, Locs
  <2> QED
    BY <1>8, <2>1, <2>2 DEF PFdMutex
<1>9. ASSUME NEW c \in Conns, Gethostbyname(c)
      PROVE  TypeOK'
  BY <1>9 DEF Gethostbyname, Locs
<1>10. ASSUME NEW c \in Conns, GethostbynameFails(c)
      PROVE  TypeOK'
  <2>1. fd_mutex' \in 0..1
    BY <1>10 DEF GethostbynameFails, MutualExclusion, Semaphore, Threads
  <2>2. pc' \in [Conns -> Locs]
    BY <1>10 DEF GethostbynameFails, Locs
  <2> QED
    BY <1>10, <2>1, <2>2 DEF GethostbynameFails
<1>11. ASSUME NEW c \in Conns, CopyAddress(c)
      PROVE  TypeOK'
  <2>1. fd_mutex' \in 0..1
    BY <1>11 DEF CopyAddress, MutualExclusion, Semaphore, Threads
  <2>2. pc' \in [Conns -> Locs]
    BY <1>11 DEF CopyAddress, Locs
  <2> QED
    BY <1>11, <2>1, <2>2 DEF CopyAddress
<1>12. ASSUME NEW c \in Conns, NEW r \in Responses, Connect(c, r)
      PROVE  TypeOK'
  BY <1>12, ProxyAssumption DEF Connect, Locs
<1>13. ASSUME NEW c \in Conns, ConnectFails(c)
      PROVE  TypeOK'
  BY <1>13 DEF ConnectFails, Locs
<1>14. ASSUME NEW c \in Conns, SendRequest(c)
      PROVE  TypeOK'
  BY <1>14 DEF SendRequest, ToServer, Locs, Close
<1>15. ASSUME NEW c \in Conns, ForwardHeader(c)
      PROVE  TypeOK'
  <2>0. req[c].headers \in Nat /\ req \in [Conns -> [kind : RequestKinds, headers : Nat, cut : BOOLEAN]]
    OBVIOUS
  <2> HIDE DEF TypeOK
  <2>1. req' \in [Conns -> [kind : RequestKinds, headers : Nat, cut : BOOLEAN]]
    <3>2. req' = req \/ (req[c].headers > 0 /\ req' = [req EXCEPT ![c].headers = req[c].headers - 1])
      BY <1>15 DEF ForwardHeader
    <3>3. req[c].headers > 0 => req[c].headers - 1 \in Nat
      BY <2>0
    <3> QED
      BY <2>0, <3>2, <3>3, RequestUpdates
  <2>2. buf' \in [Conns -> {"request", "header", "blank"}]
    BY <1>15 DEF ForwardHeader, TypeOK
  <2>3. pc' \in [Conns -> Locs] /\ fds' \in [Fds -> SUBSET Peers] /\ process' \in {"up"} \cup Ends
    BY <1>15 DEF ForwardHeader, ToServer, IsOpen, Close, Locs, TypeOK
  <2> QED
    BY <1>15, <2>1, <2>2, <2>3 DEF ForwardHeader, TypeOK
<1>16. ASSUME NEW c \in Conns, HeadersSent(c)
      PROVE  TypeOK'
  BY <1>16 DEF HeadersSent, Locs
<1>17. ASSUME NEW c \in Conns, ReadStatus(c)
      PROVE  TypeOK'
  <2>1. PICK l \in {"response", "reply"} : Goto(c, l)
    BY <1>17 DEF ReadStatus
  <2>2. pc' \in [Conns -> Locs]
    BY <2>1 DEF Locs
  <2> QED
    BY <1>17, <2>2 DEF ReadStatus
<1>18. ASSUME NEW c \in Conns, AppendHeader(c)
      PROVE  TypeOK'
  <2>0. /\ rsp[c].headers \in Nat /\ hlen[c] \in 0..BufLines
        /\ rsp \in [Conns -> [headers : Nat, cut : BOOLEAN, body : Nat]]
        /\ hlen \in [Conns -> 0..BufLines] /\ pc \in [Conns -> Locs]
    OBVIOUS
  <2> HIDE DEF TypeOK
  <2>1. rsp' \in [Conns -> [headers : Nat, cut : BOOLEAN, body : Nat]]
    <3>2. PICK n : /\ n = IF rsp[c].headers > 0 THEN rsp[c].headers - 1 ELSE 0
                  /\ rsp' = [rsp EXCEPT ![c].headers = n]
      BY <1>18 DEF AppendHeader
    <3>3. n \in Nat
      BY <2>0, <3>2
    <3> QED
      BY <2>0, <3>2, <3>3, ResponseUpdates
  <2>2. hlen' \in [Conns -> 0..BufLines]
    <3>1. hlen[c] < BufLines /\ hlen' = [hlen EXCEPT ![c] = hlen[c] + 1]
      BY <1>18 DEF AppendHeader
    <3>2. hlen[c] + 1 \in 0..BufLines
      BY <2>0, <3>1, ProxyAssumption
    <3> QED
      BY <2>0, <3>1, <3>2
  <2>3. pc' \in [Conns -> Locs]
    BY <1>18 DEF AppendHeader, Locs, TypeOK
  <2> QED
    BY <1>18, <2>1, <2>2, <2>3 DEF AppendHeader, TypeOK
<1>19. ASSUME NEW c \in Conns, HeaderOverflows(c)
      PROVE  TypeOK'
  BY <1>19 DEF HeaderOverflows
<1>20. ASSUME NEW c \in Conns, SendHeader(c)
      PROVE  TypeOK'
  BY <1>20 DEF SendHeader, Locs
<1>21. ASSUME NEW c \in Conns, CopyBlock(c)
      PROVE  TypeOK'
  <2>0. /\ got[c].body \in Nat /\ size[c] \in Nat
        /\ got \in [Conns -> [header : BOOLEAN, body : Nat]] /\ size \in [Conns -> Nat]
    OBVIOUS
  <2> HIDE DEF TypeOK
  <2>2. got' \in [Conns -> [header : BOOLEAN, body : Nat]]
    <3>1. got[c].body + 1 \in Nat
      BY <2>0
    <3>2. got' = got \/ got' = [got EXCEPT ![c].body = got[c].body + 1]
      BY <1>21 DEF CopyBlock
    <3> QED
      BY <2>0, <3>1, <3>2, GotUpdate
  <2>3. size' \in [Conns -> Nat]
    <3>1. size[c] + 1 \in Nat
      BY <2>0
    <3>2. size' = [size EXCEPT ![c] = size[c] + 1]
      BY <1>21 DEF CopyBlock
    <3> QED
      BY <2>0, <3>1, <3>2
  <2> QED
    BY <1>21, <2>2, <2>3 DEF CopyBlock, TypeOK
<1>22. ASSUME NEW c \in Conns, BodyEnds(c)
      PROVE  TypeOK'
  BY <1>22 DEF BodyEnds, Locs
<1>23. ASSUME NEW c \in Conns, CloseServer(c)
      PROVE  TypeOK'
  BY <1>23 DEF CloseServer, Locs, Close
<1>24. ASSUME NEW c \in Conns, Time(c)
      PROVE  TypeOK'
  <2>1. stamp' \in [Conns -> [read : Times, date : Times, clock : Times]]
    <3>1. now \in Times /\ stamp \in [Conns -> [read : Times, date : Times, clock : Times]]
      BY DEF Times
    <3>2. stamp' = [stamp EXCEPT ![c].read = now]
      BY <1>24 DEF Time
    <3> HIDE DEF TypeOK
    <3> QED
      BY <3>1, <3>2, StampUpdates
  <2>2. pc' \in [Conns -> Locs]
    BY <1>24 DEF Time, Locs
  <2> QED
    BY <1>24, <2>1, <2>2 DEF Time
<1>25. ASSUME NEW c \in Conns, Localtime(c)
      PROVE  TypeOK'
  <2>1. tm' \in Times
    BY <1>25 DEF Localtime
  <2>2. pc' \in [Conns -> Locs]
    BY <1>25 DEF Localtime, Locs
  <2> QED
    BY <1>25, <2>1, <2>2 DEF Localtime
<1>33. ASSUME NEW c \in Conns, StrftimeDate(c)
      PROVE  TypeOK'
  <2>1. stamp' \in [Conns -> [read : Times, date : Times, clock : Times]]
    <3>1. tm \in Times /\ stamp \in [Conns -> [read : Times, date : Times, clock : Times]]
      BY DEF Times
    <3>2. stamp' = [stamp EXCEPT ![c].date = tm]
      BY <1>33 DEF StrftimeDate
    <3> HIDE DEF TypeOK
    <3> QED
      BY <3>1, <3>2, StampUpdates
  <2>2. pc' \in [Conns -> Locs]
    BY <1>33 DEF StrftimeDate, Locs
  <2> QED
    BY <1>33, <2>1, <2>2 DEF StrftimeDate
<1>34. ASSUME NEW c \in Conns, StrftimeClock(c)
      PROVE  TypeOK'
  <2>1. stamp' \in [Conns -> [read : Times, date : Times, clock : Times]]
    <3>1. tm \in Times /\ stamp \in [Conns -> [read : Times, date : Times, clock : Times]]
      BY DEF Times
    <3>2. stamp' = [stamp EXCEPT ![c].clock = tm]
      BY <1>34 DEF StrftimeClock
    <3> HIDE DEF TypeOK
    <3> QED
      BY <3>1, <3>2, StampUpdates
  <2>2. pc' \in [Conns -> Locs]
    BY <1>34 DEF StrftimeClock, Locs
  <2> QED
    BY <1>34, <2>1, <2>2 DEF StrftimeClock
<1>26. ASSUME NEW c \in Conns, PLogMutex(c)
      PROVE  TypeOK'
  <2>1. log_mutex' \in 0..1
    BY <1>26 DEF PLogMutex
  <2>2. pc' \in [Conns -> Locs]
    BY <1>26 DEF PLogMutex, Locs
  <2> QED
    BY <1>26, <2>1, <2>2 DEF PLogMutex
<1>27. ASSUME NEW c \in Conns, PrintLog(c)
      PROVE  TypeOK'
  <2>1. [conn |-> c, size |-> size[c], date |-> stamp[c].date, clock |-> stamp[c].clock] \in Entries
    <3>1. stamp[c] \in [read : Times, date : Times, clock : Times] /\ size[c] \in Nat
      OBVIOUS
    <3> HIDE DEF TypeOK
    <3> QED
      BY <3>1 DEF Entries
  <2>2. logFile' \in Seq(Entries)
    BY <1>27, <2>1 DEF PrintLog
  <2>3. pc' \in [Conns -> Locs]
    BY <1>27 DEF PrintLog, Locs
  <2> QED
    BY <1>27, <2>1, <2>2, <2>3 DEF PrintLog
<1>28. ASSUME NEW c \in Conns, VLogMutex(c)
      PROVE  TypeOK'
  <2>1. log_mutex' \in 0..1
    BY <1>28 DEF VLogMutex, MutualExclusion, Semaphore, Threads
  <2>2. pc' \in [Conns -> Locs]
    BY <1>28 DEF VLogMutex, Locs
  <2> QED
    BY <1>28, <2>1, <2>2 DEF VLogMutex
<1>29. ASSUME NEW c \in Conns, CloseClient(c)
      PROVE  TypeOK'
  BY <1>29 DEF CloseClient, Locs, Close
<1>30. ASSUME NEW c \in Conns, ClientLeaves(c)
      PROVE  TypeOK'
  BY <1>30 DEF ClientLeaves
<1>31. CASE Tick
  BY <1>31, ProxyAssumption DEF Tick
<1>32. CASE Quiet \/ UNCHANGED vars
  BY <1>32 DEF Quiet
<1> HIDE DEF TypeOK, vars
<1> QED
  BY [Next]_vars, <1>1, <1>2, <1>3, <1>4, <1>5, <1>6, <1>7, <1>8, <1>9, <1>10, <1>11, <1>12, <1>13, <1>14, <1>15, <1>16, <1>17, <1>18, <1>19, <1>20, <1>21, <1>22, <1>23, <1>24, <1>25, <1>26, <1>27, <1>28, <1>29, <1>30, <1>31, <1>32, <1>33, <1>34 DEF Next, ThreadStep

\* Every step keeps the semaphores and their holders together.
LEMMA MutexStep ==
  ASSUME TypeOK, MutualExclusion, [Next]_vars
  PROVE  MutualExclusion'
<1>0. pc \in [Conns -> Locs]
  BY DEF TypeOK
<1> USE <1>0 DEF MutualExclusion, Semaphore, Threads, vars, netVars, sharedVars, peerVars, localVars, At, Goto
<1>1. ASSUME NEW c \in Conns, NEW q \in Requests, Accept(c, q)
      PROVE  MutualExclusion'
  BY <1>1 DEF Accept
<1>2. CASE AcceptFails
  BY <1>2 DEF AcceptFails
<1>3. ASSUME NEW c \in Conns, ReadRequestLine(c)
      PROVE  MutualExclusion'
  BY <1>3 DEF ReadRequestLine
<1>4. ASSUME NEW c \in Conns, ClientError(c)
      PROVE  MutualExclusion'
  BY <1>4 DEF ClientError
<1>5. ASSUME NEW c \in Conns, ParseUri(c)
      PROVE  MutualExclusion'
  BY <1>5 DEF ParseUri
<1>6. ASSUME NEW c \in Conns, Socket(c)
      PROVE  MutualExclusion'
  BY <1>6 DEF Socket
<1>7. ASSUME NEW c \in Conns, SocketFails(c)
      PROVE  MutualExclusion'
  BY <1>7 DEF SocketFails
<1>8. ASSUME NEW c \in Conns, PFdMutex(c)
      PROVE  MutualExclusion'
  BY <1>8 DEF PFdMutex
<1>9. ASSUME NEW c \in Conns, Gethostbyname(c)
      PROVE  MutualExclusion'
  BY <1>9 DEF Gethostbyname
<1>10. ASSUME NEW c \in Conns, GethostbynameFails(c)
      PROVE  MutualExclusion'
  BY <1>10 DEF GethostbynameFails
<1>11. ASSUME NEW c \in Conns, CopyAddress(c)
      PROVE  MutualExclusion'
  BY <1>11 DEF CopyAddress
<1>12. ASSUME NEW c \in Conns, NEW r \in Responses, Connect(c, r)
      PROVE  MutualExclusion'
  BY <1>12 DEF Connect
<1>13. ASSUME NEW c \in Conns, ConnectFails(c)
      PROVE  MutualExclusion'
  BY <1>13 DEF ConnectFails
<1>14. ASSUME NEW c \in Conns, SendRequest(c)
      PROVE  MutualExclusion'
  BY <1>14 DEF SendRequest, ToServer, IsOpen, Close
<1>15. ASSUME NEW c \in Conns, ForwardHeader(c)
      PROVE  MutualExclusion'
  BY <1>15 DEF ForwardHeader, ToServer, IsOpen, Close
<1>16. ASSUME NEW c \in Conns, HeadersSent(c)
      PROVE  MutualExclusion'
  BY <1>16 DEF HeadersSent
<1>17. ASSUME NEW c \in Conns, ReadStatus(c)
      PROVE  MutualExclusion'
  BY <1>17 DEF ReadStatus
<1>18. ASSUME NEW c \in Conns, AppendHeader(c)
      PROVE  MutualExclusion'
  BY <1>18 DEF AppendHeader
<1>19. ASSUME NEW c \in Conns, HeaderOverflows(c)
      PROVE  MutualExclusion'
  BY <1>19 DEF HeaderOverflows
<1>20. ASSUME NEW c \in Conns, SendHeader(c)
      PROVE  MutualExclusion'
  BY <1>20 DEF SendHeader
<1>21. ASSUME NEW c \in Conns, CopyBlock(c)
      PROVE  MutualExclusion'
  BY <1>21 DEF CopyBlock
<1>22. ASSUME NEW c \in Conns, BodyEnds(c)
      PROVE  MutualExclusion'
  BY <1>22 DEF BodyEnds
<1>23. ASSUME NEW c \in Conns, CloseServer(c)
      PROVE  MutualExclusion'
  BY <1>23 DEF CloseServer, Close
<1>24. ASSUME NEW c \in Conns, Time(c)
      PROVE  MutualExclusion'
  BY <1>24 DEF Time
<1>25. ASSUME NEW c \in Conns, Localtime(c)
      PROVE  MutualExclusion'
  BY <1>25 DEF Localtime
<1>33. ASSUME NEW c \in Conns, StrftimeDate(c)
      PROVE  MutualExclusion'
  BY <1>33 DEF StrftimeDate
<1>34. ASSUME NEW c \in Conns, StrftimeClock(c)
      PROVE  MutualExclusion'
  BY <1>34 DEF StrftimeClock
<1>26. ASSUME NEW c \in Conns, PLogMutex(c)
      PROVE  MutualExclusion'
  BY <1>26 DEF PLogMutex
<1>27. ASSUME NEW c \in Conns, PrintLog(c)
      PROVE  MutualExclusion'
  BY <1>27 DEF PrintLog
<1>28. ASSUME NEW c \in Conns, VLogMutex(c)
      PROVE  MutualExclusion'
  BY <1>28 DEF VLogMutex
<1>29. ASSUME NEW c \in Conns, CloseClient(c)
      PROVE  MutualExclusion'
  BY <1>29 DEF CloseClient, Close
<1>30. ASSUME NEW c \in Conns, ClientLeaves(c)
      PROVE  MutualExclusion'
  BY <1>30 DEF ClientLeaves
<1>31. CASE Tick
  BY <1>31 DEF Tick
<1>32. CASE Quiet \/ UNCHANGED vars
  BY <1>32 DEF Quiet
<1> HIDE <1>0 DEF MutualExclusion, vars
<1> QED
  BY [Next]_vars, <1>1, <1>2, <1>3, <1>4, <1>5, <1>6, <1>7, <1>8, <1>9, <1>10, <1>11, <1>12, <1>13, <1>14, <1>15, <1>16,
     <1>17, <1>18, <1>19, <1>20, <1>21, <1>22, <1>23, <1>24, <1>25, <1>26, <1>27, <1>28, <1>29, <1>30, <1>31, <1>32, <1>33, <1>34
  DEF Next, ThreadStep

\* Only the holder of fd_mutex writes hostent, so the copy is of its own answer.
LEMMA ServerStep ==
  ASSUME TypeOK, MutualExclusion, HostentOwn, RightServer, [Next]_vars
  PROVE  HostentOwn' /\ RightServer'
<1>0. pc \in [Conns -> Locs] /\ addr \in [Conns -> Conns \cup {"none"}]
  BY DEF TypeOK
<1> USE <1>0 DEF HostentOwn, RightServer, vars, netVars, sharedVars, peerVars, localVars, At, Goto
<1>1. ASSUME NEW c \in Conns, NEW q \in Requests, Accept(c, q)
      PROVE  HostentOwn' /\ RightServer'
  BY <1>1 DEF Accept
<1>2. CASE AcceptFails
  BY <1>2 DEF AcceptFails
<1>3. ASSUME NEW c \in Conns, ReadRequestLine(c)
      PROVE  HostentOwn' /\ RightServer'
  BY <1>3 DEF ReadRequestLine
<1>4. ASSUME NEW c \in Conns, ClientError(c)
      PROVE  HostentOwn' /\ RightServer'
  BY <1>4 DEF ClientError
<1>5. ASSUME NEW c \in Conns, ParseUri(c)
      PROVE  HostentOwn' /\ RightServer'
  BY <1>5 DEF ParseUri
<1>6. ASSUME NEW c \in Conns, Socket(c)
      PROVE  HostentOwn' /\ RightServer'
  BY <1>6 DEF Socket
<1>7. ASSUME NEW c \in Conns, SocketFails(c)
      PROVE  HostentOwn' /\ RightServer'
  BY <1>7 DEF SocketFails
<1>8. ASSUME NEW c \in Conns, PFdMutex(c)
      PROVE  HostentOwn' /\ RightServer'
  BY <1>8 DEF PFdMutex
<1>9. ASSUME NEW c \in Conns, Gethostbyname(c)
      PROVE  HostentOwn' /\ RightServer'
  BY <1>9 DEF Gethostbyname, MutualExclusion, Semaphore, Threads
<1>10. ASSUME NEW c \in Conns, GethostbynameFails(c)
      PROVE  HostentOwn' /\ RightServer'
  BY <1>10 DEF GethostbynameFails
<1>11. ASSUME NEW c \in Conns, CopyAddress(c)
      PROVE  HostentOwn' /\ RightServer'
  BY <1>11 DEF CopyAddress
<1>12. ASSUME NEW c \in Conns, NEW r \in Responses, Connect(c, r)
      PROVE  HostentOwn' /\ RightServer'
  BY <1>12 DEF Connect
<1>13. ASSUME NEW c \in Conns, ConnectFails(c)
      PROVE  HostentOwn' /\ RightServer'
  BY <1>13 DEF ConnectFails
<1>14. ASSUME NEW c \in Conns, SendRequest(c)
      PROVE  HostentOwn' /\ RightServer'
  BY <1>14 DEF SendRequest, ToServer, IsOpen, Close
<1>15. ASSUME NEW c \in Conns, ForwardHeader(c)
      PROVE  HostentOwn' /\ RightServer'
  BY <1>15 DEF ForwardHeader, ToServer, IsOpen, Close
<1>16. ASSUME NEW c \in Conns, HeadersSent(c)
      PROVE  HostentOwn' /\ RightServer'
  BY <1>16 DEF HeadersSent
<1>17. ASSUME NEW c \in Conns, ReadStatus(c)
      PROVE  HostentOwn' /\ RightServer'
  BY <1>17 DEF ReadStatus
<1>18. ASSUME NEW c \in Conns, AppendHeader(c)
      PROVE  HostentOwn' /\ RightServer'
  BY <1>18 DEF AppendHeader
<1>19. ASSUME NEW c \in Conns, HeaderOverflows(c)
      PROVE  HostentOwn' /\ RightServer'
  BY <1>19 DEF HeaderOverflows
<1>20. ASSUME NEW c \in Conns, SendHeader(c)
      PROVE  HostentOwn' /\ RightServer'
  BY <1>20 DEF SendHeader
<1>21. ASSUME NEW c \in Conns, CopyBlock(c)
      PROVE  HostentOwn' /\ RightServer'
  BY <1>21 DEF CopyBlock
<1>22. ASSUME NEW c \in Conns, BodyEnds(c)
      PROVE  HostentOwn' /\ RightServer'
  BY <1>22 DEF BodyEnds
<1>23. ASSUME NEW c \in Conns, CloseServer(c)
      PROVE  HostentOwn' /\ RightServer'
  BY <1>23 DEF CloseServer, Close
<1>24. ASSUME NEW c \in Conns, Time(c)
      PROVE  HostentOwn' /\ RightServer'
  BY <1>24 DEF Time
<1>25. ASSUME NEW c \in Conns, Localtime(c)
      PROVE  HostentOwn' /\ RightServer'
  BY <1>25 DEF Localtime
<1>33. ASSUME NEW c \in Conns, StrftimeDate(c)
      PROVE  HostentOwn' /\ RightServer'
  BY <1>33 DEF StrftimeDate
<1>34. ASSUME NEW c \in Conns, StrftimeClock(c)
      PROVE  HostentOwn' /\ RightServer'
  BY <1>34 DEF StrftimeClock
<1>26. ASSUME NEW c \in Conns, PLogMutex(c)
      PROVE  HostentOwn' /\ RightServer'
  BY <1>26 DEF PLogMutex
<1>27. ASSUME NEW c \in Conns, PrintLog(c)
      PROVE  HostentOwn' /\ RightServer'
  BY <1>27 DEF PrintLog
<1>28. ASSUME NEW c \in Conns, VLogMutex(c)
      PROVE  HostentOwn' /\ RightServer'
  BY <1>28 DEF VLogMutex
<1>29. ASSUME NEW c \in Conns, CloseClient(c)
      PROVE  HostentOwn' /\ RightServer'
  BY <1>29 DEF CloseClient, Close
<1>30. ASSUME NEW c \in Conns, ClientLeaves(c)
      PROVE  HostentOwn' /\ RightServer'
  BY <1>30 DEF ClientLeaves
<1>31. CASE Tick
  BY <1>31 DEF Tick
<1>32. CASE Quiet \/ UNCHANGED vars
  BY <1>32 DEF Quiet
<1> HIDE <1>0 DEF HostentOwn, RightServer, vars
<1> QED
  BY [Next]_vars, <1>1, <1>2, <1>3, <1>4, <1>5, <1>6, <1>7, <1>8, <1>9, <1>10, <1>11, <1>12, <1>13, <1>14, <1>15, <1>16,
     <1>17, <1>18, <1>19, <1>20, <1>21, <1>22, <1>23, <1>24, <1>25, <1>26, <1>27, <1>28, <1>29, <1>30, <1>31, <1>32, <1>33, <1>34
  DEF Next, ThreadStep

\* Every step keeps descriptors and their owners together.
LEMMA DescriptorStep ==
  ASSUME TypeOK, DescriptorsOwned, OnlyOwnersHold, [Next]_vars
  PROVE  DescriptorsOwned' /\ OnlyOwnersHold'
<1>0. /\ pc \in [Conns -> Locs] /\ fds \in [Fds -> SUBSET Peers]
      /\ connfd \in [Conns -> Fds \cup {BadFd}] /\ proxyfd \in [Conns -> Fds \cup {BadFd}]
      /\ BadFd \notin Fds
  BY ProxyAssumption DEF TypeOK, BadFd, Fds
<1> USE <1>0 DEF DescriptorsOwned, OnlyOwnersHold, UsesClient, UsesServer,
            CanWrite, IsOpen, vars, netVars, sharedVars, peerVars, localVars, At, Goto
<1>1. ASSUME NEW c \in Conns, NEW q \in Requests, Accept(c, q)
      PROVE  DescriptorsOwned' /\ OnlyOwnersHold'
  <2>1. PICK f \in Fds : /\ fds[f] = {}
                         /\ fds' = [fds EXCEPT ![f] = {<<c, "client">>}]
                         /\ connfd' = [connfd EXCEPT ![c] = f]
    <3>1. Min(FreeFds) \in Fds /\ fds[Min(FreeFds)] = {}
      BY <1>1, MinFree DEF Accept, FreeFds
    <3> QED
      BY <1>1, <3>1 DEF Accept
  <2>2. /\ process = "up" /\ UNCHANGED <<proxyfd, process>>
        /\ \A d \in Conns \ {c} :
             /\ UsesClient(d)' = UsesClient(d) /\ UsesServer(d)' = UsesServer(d)
             /\ pc'[d] = pc[d] /\ connfd'[d] = connfd[d] /\ proxyfd'[d] = proxyfd[d]
    BY <1>1, <2>1 DEF Accept
  <2>3. ~UsesClient(c) /\ ~UsesServer(c) /\ pc[c] = "none"
    BY <1>1 DEF Accept
  <2>4. UsesClient(c)' /\ ~UsesServer(c)' /\ connfd'[c] = f /\ pc'[c] # "request"
    BY <1>1, <2>1 DEF Accept
  <2>5. \A g \in Fds : fds'[g] = IF g = f THEN {<<c, "client">>} ELSE fds[g]
    BY <2>1
  <2> HIDE DEF UsesClient, UsesServer
  <2>6. \A d \in Conns : /\ UsesClient(d) => connfd[d] # f
                         /\ UsesServer(d) => proxyfd[d] # f
    <3>1. SUFFICES ASSUME NEW d \in Conns
                   PROVE  /\ UsesClient(d) => connfd[d] # f
                          /\ UsesServer(d) => proxyfd[d] # f
      OBVIOUS
    <3>2. UsesClient(d) => <<d, "client">> \in fds[connfd[d]]
      BY <2>2
    <3>3. UsesServer(d) => <<d, "server">> \in fds[proxyfd[d]]
      BY <2>2
    <3> QED
      BY <2>1, <3>2, <3>3
  <2>7. DescriptorsOwned'
    BY <2>1, <2>2, <2>3, <2>4, <2>5, <2>6
  <2>8. OnlyOwnersHold'
    <3>1. SUFFICES ASSUME NEW g \in Fds, NEW d \in Conns
                   PROVE  /\ <<d, "client">> \in fds'[g] => UsesClient(d)' /\ connfd'[d] = g
                          /\ <<d, "server">> \in fds'[g] =>
                               \/ UsesServer(d)' /\ proxyfd'[d] = g
                               \/ pc'[d] = "request" /\ proxyfd'[d] = BadFd
      OBVIOUS
    <3>2. CASE d = c
      BY <2>1, <2>2, <2>3, <2>4, <2>5, <3>2
    <3>3. CASE d # c /\ g = f
      BY <2>5, <3>3
    <3>4. CASE d # c /\ g # f
      <4>1. fds'[g] = fds[g]
        BY <2>5, <3>4
      <4> QED
        BY <2>2, <3>4, <4>1
    <3> QED
      BY <3>2, <3>3, <3>4
  <2> QED
    BY <2>7, <2>8
<1>2. CASE AcceptFails
  BY <1>2 DEF AcceptFails
<1>3. ASSUME NEW c \in Conns, ReadRequestLine(c)
      PROVE  DescriptorsOwned' /\ OnlyOwnersHold'
  BY <1>3 DEF ReadRequestLine
<1>4. ASSUME NEW c \in Conns, ClientError(c)
      PROVE  DescriptorsOwned' /\ OnlyOwnersHold'
  BY <1>4 DEF ClientError
<1>5. ASSUME NEW c \in Conns, ParseUri(c)
      PROVE  DescriptorsOwned' /\ OnlyOwnersHold'
  BY <1>5 DEF ParseUri
<1>6. ASSUME NEW c \in Conns, Socket(c)
      PROVE  DescriptorsOwned' /\ OnlyOwnersHold'
  <2>1. PICK f \in Fds : /\ fds[f] = {}
                         /\ fds' = [fds EXCEPT ![f] = {<<c, "server">>}]
                         /\ proxyfd' = [proxyfd EXCEPT ![c] = f]
    <3>1. Min(FreeFds) \in Fds /\ fds[Min(FreeFds)] = {}
      BY <1>6, MinFree DEF Socket, FreeFds
    <3> QED
      BY <1>6, <3>1 DEF Socket
  <2>2. /\ process = "up" /\ UNCHANGED <<connfd, process>>
        /\ \A d \in Conns \ {c} :
             /\ UsesClient(d)' = UsesClient(d) /\ UsesServer(d)' = UsesServer(d)
             /\ pc'[d] = pc[d] /\ connfd'[d] = connfd[d] /\ proxyfd'[d] = proxyfd[d]
    BY <1>6, <2>1 DEF Socket
  <2>3. UsesClient(c) /\ ~UsesServer(c) /\ pc[c] = "socket"
    BY <1>6 DEF Socket
  <2>4. UsesClient(c)' /\ UsesServer(c)' /\ proxyfd'[c] = f /\ pc'[c] # "request"
    BY <1>6, <2>1 DEF Socket
  <2>5. \A g \in Fds : fds'[g] = IF g = f THEN {<<c, "server">>} ELSE fds[g]
    BY <2>1
  <2> HIDE DEF UsesClient, UsesServer
  <2>6. \A d \in Conns : /\ UsesClient(d) => connfd[d] # f
                         /\ UsesServer(d) => proxyfd[d] # f
    <3>1. SUFFICES ASSUME NEW d \in Conns
                   PROVE  /\ UsesClient(d) => connfd[d] # f
                          /\ UsesServer(d) => proxyfd[d] # f
      OBVIOUS
    <3>2. UsesClient(d) => <<d, "client">> \in fds[connfd[d]]
      BY <2>2
    <3>3. UsesServer(d) => <<d, "server">> \in fds[proxyfd[d]]
      BY <2>2
    <3> QED
      BY <2>1, <3>2, <3>3
  <2>7. DescriptorsOwned'
    BY <2>1, <2>2, <2>3, <2>4, <2>5, <2>6
  <2>8. OnlyOwnersHold'
    <3>1. SUFFICES ASSUME NEW g \in Fds, NEW d \in Conns
                   PROVE  /\ <<d, "client">> \in fds'[g] => UsesClient(d)' /\ connfd'[d] = g
                          /\ <<d, "server">> \in fds'[g] =>
                               \/ UsesServer(d)' /\ proxyfd'[d] = g
                               \/ pc'[d] = "request" /\ proxyfd'[d] = BadFd
      OBVIOUS
    <3>2. CASE d = c
      BY <2>1, <2>2, <2>3, <2>4, <2>5, <3>2
    <3>3. CASE d # c /\ g = f
      BY <2>5, <3>3
    <3>4. CASE d # c /\ g # f
      <4>1. fds'[g] = fds[g]
        BY <2>5, <3>4
      <4> QED
        BY <2>2, <3>4, <4>1
    <3> QED
      BY <3>2, <3>3, <3>4
  <2> QED
    BY <2>7, <2>8
<1>7. ASSUME NEW c \in Conns, SocketFails(c)
      PROVE  DescriptorsOwned' /\ OnlyOwnersHold'
  BY <1>7 DEF SocketFails
<1>8. ASSUME NEW c \in Conns, PFdMutex(c)
      PROVE  DescriptorsOwned' /\ OnlyOwnersHold'
  BY <1>8 DEF PFdMutex
<1>9. ASSUME NEW c \in Conns, Gethostbyname(c)
      PROVE  DescriptorsOwned' /\ OnlyOwnersHold'
  BY <1>9 DEF Gethostbyname
<1>10. ASSUME NEW c \in Conns, GethostbynameFails(c)
      PROVE  DescriptorsOwned' /\ OnlyOwnersHold'
  BY <1>10 DEF GethostbynameFails
<1>11. ASSUME NEW c \in Conns, CopyAddress(c)
      PROVE  DescriptorsOwned' /\ OnlyOwnersHold'
  BY <1>11 DEF CopyAddress
<1>12. ASSUME NEW c \in Conns, NEW r \in Responses, Connect(c, r)
      PROVE  DescriptorsOwned' /\ OnlyOwnersHold'
  BY <1>12 DEF Connect
<1>13. ASSUME NEW c \in Conns, ConnectFails(c)
      PROVE  DescriptorsOwned' /\ OnlyOwnersHold'
  BY <1>13 DEF ConnectFails
<1>14. ASSUME NEW c \in Conns, SendRequest(c)
      PROVE  DescriptorsOwned' /\ OnlyOwnersHold'
  BY <1>14 DEF SendRequest, ToServer, IsOpen, Close
<1>15. ASSUME NEW c \in Conns, ForwardHeader(c)
      PROVE  DescriptorsOwned' /\ OnlyOwnersHold'
  BY <1>15 DEF ForwardHeader, ToServer, IsOpen, Close
<1>16. ASSUME NEW c \in Conns, HeadersSent(c)
      PROVE  DescriptorsOwned' /\ OnlyOwnersHold'
  BY <1>16 DEF HeadersSent
<1>17. ASSUME NEW c \in Conns, ReadStatus(c)
      PROVE  DescriptorsOwned' /\ OnlyOwnersHold'
  BY <1>17 DEF ReadStatus
<1>18. ASSUME NEW c \in Conns, AppendHeader(c)
      PROVE  DescriptorsOwned' /\ OnlyOwnersHold'
  BY <1>18 DEF AppendHeader
<1>19. ASSUME NEW c \in Conns, HeaderOverflows(c)
      PROVE  DescriptorsOwned' /\ OnlyOwnersHold'
  BY <1>19 DEF HeaderOverflows
<1>20. ASSUME NEW c \in Conns, SendHeader(c)
      PROVE  DescriptorsOwned' /\ OnlyOwnersHold'
  BY <1>20 DEF SendHeader
<1>21. ASSUME NEW c \in Conns, CopyBlock(c)
      PROVE  DescriptorsOwned' /\ OnlyOwnersHold'
  BY <1>21 DEF CopyBlock
<1>22. ASSUME NEW c \in Conns, BodyEnds(c)
      PROVE  DescriptorsOwned' /\ OnlyOwnersHold'
  BY <1>22 DEF BodyEnds
<1>23. ASSUME NEW c \in Conns, CloseServer(c)
      PROVE  DescriptorsOwned' /\ OnlyOwnersHold'
  BY <1>23 DEF CloseServer, Close
<1>24. ASSUME NEW c \in Conns, Time(c)
      PROVE  DescriptorsOwned' /\ OnlyOwnersHold'
  BY <1>24 DEF Time
<1>25. ASSUME NEW c \in Conns, Localtime(c)
      PROVE  DescriptorsOwned' /\ OnlyOwnersHold'
  BY <1>25 DEF Localtime
<1>33. ASSUME NEW c \in Conns, StrftimeDate(c)
      PROVE  DescriptorsOwned' /\ OnlyOwnersHold'
  BY <1>33 DEF StrftimeDate
<1>34. ASSUME NEW c \in Conns, StrftimeClock(c)
      PROVE  DescriptorsOwned' /\ OnlyOwnersHold'
  BY <1>34 DEF StrftimeClock
<1>26. ASSUME NEW c \in Conns, PLogMutex(c)
      PROVE  DescriptorsOwned' /\ OnlyOwnersHold'
  BY <1>26 DEF PLogMutex
<1>27. ASSUME NEW c \in Conns, PrintLog(c)
      PROVE  DescriptorsOwned' /\ OnlyOwnersHold'
  BY <1>27 DEF PrintLog
<1>28. ASSUME NEW c \in Conns, VLogMutex(c)
      PROVE  DescriptorsOwned' /\ OnlyOwnersHold'
  BY <1>28 DEF VLogMutex
<1>29. ASSUME NEW c \in Conns, CloseClient(c)
      PROVE  DescriptorsOwned' /\ OnlyOwnersHold'
  BY <1>29 DEF CloseClient, Close
<1>30. ASSUME NEW c \in Conns, ClientLeaves(c)
      PROVE  DescriptorsOwned' /\ OnlyOwnersHold'
  BY <1>30 DEF ClientLeaves
<1>31. CASE Tick
  BY <1>31 DEF Tick
<1>32. CASE Quiet \/ UNCHANGED vars
  BY <1>32 DEF Quiet
<1> HIDE <1>0 DEF DescriptorsOwned, OnlyOwnersHold, vars
<1> QED
  BY [Next]_vars, <1>1, <1>2, <1>3, <1>4, <1>5, <1>6, <1>7, <1>8, <1>9, <1>10, <1>11, <1>12, <1>13, <1>14, <1>15, <1>16,
     <1>17, <1>18, <1>19, <1>20, <1>21, <1>22, <1>23, <1>24, <1>25, <1>26, <1>27, <1>28, <1>29, <1>30, <1>31, <1>32, <1>33, <1>34
  DEF Next, ThreadStep

-----------------------------------------------------------------------------

\* ProxyInv holds in every reachable state, whatever peers do, at any limit of
\* descriptors.
THEOREM Invariance == Spec => []ProxyInv
<1>1. Init => ProxyInv
  <2> SUFFICES ASSUME Init
               PROVE  ProxyInv
    OBVIOUS
  <2>1. TypeOK
    BY ProxyAssumption DEF Init, TypeOK, Locs, RequestKinds, Times, Ends
  <2>2. MutualExclusion /\ HostentOwn /\ RightServer
    BY DEF Init, MutualExclusion, Semaphore, Threads, HostentOwn, RightServer
  <2>3. DescriptorsOwned /\ OnlyOwnersHold
    BY DEF Init, DescriptorsOwned, OnlyOwnersHold, UsesClient, UsesServer
  <2> QED
    BY <2>1, <2>2, <2>3 DEF ProxyInv
<1>2. ProxyInv /\ [Next]_vars => ProxyInv'
  BY TypeStep, MutexStep, ServerStep, DescriptorStep DEF ProxyInv
<1> QED
  BY <1>1, <1>2, PTL DEF Spec

\* The semaphores exclude: no state has two threads between P and V of one.
THEOREM Exclusion == Spec => []MutualExclusion
<1>1. ProxyInv => MutualExclusion
  BY DEF ProxyInv
<1> QED
  BY <1>1, Invariance, PTL

\* No thread connects to the address another thread asked for.
THEOREM OwnAddress == Spec => []RightServer
<1>1. ProxyInv => RightServer
  BY DEF ProxyInv
<1> QED
  BY <1>1, Invariance, PTL

\* No thread uses a descriptor that was closed or handed to another.
THEOREM OwnDescriptors == Spec => []DescriptorsOwned
<1>1. ProxyInv => DescriptorsOwned
  BY DEF ProxyInv
<1> QED
  BY <1>1, Invariance, PTL

\* As long as the proxy runs, a finished thread has left no descriptor open.
THEOREM NoDescriptorLeft == Spec => []DescriptorsReclaimed
<1>1. ProxyInv => DescriptorsReclaimed
  BY DEF ProxyInv, OnlyOwnersHold, UsesClient, UsesServer, DescriptorsReclaimed
<1> QED
  BY <1>1, Invariance, PTL

\* The types of the shared state and of every thread's locals.
THEOREM TypesKept == Spec => []TypeOK
<1>1. ProxyInv => TypeOK
  BY DEF ProxyInv
<1> QED
  BY <1>1, Invariance, PTL

-----------------------------------------------------------------------------
(* Why the log is true: a thread counts a block when it reads it, its entry *)
(* is written after the body, and a time that was read once stays asked,    *)
(* since a thread asks only once.                                           *)

BodySent == {"close", "time", "localtime", "date", "clock", "p_log", "print", "v_log"}
Logged == {"v_log", "exit", "done"}
TimeKnown == {"localtime", "date", "clock", "p_log", "print"} \cup Logged

CountsSent == \A c \in Conns : got[c].body = size[c] \/ c \in gone
BodyDone == \A c \in Conns : pc[c] \in BodySent => size[c] = rsp[c].body
AsksOnce ==
  \A c \in Conns :
    /\ pc[c] \notin TimeKnown => stamp[c].read = NoTime
    /\ pc[c] = "localtime" => stamp[c].read # NoTime
StampsAsked ==
  /\ tm \in Asked \cup {NoTime}
  /\ \A c \in Conns :
       /\ pc[c] \in {"date", "clock"} => tm # NoTime
       /\ pc[c] \in {"clock", "p_log", "print"} => stamp[c].date \in Asked
       /\ pc[c] \in {"p_log", "print"} => stamp[c].clock \in Asked
EntriesFinal ==
  \A i \in DOMAIN logFile :
    LET c == logFile[i].conn IN
    /\ pc[c] \in Logged
    /\ logFile[i].size = size[c] /\ size[c] = rsp[c].body
    /\ logFile[i].date \in Asked /\ logFile[i].clock \in Asked
    /\ \A j \in DOMAIN logFile : logFile[j].conn = c => j = i
LogInv == CountsSent /\ BodyDone /\ AsksOnce /\ StampsAsked /\ EntriesFinal

\* What the clock and the log hold, and whose entries they are.
LEMMA LogTypes ==
  ASSUME TypeOK
  PROVE  /\ \A c \in Conns : got[c].body \in Int /\ size[c] \in Int /\ rsp[c].body \in Int
         /\ \A i \in DOMAIN logFile : logFile[i].conn \in Conns
<1>1. /\ size \in [Conns -> Nat] /\ got \in [Conns -> [header : BOOLEAN, body : Nat]]
      /\ rsp \in [Conns -> [headers : Nat, cut : BOOLEAN, body : Nat]]
  BY DEF TypeOK
<1>2. \A i \in DOMAIN logFile : logFile[i] \in Entries
  BY DEF TypeOK
<1>3. \A i \in DOMAIN logFile : logFile[i].conn \in Conns
  BY <1>2 DEF Entries
<1> QED
  BY <1>1, <1>3

\* A step that leaves the stamps alone leaves the times that were asked.
LEMMA SameAsked ==
  ASSUME UNCHANGED stamp
  PROVE  Asked' = Asked
BY DEF Asked

\* A step that only moves one thread keeps the invariant unless it moves the
\* thread behind a part of its work that is not done.
LEMMA MoveKeepsLog ==
  ASSUME TypeOK, LogInv, NEW c \in Conns, NEW l,
         UNCHANGED <<tm, logFile, rsp, got, size, stamp>>, gone \subseteq gone',
         pc' = pc \/ pc' = [pc EXCEPT ![c] = l],
         pc[c] \in Logged => l \in Logged,
         pc[c] \in TimeKnown => l \in TimeKnown,
         l \in BodySent => pc[c] \in BodySent \/ size[c] = rsp[c].body,
         l \notin {"localtime", "date", "clock"},
         l \in {"p_log", "print"} => pc[c] \in {"p_log", "print"}
  PROVE  LogInv'
<1>1. \A d \in Conns : pc'[d] = pc[d] \/ (d = c /\ pc'[d] = l)
  BY DEF TypeOK
<1>2. CountsSent'
  BY DEF LogInv, CountsSent
<1>3. BodyDone'
  BY <1>1 DEF LogInv, BodyDone
<1>4. AsksOnce'
  BY <1>1 DEF LogInv, AsksOnce
<1>5. StampsAsked'
  BY <1>1, SameAsked DEF LogInv, StampsAsked
<1>6. EntriesFinal'
  BY <1>1, LogTypes, SameAsked DEF LogInv, EntriesFinal
<1> QED
  BY <1>2, <1>3, <1>4, <1>5, <1>6 DEF LogInv

\* The steps before the response.
LEMMA RequestKeepsLog ==
  ASSUME TypeOK, LogInv, NEW c \in Conns,
         \/ \E q \in Requests : Accept(c, q)
         \/ ReadRequestLine(c) \/ ClientError(c) \/ ParseUri(c) \/ Socket(c) \/ SocketFails(c)
         \/ PFdMutex(c) \/ Gethostbyname(c) \/ GethostbynameFails(c) \/ CopyAddress(c)
         \/ ConnectFails(c) \/ SendRequest(c) \/ ForwardHeader(c) \/ HeadersSent(c)
  PROVE  LogInv'
<1>1. /\ UNCHANGED <<tm, logFile, rsp, got, size, stamp, gone>>
      /\ pc[c] \in {"none", "readline", "error", "parse", "socket", "p_fd", "gethost", "copy",
                    "connect", "request", "headers"}
  BY DEF Accept, ReadRequestLine, ClientError, ParseUri, Socket, SocketFails, PFdMutex, Gethostbyname,
         GethostbynameFails, CopyAddress, ConnectFails, SendRequest, ForwardHeader, HeadersSent,
         At, netVars, sharedVars, peerVars, localVars
<1>2. PICK l \in {"readline", "error", "exit", "parse", "socket", "p_fd", "gethost", "copy", "connect",
                  "request", "headers", "status"} :
        pc' = pc \/ pc' = [pc EXCEPT ![c] = l]
  BY DEF Accept, ReadRequestLine, ClientError, ParseUri, Socket, SocketFails, PFdMutex, Gethostbyname,
         GethostbynameFails, CopyAddress, ConnectFails, SendRequest, ForwardHeader, HeadersSent, ToServer, Goto, Close
<1> QED
  BY <1>1, <1>2, MoveKeepsLog DEF Logged, BodySent, TimeKnown

\* The steps of the response that move no data, and the two ends.
LEMMA ResponseKeepsLog ==
  ASSUME TypeOK, LogInv, NEW c \in Conns,
         \/ ReadStatus(c) \/ HeaderOverflows(c) \/ SendHeader(c) \/ BodyEnds(c) \/ CloseServer(c)
         \/ PLogMutex(c) \/ VLogMutex(c) \/ CloseClient(c)
  PROVE  LogInv'
<1>1. UNCHANGED <<tm, logFile, rsp, got, size, stamp, gone>>
  BY DEF ReadStatus, HeaderOverflows, SendHeader, BodyEnds, CloseServer, PLogMutex, VLogMutex, CloseClient,
         netVars, sharedVars, peerVars, localVars
<1>2. CASE ReadStatus(c) \/ HeaderOverflows(c) \/ SendHeader(c)
  <2>1. PICK l \in {"response", "reply", "body"} : pc' = pc \/ pc' = [pc EXCEPT ![c] = l]
    BY <1>2 DEF ReadStatus, HeaderOverflows, SendHeader, Goto
  <2>2. pc[c] \in {"status", "response", "reply"}
    BY <1>2 DEF ReadStatus, HeaderOverflows, SendHeader, At
  <2> QED
    BY <1>1, <2>1, <2>2, MoveKeepsLog DEF Logged, BodySent, TimeKnown
<1>3. CASE BodyEnds(c)
  <2>1. pc[c] = "body" /\ size[c] = rsp[c].body /\ pc' = [pc EXCEPT ![c] = "close"]
    BY <1>3 DEF BodyEnds, At, Goto
  <2> DEFINE l == "close"
  <2>2. /\ pc' = [pc EXCEPT ![c] = l] /\ size[c] = rsp[c].body
        /\ pc[c] \notin TimeKnown /\ pc[c] \notin Logged
        /\ l \notin {"localtime", "date", "clock", "p_log", "print"}
    BY <2>1 DEF Logged, TimeKnown
  <2> HIDE DEF l
  <2> QED
    BY <1>1, <2>2, MoveKeepsLog
<1>4. CASE CloseServer(c)
  <2>1. pc[c] = "close" /\ (pc' = pc \/ pc' = [pc EXCEPT ![c] = "time"])
    BY <1>4 DEF CloseServer, Close, At, Goto
  <2> QED
    BY <1>1, <2>1, MoveKeepsLog DEF Logged, BodySent, TimeKnown
<1>5. CASE PLogMutex(c)
  <2>1. pc[c] = "p_log" /\ pc' = [pc EXCEPT ![c] = "print"]
    BY <1>5 DEF PLogMutex, At, Goto
  <2> QED
    BY <1>1, <2>1, MoveKeepsLog DEF Logged, BodySent, TimeKnown
<1>6. CASE VLogMutex(c)
  <2>1. pc[c] = "v_log" /\ pc' = [pc EXCEPT ![c] = "exit"]
    BY <1>6 DEF VLogMutex, At, Goto
  <2>2. /\ pc[c] \in Logged /\ pc[c] \in TimeKnown
        /\ "exit" \in Logged /\ "exit" \in TimeKnown /\ "exit" \notin BodySent
    BY <2>1 DEF Logged, TimeKnown, BodySent
  <2> QED
    BY <1>1, <2>1, <2>2, MoveKeepsLog
<1>7. CASE CloseClient(c)
  <2>1. pc[c] = "exit" /\ (pc' = pc \/ pc' = [pc EXCEPT ![c] = "done"])
    BY <1>7 DEF CloseClient, Close, At, Goto
  <2> QED
    BY <1>1, <2>1, MoveKeepsLog DEF Logged, BodySent, TimeKnown
<1> QED
  BY <1>2, <1>3, <1>4, <1>5, <1>6, <1>7

\* The server answers, and its header is read, before anything is counted.
LEMMA HeaderKeepsLog ==
  ASSUME TypeOK, LogInv, NEW c \in Conns,
         (\E r \in Responses : Connect(c, r)) \/ AppendHeader(c)
  PROVE  LogInv'
<1>1. /\ UNCHANGED <<tm, logFile, got, size, stamp, gone>>
      /\ pc[c] \in {"connect", "response"}
      /\ \A d \in Conns : d # c => pc'[d] = pc[d] /\ rsp'[d] = rsp[d]
      /\ pc'[c] \in {"request", "reply", "response"}
  BY DEF Connect, AppendHeader, At, Goto, netVars, sharedVars, peerVars, localVars, TypeOK
<1>2. CountsSent' /\ BodyDone'
  BY <1>1 DEF LogInv, CountsSent, BodyDone, BodySent
<1>3. AsksOnce' /\ StampsAsked'
  BY <1>1, SameAsked DEF LogInv, AsksOnce, StampsAsked, TimeKnown, Logged
<1>4. EntriesFinal'
  BY <1>1, LogTypes, SameAsked DEF LogInv, EntriesFinal, Logged
<1> QED
  BY <1>2, <1>3, <1>4 DEF LogInv

\* A block that is counted was sent, or its client is gone: its descriptor is
\* open.
LEMMA BlockKeepsLog ==
  ASSUME ProxyInv, LogInv, NEW c \in Conns, CopyBlock(c)
  PROVE  LogInv'
<1>0. TypeOK
  BY DEF ProxyInv
<1>1. /\ UNCHANGED <<tm, logFile, rsp, stamp, gone, pc>>
      /\ pc[c] = "body" /\ process = "up"
      /\ size' = [size EXCEPT ![c] = @ + 1]
  BY DEF CopyBlock, At, netVars, sharedVars, peerVars, localVars
<1>2. ASSUME CanWrite(c)
      PROVE  CountsSent'
  <2>1. got' = [got EXCEPT ![c].body = @ + 1]
    BY <1>2 DEF CopyBlock
  <2>2. ASSUME NEW d \in Conns
        PROVE  got'[d].body = size'[d] \/ d \in gone'
    <3>1. got[d].body = size[d] \/ d \in gone
      BY DEF LogInv, CountsSent
    <3>2. size'[d] = IF d = c THEN size[c] + 1 ELSE size[d]
      BY <1>0, <1>1 DEF TypeOK
    <3>3. got'[d].body = IF d = c THEN got[c].body + 1 ELSE got[d].body
      BY <1>0, <2>1 DEF TypeOK
    <3> QED
      BY <1>1, <3>1, <3>2, <3>3
  <2> QED
    BY <2>2 DEF CountsSent
<1>3. ASSUME ~CanWrite(c)
      PROVE  CountsSent'
  <2>1. c \in gone
    BY <1>1, <1>3 DEF ProxyInv, DescriptorsOwned, UsesClient, CanWrite, IsOpen
  <2>2. got' = got
    BY <1>3 DEF CopyBlock
  <2> QED
    BY <1>0, <1>1, <2>1, <2>2 DEF LogInv, CountsSent, TypeOK
<1>4. \A d \in Conns : d # c => size'[d] = size[d]
  BY <1>0, <1>1 DEF TypeOK
<1>5. BodyDone'
  BY <1>1, <1>4 DEF LogInv, BodyDone, BodySent
<1>6. AsksOnce' /\ StampsAsked'
  BY <1>1, SameAsked DEF LogInv, AsksOnce, StampsAsked
<1>7. EntriesFinal'
  BY <1>0, <1>1, <1>4, LogTypes, SameAsked DEF LogInv, EntriesFinal, Logged
<1>8. CountsSent'
  BY <1>2, <1>3
<1> QED
  BY <1>5, <1>6, <1>7, <1>8 DEF LogInv

\* A thread reads the clock for the first time: nothing that was asked is lost.
LEMMA TimeKeepsLog ==
  ASSUME TypeOK, LogInv, NEW c \in Conns, Time(c)
  PROVE  LogInv'
<1>1. /\ UNCHANGED <<tm, logFile, rsp, got, size, gone>>
      /\ pc[c] = "time" /\ pc' = [pc EXCEPT ![c] = "localtime"]
      /\ stamp' = [stamp EXCEPT ![c].read = now]
  BY DEF Time, At, Goto, netVars, sharedVars, peerVars, localVars
<1>2. /\ pc'[c] = "localtime" /\ \A d \in Conns : d # c => pc'[d] = pc[d]
      /\ stamp'[c].read = now
      /\ \A d \in Conns : /\ d # c => stamp'[d] = stamp[d]
                          /\ stamp'[d].date = stamp[d].date /\ stamp'[d].clock = stamp[d].clock
  BY <1>1 DEF TypeOK
<1>3. stamp[c].read = NoTime /\ now # NoTime
  <2>1. now \in 0..MaxTime
    BY DEF TypeOK
  <2>2. now # NoTime
    BY <2>1, ProxyAssumption DEF NoTime
  <2>3. stamp[c].read = NoTime
    BY <1>1 DEF LogInv, AsksOnce, TimeKnown, Logged
  <2> QED
    BY <2>2, <2>3
<1>4. Asked \subseteq Asked'
  BY <1>2, <1>3 DEF Asked
<1>5. CountsSent' /\ BodyDone'
  BY <1>1, <1>2 DEF LogInv, CountsSent, BodyDone, BodySent
<1>6. AsksOnce'
  BY <1>2, <1>3 DEF LogInv, AsksOnce, TimeKnown
<1>7. StampsAsked'
  BY <1>1, <1>2, <1>4 DEF LogInv, StampsAsked
<1>8. EntriesFinal'
  BY <1>1, <1>2, <1>4, LogTypes DEF LogInv, EntriesFinal, Logged
<1> QED
  BY <1>5, <1>6, <1>7, <1>8 DEF LogInv

\* localtime hands its thread's time to every thread that reads the buffer.
LEMMA LocaltimeKeepsLog ==
  ASSUME TypeOK, LogInv, NEW c \in Conns, Localtime(c)
  PROVE  LogInv'
<1>1. /\ UNCHANGED <<logFile, rsp, got, size, gone, stamp>>
      /\ pc[c] = "localtime" /\ tm' = stamp[c].read
      /\ pc'[c] = "date" /\ \A d \in Conns : d # c => pc'[d] = pc[d]
  BY DEF Localtime, At, Goto, netVars, peerVars, localVars, TypeOK
<1>2. tm' \in Asked /\ tm' # NoTime
  BY <1>1 DEF LogInv, AsksOnce, Asked
<1>3. CountsSent' /\ BodyDone'
  BY <1>1 DEF LogInv, CountsSent, BodyDone, BodySent
<1>4. AsksOnce' /\ StampsAsked'
  BY <1>1, <1>2, SameAsked DEF LogInv, AsksOnce, StampsAsked, TimeKnown
<1>5. EntriesFinal'
  BY <1>1, LogTypes, SameAsked DEF LogInv, EntriesFinal, Logged
<1> QED
  BY <1>3, <1>4, <1>5 DEF LogInv

\* Whatever strftime finds in the buffer was asked: its own thread filled it.
LEMMA StrftimeKeepsLog ==
  ASSUME TypeOK, LogInv, NEW c \in Conns, StrftimeDate(c) \/ StrftimeClock(c)
  PROVE  LogInv'
<1>1. /\ UNCHANGED <<tm, logFile, rsp, got, size, gone>>
      /\ pc[c] \in {"date", "clock"} /\ pc'[c] \in {"clock", "p_log"}
      /\ \A d \in Conns : /\ d # c => pc'[d] = pc[d] /\ stamp'[d] = stamp[d]
                          /\ stamp'[d].read = stamp[d].read
  <2>1. CASE StrftimeDate(c)
    BY <2>1 DEF StrftimeDate, At, Goto, netVars, sharedVars, peerVars, TypeOK
  <2>2. CASE StrftimeClock(c)
    BY <2>2 DEF StrftimeClock, At, Goto, netVars, sharedVars, peerVars, TypeOK
  <2> QED
    BY <2>1, <2>2
<1>2. Asked' = Asked
  BY <1>1 DEF Asked
<1>3. tm \in Asked
  BY <1>1 DEF LogInv, StampsAsked
<1>4. CountsSent' /\ BodyDone' /\ AsksOnce'
  BY <1>1 DEF LogInv, CountsSent, BodyDone, BodySent, AsksOnce, TimeKnown
<1>5. /\ stamp'[c].date \in Asked
      /\ pc'[c] = "p_log" => stamp'[c].clock \in Asked
  <2>1. CASE StrftimeDate(c)
    BY <1>3, <2>1 DEF StrftimeDate, Goto, TypeOK
  <2>2. CASE StrftimeClock(c)
    BY <1>3, <2>2 DEF StrftimeClock, At, TypeOK, LogInv, StampsAsked
  <2> QED
    BY <2>1, <2>2
<1>6. StampsAsked'
  BY <1>1, <1>2, <1>3, <1>5 DEF LogInv, StampsAsked
<1>7. EntriesFinal'
  BY <1>1, <1>2, LogTypes DEF LogInv, EntriesFinal, Logged
<1> QED
  BY <1>4, <1>6, <1>7 DEF LogInv

\* The entry is written when the thread has counted all it read, and no other
\* entry is its own.
LEMMA PrintKeepsLog ==
  ASSUME TypeOK, LogInv, NEW c \in Conns, PrintLog(c)
  PROVE  LogInv'
<1> DEFINE entry == [conn |-> c, size |-> size[c], date |-> stamp[c].date, clock |-> stamp[c].clock]
<1>1. /\ UNCHANGED <<tm, rsp, got, size, stamp, gone>>
      /\ pc[c] = "print" /\ pc' = [pc EXCEPT ![c] = "v_log"]
      /\ logFile' = Append(logFile, entry)
  BY DEF PrintLog, At, Goto, netVars, sharedVars, peerVars, localVars
<1>2. \A d \in Conns : pc'[d] = IF d = c THEN "v_log" ELSE pc[d]
  BY <1>1 DEF TypeOK
<1>3. CountsSent' /\ BodyDone'
  BY <1>1, <1>2 DEF LogInv, CountsSent, BodyDone, BodySent
<1>4. AsksOnce' /\ StampsAsked'
  BY <1>1, <1>2, SameAsked DEF LogInv, AsksOnce, StampsAsked, TimeKnown, Logged
<1>5. /\ logFile \in Seq(Entries)
      /\ \A i \in DOMAIN logFile : pc[logFile[i].conn] # "print"
  BY DEF TypeOK, LogInv, EntriesFinal, Logged
<1>6. /\ DOMAIN logFile' = DOMAIN logFile \cup {Len(logFile) + 1}
      /\ logFile'[Len(logFile) + 1] = entry
      /\ \A i \in DOMAIN logFile : logFile'[i] = logFile[i] /\ i # Len(logFile) + 1
  <2> HIDE DEF entry
  <2> QED
    BY <1>1, <1>5
<1>7. size[c] = rsp[c].body /\ stamp[c].date \in Asked /\ stamp[c].clock \in Asked
  BY <1>1 DEF LogInv, BodyDone, BodySent, StampsAsked
<1>8. EntriesFinal'
  <2> SUFFICES ASSUME NEW i \in DOMAIN logFile'
               PROVE  LET d == logFile'[i].conn IN
                      /\ pc'[d] \in Logged
                      /\ logFile'[i].size = size'[d] /\ size'[d] = rsp'[d].body
                      /\ logFile'[i].date \in Asked' /\ logFile'[i].clock \in Asked'
                      /\ \A j \in DOMAIN logFile' : logFile'[j].conn = d => j = i
    BY DEF EntriesFinal
  <2>1. CASE i = Len(logFile) + 1
    <3>1. \A j \in DOMAIN logFile : logFile'[j].conn # c
      BY <1>1, <1>5, <1>6
    <3> QED
      BY <1>1, <1>2, <1>6, <1>7, <2>1, <3>1, SameAsked DEF Logged
  <2>2. CASE i \in DOMAIN logFile
    <3>1. logFile[i].conn \in Conns /\ logFile[i].conn # c
      BY <1>1, <1>5, <2>2, LogTypes
    <3>2. \A j \in DOMAIN logFile' : logFile'[j].conn = logFile[i].conn => j = i
      BY <1>6, <2>2, <3>1 DEF LogInv, EntriesFinal
    <3> QED
      BY <1>1, <1>2, <1>6, <2>2, <3>1, <3>2, SameAsked DEF LogInv, EntriesFinal, Logged
  <2> QED
    BY <1>6, <2>1, <2>2
<1> QED
  BY <1>3, <1>4, <1>8 DEF LogInv

\* The steps that are no thread's.
LEMMA OthersKeepLog ==
  ASSUME TypeOK, LogInv,
         \/ AcceptFails \/ Tick \/ UNCHANGED vars
         \/ \E c \in Conns : ClientLeaves(c)
  PROVE  LogInv'
<1>1. UNCHANGED <<tm, logFile, rsp, got, size, stamp, pc>> /\ gone \subseteq gone'
  BY DEF AcceptFails, Tick, ClientLeaves, vars, netVars, sharedVars, peerVars, localVars
<1>2. CountsSent' /\ BodyDone'
  BY <1>1 DEF LogInv, CountsSent, BodyDone
<1>3. AsksOnce' /\ StampsAsked'
  BY <1>1, SameAsked DEF LogInv, AsksOnce, StampsAsked
<1>4. EntriesFinal'
  BY <1>1, SameAsked DEF LogInv, EntriesFinal
<1> QED
  BY <1>2, <1>3, <1>4 DEF LogInv

\* The log has one entry at most for a connection; it gives the size of the
\* server's response, and a date and a clock that threads asked for.
THEOREM LogIsTrue == Spec => []LogTrue
<1>1. Init => LogInv
  BY DEF Init, LogInv, CountsSent, BodyDone, BodySent, AsksOnce, StampsAsked, EntriesFinal
<1>2. ProxyInv /\ LogInv /\ [Next]_vars => LogInv'
  <2> SUFFICES ASSUME ProxyInv, LogInv, [Next]_vars
               PROVE  LogInv'
    OBVIOUS
  <2>1. TypeOK
    BY DEF ProxyInv
  <2>2. ASSUME NEW c \in Conns, ThreadStep(c) \/ \E q \in Requests : Accept(c, q)
        PROVE  LogInv'
    BY <2>1, <2>2, RequestKeepsLog, ResponseKeepsLog, HeaderKeepsLog, BlockKeepsLog, TimeKeepsLog,
       LocaltimeKeepsLog, StrftimeKeepsLog, PrintKeepsLog
    DEF ThreadStep
  <2>3. ASSUME \/ AcceptFails \/ Tick \/ Quiet \/ UNCHANGED vars
               \/ \E c \in Conns : ClientLeaves(c)
        PROVE  LogInv'
    BY <2>1, <2>3, OthersKeepLog DEF Quiet
  <2> QED
    BY <2>2, <2>3 DEF Next
<1>3. ProxyInv /\ LogInv => LogTrue
  <2> SUFFICES ASSUME ProxyInv, LogInv, NEW i \in DOMAIN logFile
               PROVE  LET c == logFile[i].conn IN
                      /\ \A j \in DOMAIN logFile : logFile[j].conn = c => j = i
                      /\ logFile[i].size = rsp[c].body
                      /\ got[c].body = logFile[i].size \/ c \in gone
                      /\ logFile[i].date \in Asked /\ logFile[i].clock \in Asked
    BY DEF LogTrue
  <2>1. logFile[i].conn \in Conns
    BY LogTypes DEF ProxyInv
  <2> QED
    BY <2>1 DEF LogInv, EntriesFinal, CountsSent
<1> QED
  BY <1>1, <1>2, <1>3, Invariance, PTL DEF Spec

=============================================================================
