--------------------------- MODULE CommandServerProofs ---------------------------
(* Proofs about CommandServer, for any number of servers at one path, any number   *)
(* of clients, any length limit and any number of starts, crashes and failures,    *)
(* and about CommandParser, for any vocabulary, any numbers and any input.         *)
EXTENDS CommandServer, CommandParser, FiniteSetTheorems, WellFoundedInduction, TLAPS

Down == {"request", "shutdown", "join"}
Alive == {"loop", "poll", "receive", "respond"}

\* Where the path, the callers and the threads can be.
Shape ==
    /\ path \in Servers \cup {"none", "stale", "foreign"}
    /\ running_ \in [Servers -> BOOLEAN]
    /\ owns_socket_path_ \in [Servers -> BOOLEAN]
    /\ listener_ \in [Servers -> {"none", "listening", "shut"}]
    /\ pc \in [Servers -> {"idle", "unlink", "bind", "listen", "refused", "raced", "failed",
                           "request", "shutdown", "join", "remove"}]
    /\ thread \in [Servers -> {"none", "loop", "poll", "receive", "respond", "exited"}]

\* How start() and stop() keep the listener, the thread and the socket file together.
Together ==
    \A s \in Servers :
        /\ running_[s] => pc[s] = "idle" /\ listener_[s] = "listening"
        /\ pc[s] \in {"request", "shutdown"} => listener_[s] = "listening"
        /\ pc[s] = "join" => listener_[s] = "shut"
        /\ thread[s] \in Alive => running_[s] \/ pc[s] \in Down
        /\ path = s => owns_socket_path_[s]
        /\ owns_socket_path_[s] => running_[s] \/ pc[s] \in Down \cup {"listen", "remove"}

LifecycleInv == Shape /\ Together

\* What makes NoDeadSocket and ThreadHasListener true.
LEMMA LifecycleSuffices == LifecycleInv => ThreadHasListener /\ NoDeadSocket
  BY DEF LifecycleInv, Shape, Together, Alive, Down, ThreadHasListener, NoDeadSocket

LEMMA LifecycleInit == Init => LifecycleInv
  BY ServersAssumption DEF Init, LifecycleInv, Shape, Together, Alive, Down

\* The steps of start().
LEMMA LifecycleStart ==
  ASSUME LifecycleInv, NEW s \in Servers, Start(s) \/ StartStep(s)
  PROVE  LifecycleInv'
  <1> USE ServersAssumption DEF LifecycleInv, Shape, Together, Alive, Down, Goto
  <1>1. CASE Start(s)
    BY <1>1 DEF Start, Found, pathVars, service, threadVars
  <1>2. CASE StartUnlink(s)
    BY <1>2 DEF StartUnlink, counts, service, threadVars
  <1>3. CASE StartBind(s)
    <2>1. CASE path = "none"
      <3>1. /\ path' = s
            /\ owns_socket_path_' = [owns_socket_path_ EXCEPT ![s] = TRUE]
            /\ pc[s] = "bind" /\ pc' = [pc EXCEPT ![s] = "listen"]
            /\ UNCHANGED <<running_, listener_, thread>>
        BY <1>3, <2>1 DEF StartBind, service, threadVars
      <3>2. QED BY <3>1
    <2>2. CASE path # "none"
      BY <1>3, <2>2 DEF StartBind, service, threadVars, pathVars
    <2>3. QED BY <2>1, <2>2
  <1>4. CASE StartFails(s)
    BY <1>4 DEF StartFails, service, threadVars, pathVars
  <1>5. CASE StartListen(s)
    BY <1>5 DEF StartListen, pathVars
  <1>6. CASE StartListenFails(s)
    BY <1>6 DEF StartListenFails, service, threadVars
  <1>7. CASE StartReturnsFalse(s)
    BY <1>7 DEF StartReturnsFalse, service, threadVars, pathVars
  <1>8. QED BY <1>1, <1>2, <1>3, <1>4, <1>5, <1>6, <1>7 DEF StartStep

\* The steps of stop(), and a crash.
LEMMA LifecycleStop ==
  ASSUME LifecycleInv, NEW s \in Servers, Stop(s) \/ StopStep(s) \/ Crash(s)
  PROVE  LifecycleInv'
  <1> USE ServersAssumption DEF LifecycleInv, Shape, Together, Alive, Down, Goto
  <1>1. CASE Stop(s)
    BY <1>1 DEF Stop, pathVars, service, threadVars
  <1>2. CASE StopRequest(s)
    BY <1>2 DEF StopRequest, pathVars, service, threadVars
  <1>3. CASE StopShutdown(s)
    BY <1>3 DEF StopShutdown, pathVars, service, threadVars
  <1>4. CASE StopJoin(s)
    BY <1>4 DEF StopJoin, Joined, pathVars
  <1>5. CASE StopRemove(s)
    BY <1>5 DEF StopRemove, AfterStop, service, threadVars
  <1>6. CASE Crash(s)
    BY <1>6 DEF Crash
  <1>7. QED BY <1>1, <1>2, <1>3, <1>4, <1>5, <1>6 DEF StopStep

\* The accept thread moves only while it is alive.
LEMMA LifecycleThread ==
  ASSUME LifecycleInv, NEW s \in Servers, ThreadStep(s)
  PROVE  LifecycleInv'
  <1>1. /\ thread[s] \in Alive
        /\ \E at \in Alive \cup {"exited"} : thread' = [thread EXCEPT ![s] = at]
        /\ UNCHANGED <<pathVars, lifecycle>>
    <2> USE DEF Alive
    <2>1. CASE Loop(s) BY <2>1 DEF Loop
    <2>2. CASE PollNothing(s) BY <2>2 DEF PollNothing
    <2>3. CASE Accept(s) BY <2>3 DEF Accept
    <2>4. CASE ReceiveTimeout(s) BY <2>4 DEF ReceiveTimeout, Timeout, Close
    <2>5. CASE Receive(s) BY <2>5 DEF Receive
    <2>6. CASE ReceiveEnd(s) BY <2>6 DEF ReceiveEnd
    <2>7. CASE Respond(s) BY <2>7 DEF Respond, Close
    <2>8. QED BY <2>1, <2>2, <2>3, <2>4, <2>5, <2>6, <2>7 DEF ThreadStep
  <1>2. QED BY <1>1 DEF LifecycleInv, Shape, Together, Alive, Down, pathVars, lifecycle

\* Clients touch nothing of this.
LEMMA LifecycleClient ==
  ASSUME LifecycleInv, NEW c \in Clients, ClientStep(c) \/ Die(c)
  PROVE  LifecycleInv'
  <1>1. UNCHANGED <<pathVars, lifecycle, thread>>
    BY DEF ClientStep, Connect, Send, Finish, Die, pathVars, lifecycle, threadVars
  <1>2. QED BY <1>1 DEF LifecycleInv, Shape, Together, pathVars, lifecycle

LEMMA LifecycleNext == LifecycleInv /\ [Next]_vars => LifecycleInv'
  <1> SUFFICES ASSUME LifecycleInv, [Next]_vars PROVE LifecycleInv'
    OBVIOUS
  <1>1. CASE UNCHANGED vars
    BY <1>1 DEF vars, pathVars, lifecycle, service, threadVars, LifecycleInv, Shape, Together
  <1>2. CASE Next
    BY <1>2, LifecycleStart, LifecycleStop, LifecycleThread, LifecycleClient DEF Next
  <1>3. QED BY <1>1, <1>2

\* Whatever servers share the path and whenever they are started, stopped or killed: the
\* accept thread never uses a listener that stop() has closed.
THEOREM ListenerOutlivesThread == Spec => []ThreadHasListener
  BY LifecycleInit, LifecycleNext, LifecycleSuffices, PTL DEF Spec

\* No start() that fails and no stop() leaves its socket file behind.
THEOREM SocketsRemoved == Spec => []NoDeadSocket
  BY LifecycleInit, LifecycleNext, LifecycleSuffices, PTL DEF Spec

---------------------------------------------------------------------------------
(* The commands the handler is given.                                              *)

Bytes ==
    /\ left \in [Clients -> Nat] /\ inflight \in [Clients -> Nat]
    /\ executed \in [Clients -> Nat] /\ used \in [Servers -> 0 .. BufferSize]
    /\ backlog \in [Servers -> Seq(Clients)]
    /\ cpc \in [Clients -> {"idle", "sending", "waiting", "done", "died"}]
    /\ serving \in [Servers -> Clients \cup {NoClient}]
    /\ thread \in [Servers -> {"none", "loop", "poll", "receive", "respond", "exited"}]

Whole(c) == left[c] = 0 /\ inflight[c] = 0

\* A client that waits has sent everything; and when a server is about to answer one
\* that is still there, it has all of its command or more than a command may have.
Complete ==
    /\ \A c \in Clients : cpc[c] = "waiting" => left[c] = 0
    /\ \A s \in Servers : thread[s] \in {"receive", "respond"} => serving[s] \in Clients
    /\ \A s \in Servers :
          thread[s] = "respond" /\ used[s] <= kMaximumCommandLength /\ cpc[serving[s]] # "died"
              => Whole(serving[s])

CommandInv == Bytes /\ Complete /\ WholeCommands

LEMMA CommandInit == Init => CommandInv
  BY LengthAssumption DEF Init, BufferSize, CommandInv, Bytes, Complete, WholeCommands

\* Steps of the owners: no thread gets a connection, and no byte moves.
LEMMA CommandOwner ==
  ASSUME CommandInv, NEW s \in Servers,
         Start(s) \/ StartStep(s) \/ Stop(s) \/ StopStep(s) \/ Crash(s)
  PROVE  CommandInv'
  <1>1. /\ UNCHANGED <<left, inflight, executed, cpc>>
        /\ \/ UNCHANGED <<thread, serving, used>>
           \/ \E at \in {"none", "loop"} :
                 thread' = [thread EXCEPT ![s] = at] /\ UNCHANGED <<serving, used>>
           \/ /\ thread' = [thread EXCEPT ![s] = "none"]
              /\ serving' = [serving EXCEPT ![s] = NoClient]
              /\ used' = [used EXCEPT ![s] = 0]
        /\ UNCHANGED backlog \/ backlog' = [backlog EXCEPT ![s] = <<>>]
    <2> USE DEF service, threadVars, clientVars
    <2>1. CASE Start(s) BY <2>1 DEF Start
    <2>2. CASE StartUnlink(s) BY <2>2 DEF StartUnlink
    <2>3. CASE StartBind(s) BY <2>3 DEF StartBind
    <2>4. CASE StartFails(s) BY <2>4 DEF StartFails
    <2>5. CASE StartListen(s) BY <2>5 DEF StartListen
    <2>6. CASE StartListenFails(s) BY <2>6 DEF StartListenFails
    <2>7. CASE StartReturnsFalse(s) BY <2>7 DEF StartReturnsFalse
    <2>8. CASE Stop(s) BY <2>8 DEF Stop
    <2>9. CASE StopRequest(s) BY <2>9 DEF StopRequest
    <2>10. CASE StopShutdown(s) BY <2>10 DEF StopShutdown
    <2>11. CASE StopJoin(s) BY <2>11 DEF StopJoin, Joined
    <2>12. CASE StopRemove(s) BY <2>12 DEF StopRemove
    <2>13. CASE Crash(s) BY <2>13 DEF Crash
    <2>14. QED BY <2>1, <2>2, <2>3, <2>4, <2>5, <2>6, <2>7, <2>8, <2>9, <2>10, <2>11, <2>12, <2>13
               DEF StartStep, StopStep
  <1>2. 0 \in 0 .. BufferSize BY LengthAssumption DEF BufferSize
  <1>3. Bytes'
    <2>1. backlog' \in [Servers -> Seq(Clients)]
      <3>1. CASE UNCHANGED backlog BY <3>1 DEF CommandInv, Bytes
      <3>2. CASE backlog' = [backlog EXCEPT ![s] = <<>>] BY <3>2 DEF CommandInv, Bytes
      <3>3. QED BY <1>1, <3>1, <3>2
    <2>2. /\ used' \in [Servers -> 0 .. BufferSize]
          /\ serving' \in [Servers -> Clients \cup {NoClient}]
      <3>1. CASE UNCHANGED <<serving, used>> BY <3>1 DEF CommandInv, Bytes
      <3>2. CASE /\ serving' = [serving EXCEPT ![s] = NoClient]
                 /\ used' = [used EXCEPT ![s] = 0]
        BY <1>2, <3>2 DEF CommandInv, Bytes
      <3>3. QED BY <1>1, <3>1, <3>2
    <2>3. thread' \in [Servers -> {"none", "loop", "poll", "receive", "respond", "exited"}]
      <3>1. CASE UNCHANGED thread BY <3>1 DEF CommandInv, Bytes
      <3>2. CASE \E at \in {"none", "loop"} : thread' = [thread EXCEPT ![s] = at]
        BY <3>2 DEF CommandInv, Bytes
      <3>3. QED BY <1>1, <3>1, <3>2
    <2>4. QED BY <1>1, <2>1, <2>2, <2>3 DEF CommandInv, Bytes
  <1>4. Complete'
    <2>1. \A c \in Clients : (cpc[c] = "waiting" => left[c] = 0)'
      BY <1>1 DEF CommandInv, Complete
    <2>2. \A r \in Servers : (thread[r] \in {"receive", "respond"} => serving[r] \in Clients)'
      BY <1>1 DEF CommandInv, Bytes, Complete
    <2>3. \A r \in Servers :
            (thread[r] = "respond" /\ used[r] <= kMaximumCommandLength /\ cpc[serving[r]] # "died"
                => Whole(serving[r]))'
      BY <1>1 DEF CommandInv, Bytes, Complete, Whole
    <2>4. QED BY <2>1, <2>2, <2>3 DEF Complete
  <1>5. WholeCommands' BY <1>1 DEF CommandInv, WholeCommands
  <1>6. QED BY <1>3, <1>4, <1>5 DEF CommandInv

\* Steps of the thread that leave the bytes alone: it comes to a new position, and to
\* "respond" only when there is nothing more to wait for.
LEMMA CommandIdleThread ==
  ASSUME CommandInv, NEW s \in Servers,
         Loop(s) \/ PollNothing(s) \/ Accept(s) \/ ReceiveTimeout(s)
  PROVE  CommandInv'
  <1>1. CASE Loop(s) \/ PollNothing(s)
    <2>1. /\ \E at \in {"exited", "poll", "loop"} : thread' = [thread EXCEPT ![s] = at]
          /\ UNCHANGED <<left, inflight, executed, cpc, serving, used, backlog>>
      BY <1>1 DEF Loop, PollNothing, clientVars
    <2>2. QED BY <2>1 DEF CommandInv, Bytes, Complete, WholeCommands, Whole
  <1>2. CASE Accept(s)
    <2>1. Head(backlog[s]) \in Clients /\ Tail(backlog[s]) \in Seq(Clients)
      BY <1>2 DEF Accept, CommandInv, Bytes
    <2>2. QED BY <1>2, <2>1 DEF Accept, CommandInv, Bytes, Complete, WholeCommands, Whole
  <1>3. CASE ReceiveTimeout(s)
    <2>1. 0 \in 0 .. BufferSize BY LengthAssumption DEF BufferSize
    <2>2. QED
      BY <1>3, <2>1 DEF ReceiveTimeout, Timeout, Close, CommandInv, Bytes, Complete,
                            WholeCommands, Whole
  <1>4. QED BY <1>1, <1>2, <1>3

LEMMA CommandReceive ==
  ASSUME CommandInv, NEW s \in Servers, Receive(s)
  PROVE  CommandInv'
  <1> DEFINE c == serving[s]
             space == BufferSize - used[s]
             taken == IF inflight[c] < space THEN inflight[c] ELSE space
             at == IF left[c] = 0 \/ used[s] + taken = BufferSize THEN "respond" ELSE "receive"
  <1>1. c \in Clients BY DEF CommandInv, Complete, Receive
  <1>2. /\ used' = [used EXCEPT ![s] = used[s] + taken]
        /\ inflight' = [inflight EXCEPT ![c] = inflight[c] - taken]
        /\ UNCHANGED <<left, executed, cpc, serving, backlog>>
    BY DEF Receive
  <1>3. space \in Nat /\ taken \in Nat /\ taken <= space /\ taken <= inflight[c]
    BY <1>1, LengthAssumption DEF CommandInv, Bytes, BufferSize
  <1>4. thread' = [thread EXCEPT ![s] = at]
    BY <1>2 DEF Receive, CommandInv, Bytes
  <1>5. Bytes'
    <2>1. used[s] + taken \in 0 .. BufferSize /\ inflight[c] - taken \in Nat
      <3>1. inflight[c] \in Nat /\ used[s] \in Nat /\ BufferSize \in Nat
        BY <1>1, LengthAssumption DEF CommandInv, Bytes, BufferSize
      <3>2. space = BufferSize - used[s]
        OBVIOUS
      <3> HIDE DEF c, space, taken
      <3>3. QED BY <1>3, <3>1, <3>2
    <2>2. at \in {"respond", "receive"} OBVIOUS
    <2> HIDE DEF taken, at
    <2>3. used' \in [Servers -> 0 .. BufferSize] /\ inflight' \in [Clients -> Nat]
      BY <1>1, <1>2, <2>1 DEF CommandInv, Bytes
    <2>4. thread' \in [Servers -> {"none", "loop", "poll", "receive", "respond", "exited"}]
      BY <1>4, <2>2 DEF CommandInv, Bytes
    <2>5. QED BY <1>2, <2>3, <2>4 DEF CommandInv, Bytes
  <1>6. at = "respond" /\ used[s] + taken <= kMaximumCommandLength
          => left[c] = 0 /\ inflight[c] - taken = 0
    BY <1>1, <1>3, LengthAssumption DEF CommandInv, Bytes, BufferSize
  <1>7. ASSUME NEW d \in Clients, Whole(d) PROVE Whole(d)'
    BY <1>1, <1>2, <1>3, <1>7 DEF CommandInv, Bytes, Whole
  <1>8. Complete'
    <2>1. /\ \A d \in Clients : cpc'[d] = "waiting" => left'[d] = 0
          /\ \A t \in Servers : thread'[t] \in {"receive", "respond"} => serving'[t] \in Clients
      BY <1>1, <1>2, <1>4 DEF CommandInv, Bytes, Complete
    <2>2. ASSUME NEW t \in Servers, thread'[t] = "respond", used'[t] <= kMaximumCommandLength,
                 cpc'[serving'[t]] # "died"
          PROVE  Whole(serving[t])'
      <3>1. CASE t = s
        BY <1>1, <1>2, <1>3, <1>4, <1>6, <2>2, <3>1 DEF CommandInv, Bytes, Whole
      <3>2. CASE t # s
        BY <1>2, <1>4, <1>7, <2>2, <3>2 DEF CommandInv, Bytes, Complete, Whole
      <3>3. QED BY <3>1, <3>2
    <2>3. QED BY <2>1, <2>2 DEF Complete
  <1>9. WholeCommands'
    BY <1>2, <1>7 DEF CommandInv, WholeCommands, Whole
  <1>10. QED BY <1>5, <1>8, <1>9 DEF CommandInv

\* No more bytes: a client that is still there has sent all of them.
LEMMA CommandReceiveEnd ==
  ASSUME CommandInv, NEW s \in Servers, ReceiveEnd(s)
  PROVE  CommandInv'
  BY DEF ReceiveEnd, Ended, CommandInv, Bytes, Complete, WholeCommands, Whole, clientVars

LEMMA CommandRespond ==
  ASSUME CommandInv, NEW s \in Servers, Respond(s)
  PROVE  CommandInv'
  <1> DEFINE c == serving[s]
  <1>1. /\ c \in Clients /\ thread[s] = "respond"
        /\ thread' = [thread EXCEPT ![s] = "loop"]
        /\ serving' = [serving EXCEPT ![s] = NoClient]
        /\ used' = [used EXCEPT ![s] = 0]
        /\ UNCHANGED <<left, inflight, cpc, backlog>>
    BY DEF Respond, Close, CommandInv, Complete
  <1>2. \/ UNCHANGED executed
        \/ /\ used[s] <= kMaximumCommandLength
           /\ executed' = [executed EXCEPT ![c] = used[s]]
    BY LengthAssumption DEF Respond, TooLong, CommandInv, Bytes, BufferSize
  <1>3. Bytes'
    BY <1>1, <1>2, LengthAssumption DEF CommandInv, Bytes, BufferSize
  <1>4. Complete'
    BY <1>1 DEF CommandInv, Bytes, Complete, Whole
  <1>5. WholeCommands'
    BY <1>1, <1>2 DEF CommandInv, Bytes, Complete, WholeCommands, Whole
  <1>6. QED BY <1>3, <1>4, <1>5 DEF CommandInv

\* A client sends only what is left, and does not come back to life.
LEMMA CommandClient ==
  ASSUME CommandInv, NEW c \in Clients, ClientStep(c) \/ Die(c)
  PROVE  CommandInv'
  <1> USE DEF CommandInv, Bytes, Complete, WholeCommands, Whole, clientOnly, threadVars
  <1>1. CASE Connect(c)
    <2>1. /\ cpc[c] = "idle" /\ \E to \in {"sending", "done"} : cpc' = [cpc EXCEPT ![c] = to]
          /\ UNCHANGED <<thread, serving, used, left, inflight, executed>>
      BY <1>1 DEF Connect
    <2>2. backlog' \in [Servers -> Seq(Clients)]
      <3>1. CASE UNCHANGED backlog BY <3>1
      <3>2. CASE path \in Servers /\ backlog' = [backlog EXCEPT ![path] = Append(@, c)]
        <4>1. Append(backlog[path], c) \in Seq(Clients) BY <3>2
        <4>2. QED BY <3>2, <4>1
      <3>3. QED BY <1>1, <3>1, <3>2 DEF Connect
    <2>3. QED BY <2>1, <2>2
  <1>2. CASE Send(c)
    BY <1>2 DEF Send
  <1>3. CASE Finish(c) \/ Die(c)
    <2>1. /\ \E to \in {"done", "died"} : cpc' = [cpc EXCEPT ![c] = to]
          /\ cpc[c] \in {"sending", "waiting"}
          /\ UNCHANGED <<thread, serving, used, backlog, left, inflight, executed>>
      BY <1>3 DEF Finish, Die
    <2>2. QED BY <2>1
  <1>4. QED BY <1>1, <1>2, <1>3 DEF ClientStep

LEMMA CommandNext == CommandInv /\ [Next]_vars => CommandInv'
  <1> SUFFICES ASSUME CommandInv, [Next]_vars PROVE CommandInv'
    OBVIOUS
  <1>1. CASE UNCHANGED vars
    BY <1>1 DEF vars, service, threadVars, clientVars, CommandInv, Bytes, Complete,
                WholeCommands, Whole
  <1>2. CASE Next
    BY <1>2, CommandOwner, CommandIdleThread, CommandReceive, CommandReceiveEnd, CommandRespond,
       CommandClient DEF Next, ThreadStep
  <1>3. QED BY <1>1, <1>2

\* For every length limit and however the bytes are cut into sends and receives: the
\* handler runs on the whole command of a client that is still there, or not at all.
THEOREM CommandsWhole == Spec => []WholeCommands
  <1>1. CommandInv => WholeCommands BY DEF CommandInv
  <1>2. QED BY <1>1, CommandInit, CommandNext, PTL DEF Spec

---------------------------------------------------------------------------------
(* Why start() fails.                                                              *)

Contended(s) == \E t \in Servers \ {s} : starts[t] > 0

\* A start() that found a socket and then finds none, or the other way around, has met
\* another server; a file that is no socket keeps every server from getting that far.
Entering ==
    /\ starts \in [Servers -> Nat]
    /\ \A s \in Servers :
          /\ running_[s] \/ pc[s] # "idle" => starts[s] > 0
          /\ pc[s] = "unlink" /\ path = "none" => Contended(s)
          /\ pc[s] = "bind" /\ path # "none" => Contended(s)
          /\ pc[s] = "raced" => Contended(s)
          /\ pc[s] = "refused" => path = "foreign"
          /\ path = "foreign" => pc[s] \in {"idle", "refused"} /\ ~running_[s]

LEMMA EnteringSuffices == Entering => RestartNotBlocked
  BY DEF Entering, Contended, RestartNotBlocked

LEMMA EnteringInit == Init => Entering
  BY DEF Init, Entering

\* A step that changes neither the path nor a position of start().
LEMMA EnteringSame ==
  ASSUME Entering, UNCHANGED <<path, starts, running_, pc>>
  PROVE  Entering'
  BY DEF Entering, Contended

\* A step of s: the other servers that are in start() have met s.
LEMMA EnteringOthers ==
  ASSUME LifecycleInv, Entering, NEW s \in Servers, NEW t \in Servers, t # s,
         starts' \in [Servers -> Nat], starts'[t] = starts[t],
         \A u \in Servers : starts'[u] >= starts[u],
         pc'[t] = pc[t], running_'[t] = running_[t],
         \/ path' = path
         \/ starts[s] > 0 /\ path # "foreign" /\ path' # "foreign"
  PROVE  /\ running_'[t] \/ pc'[t] # "idle" => starts'[t] > 0
         /\ pc'[t] = "unlink" /\ path' = "none" => Contended(t)'
         /\ pc'[t] = "bind" /\ path' # "none" => Contended(t)'
         /\ pc'[t] = "raced" => Contended(t)'
         /\ pc'[t] = "refused" => path' = "foreign"
         /\ path' = "foreign" => pc'[t] \in {"idle", "refused"} /\ ~running_'[t]
  <1>1. starts \in [Servers -> Nat]
    BY DEF Entering
  <1>2. Contended(t) => Contended(t)'
    BY <1>1 DEF Contended
  <1>3. starts[s] > 0 => Contended(t)'
    BY <1>1 DEF Contended
  <1> HIDE DEF Contended
  <1>4. CASE path' = path
    BY <1>2, <1>4 DEF Entering
  <1>5. CASE starts[s] > 0 /\ path # "foreign" /\ path' # "foreign"
    BY <1>2, <1>3, <1>5 DEF Entering
  <1>6. QED BY <1>4, <1>5

LEMMA EnteringStep ==
  ASSUME LifecycleInv, Entering, NEW s \in Servers,
         Start(s) \/ StartStep(s) \/ Stop(s) \/ StopStep(s) \/ Crash(s)
  PROVE  Entering'
  <1> DEFINE Mine == /\ running_'[s] \/ pc'[s] # "idle" => starts'[s] > 0
                     /\ pc'[s] = "unlink" /\ path' = "none" => Contended(s)'
                     /\ pc'[s] = "bind" /\ path' # "none" => Contended(s)'
                     /\ pc'[s] = "raced" => Contended(s)'
                     /\ pc'[s] = "refused" => path' = "foreign"
                     /\ path' = "foreign" => pc'[s] \in {"idle", "refused"} /\ ~running_'[s]
             Moves == /\ starts' \in [Servers -> Nat]
                      /\ \A u \in Servers : starts'[u] >= starts[u]
                      /\ \A t \in Servers \ {s} : /\ starts'[t] = starts[t] /\ pc'[t] = pc[t]
                                                  /\ running_'[t] = running_[t]
                      /\ \/ path' = path
                         \/ starts[s] > 0 /\ path # "foreign" /\ path' # "foreign"
  <1>1. /\ starts \in [Servers -> Nat]
        /\ pc \in [Servers -> {"idle", "unlink", "bind", "listen", "refused", "raced", "failed",
                               "request", "shutdown", "join", "remove"}]
        /\ running_ \in [Servers -> BOOLEAN]
        /\ path \in Servers \cup {"none", "stale", "foreign"}
    BY DEF Entering, LifecycleInv, Shape
  <1>2. /\ running_[s] \/ pc[s] # "idle" => starts[s] > 0
        /\ pc[s] = "unlink" /\ path = "none" => Contended(s)
        /\ pc[s] = "bind" /\ path # "none" => Contended(s)
        /\ pc[s] = "raced" => Contended(s)
        /\ pc[s] = "refused" => path = "foreign"
        /\ path = "foreign" => pc[s] \in {"idle", "refused"} /\ ~running_[s]
    BY DEF Entering
  <1>3. starts' = starts => (Contended(s)' <=> Contended(s))
    BY DEF Contended
  <1>4. path = s => running_[s] \/ pc[s] # "idle"
    BY DEF LifecycleInv, Together, Down
  <1> HIDE DEF Contended
  <1> USE <1>1, <1>2, <1>3, ServersAssumption DEF Goto, pathVars, counts
  <1>5. Mine /\ Moves
    <2>1. CASE Start(s)
      BY <2>1 DEF Start, Found
    <2>2. CASE StartUnlink(s)
      BY <2>2 DEF StartUnlink
    <2>3. CASE StartBind(s)
      <3>1. CASE path = "none"
        BY <2>3, <3>1 DEF StartBind
      <3>2. CASE path # "none"
        BY <2>3, <3>2 DEF StartBind
      <3>3. QED BY <3>1, <3>2
    <2>4. CASE StartFails(s) \/ StartListen(s) \/ StartReturnsFalse(s)
      BY <2>4 DEF StartFails, StartListen, StartReturnsFalse
    <2>5. CASE StartListenFails(s)
      BY <2>5 DEF StartListenFails
    <2>6. CASE Stop(s) \/ StopRequest(s) \/ StopShutdown(s) \/ StopJoin(s)
      <3>1. CASE Stop(s)
        BY <3>1 DEF Stop
      <3>2. CASE StopRequest(s)
        BY <3>2 DEF StopRequest
      <3>3. CASE StopShutdown(s)
        BY <3>3 DEF StopShutdown
      <3>4. CASE StopJoin(s)
        BY <3>4 DEF StopJoin
      <3>5. QED BY <2>6, <3>1, <3>2, <3>3, <3>4
    <2>7. CASE StopRemove(s)
      BY <2>7 DEF StopRemove, AfterStop
    <2>8. CASE Crash(s)
      <3>1. CASE path = s
        BY <1>4, <2>8, <3>1 DEF Crash
      <3>2. CASE path # s
        BY <2>8, <3>2 DEF Crash
      <3>3. QED BY <3>1, <3>2
    <2>9. QED BY <2>1, <2>2, <2>3, <2>4, <2>5, <2>6, <2>7, <2>8 DEF StartStep, StopStep
  <1>6. QED BY <1>5, EnteringOthers DEF Entering

LEMMA EnteringNext == LifecycleInv /\ Entering /\ [Next]_vars => Entering'
  <1> SUFFICES ASSUME LifecycleInv, Entering, [Next]_vars PROVE Entering'
    OBVIOUS
  <1>1. CASE UNCHANGED vars
    BY <1>1, EnteringSame DEF vars, pathVars, lifecycle, counts
  <1>2. ASSUME NEW s \in Servers, ThreadStep(s) PROVE Entering'
    BY <1>2, EnteringSame
    DEF ThreadStep, Loop, PollNothing, Accept, ReceiveTimeout, Receive, ReceiveEnd, Respond,
        pathVars, lifecycle, counts
  <1>3. ASSUME NEW c \in Clients, ClientStep(c) \/ Die(c) PROVE Entering'
    BY <1>3, EnteringSame DEF ClientStep, Connect, Send, Finish, Die, pathVars, lifecycle, counts
  <1>4. QED BY <1>1, <1>2, <1>3, EnteringStep DEF Next

\* However servers of one path are started, stopped and killed, start() is refused only
\* because of a file that is no socket and fails in a race only with another server.
THEOREM RestartCorrect == Spec => []RestartNotBlocked
  BY EnteringInit, EnteringNext, EnteringSuffices, LifecycleInit, LifecycleNext, PTL DEF Spec

---------------------------------------------------------------------------------
(* The parser: what its loops skip.                                                *)

LEMMA LeastExists ==
    ASSUME NEW S \in SUBSET Nat, S # {}
    PROVE  \E x \in S : \A y \in S : x <= y
  <1> DEFINE R == OpToRel(<, Nat)
  <1>1. PICK x \in S : \A y \in S : ~(<<y, x>> \in R)
    <2>1. IsWellFoundedOn(R, Nat)
      BY NatLessThanWellFounded, Zenon
    <2> HIDE DEF R
    <2> QED
      BY <2>1, WFMin, Zenon
  <1>2. ASSUME NEW y \in S PROVE x <= y
    <2>1. x \in Nat /\ y \in Nat
      OBVIOUS
    <2>2. ~(y < x)
      BY <1>1, <2>1, Zenon DEF OpToRel
    <2> QED
      BY <2>1, <2>2
  <1> QED
    BY <1>2

LEMMA MinOfSet ==
    ASSUME NEW S \in SUBSET Nat, S # {}
    PROVE  Min(S) \in S /\ \A y \in S : Min(S) <= y
  BY LeastExists, Zenon DEF Min

LEMMA MaxOfSet ==
    ASSUME NEW S \in SUBSET Nat, S # {}, NEW n \in Nat, \A x \in S : x <= n
    PROVE  Max(S) \in S /\ \A y \in S : Max(S) >= y
  <1> DEFINE T == {n - x : x \in S}
  <1>1. T \in SUBSET Nat /\ T # {}
    <2>1. \A x \in S : n - x \in Nat
      OBVIOUS
    <2> QED
      BY <2>1
  <1>2. PICK t \in T : \A u \in T : t <= u
    BY <1>1, LeastExists
  <1>3. PICK x \in S : t = n - x
    OBVIOUS
  <1>4. ASSUME NEW y \in S PROVE x >= y
    <2>1. n - y \in T
      OBVIOUS
    <2>2. t <= n - y
      BY <1>2, <2>1
    <2> QED
      BY <1>3, <2>2
  <1> QED
    BY <1>4, Zenon DEF Max

Pieces == UNION {v.pieces : v \in Vocabularies}

LEMMA SpaceIsBlank == \A p : is_space(p) <=> p \in Blank
  BY DEF is_space, Blank

\* The loops of trim() and tokenize() stop at the first piece of the other kind, or behind
\* the last place.
LEMMA SkipSpacesStops ==
    ASSUME NEW text, NEW from \in Nat, NEW to \in Nat, from <= to + 1
    PROVE  /\ SkipSpaces(text, from, to) \in from .. to + 1
           /\ \A i \in from .. SkipSpaces(text, from, to) - 1 : text[i] \in Blank
           /\ SkipSpaces(text, from, to) <= to => text[SkipSpaces(text, from, to)] \notin Blank
  <1> DEFINE S == {i \in from .. to : ~is_space(text[i])} \cup {to + 1}
             s == Min(S)
  <1>1. S \in SUBSET Nat /\ S # {}
    OBVIOUS
  <1> HIDE DEF S
  <1>2. s \in S /\ \A y \in S : s <= y
    BY <1>1, MinOfSet
  <1>3. SkipSpaces(text, from, to) = s
    BY DEF SkipSpaces, S
  <1> HIDE DEF s
  <1>4. s \in from .. to + 1
    BY <1>2 DEF S
  <1>5. ASSUME NEW i \in from .. s - 1 PROVE text[i] \in Blank
    <2>1. i \in from .. to /\ ~(s <= i)
      BY <1>4
    <2>2. i \notin S
      BY <1>2, <2>1
    <2> QED
      BY <2>1, <2>2, SpaceIsBlank DEF S
  <1>6. s <= to => text[s] \notin Blank
    BY <1>2, SpaceIsBlank DEF S
  <1> QED
    BY <1>3, <1>4, <1>5, <1>6

LEMMA SkipWordStops ==
    ASSUME NEW text, NEW from \in Nat, NEW to \in Nat, from <= to + 1
    PROVE  /\ SkipWord(text, from, to) \in from .. to + 1
           /\ \A i \in from .. SkipWord(text, from, to) - 1 : text[i] \notin Blank
           /\ SkipWord(text, from, to) <= to => text[SkipWord(text, from, to)] \in Blank
  <1> DEFINE S == {i \in from .. to : is_space(text[i])} \cup {to + 1}
             s == Min(S)
  <1>1. S \in SUBSET Nat /\ S # {}
    OBVIOUS
  <1> HIDE DEF S
  <1>2. s \in S /\ \A y \in S : s <= y
    BY <1>1, MinOfSet
  <1>3. SkipWord(text, from, to) = s
    BY DEF SkipWord, S
  <1> HIDE DEF s
  <1>4. s \in from .. to + 1
    BY <1>2 DEF S
  <1>5. ASSUME NEW i \in from .. s - 1 PROVE text[i] \notin Blank
    <2>1. i \in from .. to /\ ~(s <= i)
      BY <1>4
    <2>2. i \notin S
      BY <1>2, <2>1
    <2> QED
      BY <2>1, <2>2, SpaceIsBlank DEF S
  <1>6. s <= to => text[s] \in Blank
    BY <1>2, SpaceIsBlank DEF S
  <1> QED
    BY <1>3, <1>4, <1>5, <1>6

---------------------------------------------------------------------------------
(* The words of the input.                                                         *)

StartsBefore(i) == {j \in Starts : j < i}

\* There are finitely many words, so each has a number.
LEMMA StartsFinite ==
    ASSUME input \in Seq(Pieces), NEW i \in Nat
    PROVE  /\ IsFiniteSet(Starts) /\ IsFiniteSet(StartsBefore(i)) /\ StartsBefore(i) \subseteq Starts
           /\ Cardinality(Starts) \in Nat /\ Cardinality(StartsBefore(i)) \in Nat
           /\ Cardinality(StartsBefore(i)) <= Cardinality(Starts)
  <1>1. StartsBefore(i) \in SUBSET Starts /\ Starts \in SUBSET (1 .. Len(input))
    BY DEF StartsBefore, Starts
  <1>2. IsFiniteSet(1 .. Len(input))
    BY FS_Interval
  <1>3. IsFiniteSet(Starts)
    BY <1>1, <1>2, FS_Subset
  <1>4. IsFiniteSet(StartsBefore(i)) /\ Cardinality(StartsBefore(i)) <= Cardinality(Starts)
    BY <1>1, <1>3, FS_Subset
  <1> QED
    BY <1>1, <1>3, <1>4, FS_CardinalityType

LEMMA BeforeGrows ==
    ASSUME input \in Seq(Pieces), NEW s \in Starts, NEW i \in Nat, s < i
    PROVE  Cardinality(StartsBefore(i)) >= Cardinality(StartsBefore(s)) + 1
  <1>1. s \in Nat
    BY DEF Starts
  <1>2. IsFiniteSet(StartsBefore(s)) /\ IsFiniteSet(StartsBefore(i)) /\ Cardinality(StartsBefore(s)) \in Nat
        /\ Cardinality(StartsBefore(i)) \in Nat
    BY <1>1, StartsFinite
  <1>3. s \notin StartsBefore(s) /\ StartsBefore(s) \cup {s} \in SUBSET StartsBefore(i)
    BY <1>1 DEF StartsBefore, Starts
  <1>4. Cardinality(StartsBefore(s) \cup {s}) = Cardinality(StartsBefore(s)) + 1
    BY <1>2, <1>3, FS_AddElement
  <1>5. Cardinality(StartsBefore(s) \cup {s}) <= Cardinality(StartsBefore(i))
    BY <1>2, <1>3, FS_Subset
  <1> QED
    BY <1>2, <1>4, <1>5

\* The place where the word with a given number begins, and the one where it ends, are the
\* ones StartOf and EndOf choose.
LEMMA StartUnique ==
    ASSUME input \in Seq(Pieces), NEW s \in Starts
    PROVE  StartOf(Cardinality(StartsBefore(s)) + 1) = s
  <1> DEFINE k == Cardinality(StartsBefore(s))
  <1>1. s \in Nat /\ k \in Nat
    <2>1. s \in Nat
      BY DEF Starts
    <2> QED
      BY <2>1, StartsFinite
  <1>2. ASSUME NEW i \in Starts, Cardinality(StartsBefore(i)) = k PROVE i = s
    <2>1. i \in Nat
      BY DEF Starts
    <2>2. ~(i < s)
      BY <1>1, <1>2, BeforeGrows
    <2>3. ~(s < i)
      BY <1>1, <1>2, <2>1, BeforeGrows
    <2> QED
      BY <1>1, <2>1, <2>2, <2>3
  <1>3. (k + 1) - 1 = k
    BY <1>1
  <1> HIDE DEF k
  <1>4. StartOf(k + 1) = CHOOSE i \in Starts : Cardinality(StartsBefore(i)) = k
    BY <1>3 DEF StartOf, StartsBefore
  <1>5. StartOf(k + 1) = s
    BY <1>2, <1>4, Zenon DEF k
  <1> QED
    BY <1>5 DEF k

LEMMA EndUnique ==
    ASSUME input \in Seq(Pieces), NEW s \in Starts, NEW e \in s .. Len(input),
           \A i \in s .. e : input[i] \notin Blank,
           e = Len(input) \/ input[e + 1] \in Blank
    PROVE  EndOf(s) = e
  <1> DEFINE Is(j) == /\ \A i \in s .. j : input[i] \notin Blank
                      /\ j = Len(input) \/ input[j + 1] \in Blank
  <1>1. s \in Nat /\ e \in Nat /\ Len(input) \in Nat
    BY DEF Starts
  <1>2. ASSUME NEW j \in s .. Len(input), Is(j) PROVE j = e
    <2>1. ~(j < e)
      <3> SUFFICES ASSUME j < e PROVE FALSE
        OBVIOUS
      <3>1. j + 1 \in s .. e /\ j # Len(input)
        BY <1>1
      <3> QED
        BY <1>2, <3>1
    <2>2. ~(e < j)
      <3> SUFFICES ASSUME e < j PROVE FALSE
        OBVIOUS
      <3>1. e + 1 \in s .. j /\ e # Len(input)
        BY <1>1
      <3> QED
        BY <1>2, <3>1
    <2> QED
      BY <1>1, <2>1, <2>2
  <1>3. Is(e)
    OBVIOUS
  <1>4. EndOf(s) = CHOOSE j \in s .. Len(input) : Is(j)
    BY DEF EndOf
  <1> HIDE DEF Is
  <1> QED
    BY <1>2, <1>3, <1>4, Zenon

\* The word that begins at s and ends at e has its place in the list.
LEMMA WordAt ==
    ASSUME input \in Seq(Pieces), NEW s \in Starts, NEW e \in s .. Len(input),
           \A i \in s .. e : input[i] \notin Blank,
           e = Len(input) \/ input[e + 1] \in Blank
    PROVE  /\ Cardinality(StartsBefore(s)) + 1 \in 1 .. Cardinality(Starts)
           /\ WordList[Cardinality(StartsBefore(s)) + 1] = SubSeq(input, s, e)
  <1> DEFINE k == Cardinality(StartsBefore(s)) + 1
  <1>1. s \in Nat /\ s \in 1 .. Len(input)
    BY DEF Starts
  <1>2. k \in 1 .. Cardinality(Starts)
    <2>1. Cardinality(StartsBefore(Len(input) + 1)) >= k
      <3>1. Len(input) + 1 \in Nat /\ s < Len(input) + 1
        BY <1>1
      <3> QED
        BY <3>1, BeforeGrows, Zenon
    <2>2. Cardinality(StartsBefore(Len(input) + 1)) <= Cardinality(Starts)
          /\ Cardinality(Starts) \in Nat /\ Cardinality(StartsBefore(s)) \in Nat
          /\ Cardinality(StartsBefore(Len(input) + 1)) \in Nat
      <3>1. Len(input) + 1 \in Nat
        OBVIOUS
      <3> QED
        BY <1>1, <3>1, StartsFinite, Zenon
    <2> QED
      BY <2>1, <2>2
  <1>3. StartOf(k) = s /\ EndOf(s) = e
    BY StartUnique, EndUnique
  <1> HIDE DEF k
  <1>4. WordList[k] = SubSeq(input, s, e)
    BY <1>2, <1>3 DEF WordList
  <1> QED
    BY <1>2, <1>4 DEF k

---------------------------------------------------------------------------------
(* tokenize().                                                                     *)

\* A view with nothing but spaces around it.
Window(first, last) ==
    /\ first \in Nat /\ first >= 1 /\ last \in Nat /\ last <= Len(input) /\ first <= last + 1
    /\ \A i \in 1 .. Len(input) : i < first \/ i > last => input[i] \in Blank

\* The first k words are found, and no other begins before t.from.
FoundWords(t, k, last) ==
    /\ t \in [values : Seq(Seq(Pieces)), overflow : BOOLEAN, from : Nat] /\ ~t.overflow
    /\ t.from >= 1 /\ t.from <= last + 1
    /\ Len(t.values) = k /\ Cardinality(StartsBefore(t.from)) = k
    /\ \/ t.from > last \/ t.from = 1
       \/ input[t.from - 1] \in Blank \/ input[t.from] \in Blank
    /\ \A j \in 1 .. k : t.values[j] = WordList[j]

LEMMA InputLength == input \in Seq(Pieces) => Len(input) \in Nat
  OBVIOUS

LEMMA FoundTypes ==
    ASSUME input \in Seq(Pieces), NEW first, NEW last, Window(first, last),
           NEW t, NEW k, FoundWords(t, k, last)
    PROVE  /\ t.from \in Nat /\ t.from >= 1 /\ t.from <= last + 1
           /\ last \in Nat /\ last <= Len(input) /\ Len(input) \in Nat
  <1>1. t \in [values : Seq(Seq(Pieces)), overflow : BOOLEAN, from : Nat]
    BY Zenon DEF FoundWords
  <1>2. t.from \in Nat
    BY <1>1
  <1>3. t.from >= 1 /\ t.from <= last + 1
    BY Zenon DEF FoundWords
  <1>4. last \in Nat /\ last <= Len(input)
    BY Zenon DEF Window
  <1>5. Len(input) \in Nat
    BY InputLength, Zenon
  <1> QED
    BY <1>2, <1>3, <1>4, <1>5

\* The three ways a turn of the loop can go.
Taken(t, text, s, last) ==
    [t EXCEPT !.values = Append(@, SubSeq(text, s, SkipWord(text, s, last) - 1)),
              !.from = SkipWord(text, s, last)]

LEMMA RoundCases ==
    ASSUME NEW t, NEW text, NEW last
    PROVE  LET s == SkipSpaces(text, t.from, last) IN
           /\ s > last => Round(t, text, last) = t
           /\ ~(s > last) /\ Len(t.values) = 4 => Round(t, text, last) = Overflow(t)
           /\ ~(s > last) /\ Len(t.values) # 4 => Round(t, text, last) = Taken(t, text, s, last)
  BY Zenon DEF Round, Taken

\* Where the loop of tokenize() stops skipping spaces, the next word begins; where it stops
\* after that, the word ends.
LEMMA StartFound ==
    ASSUME input \in Seq(Pieces), NEW first, NEW last, Window(first, last),
           NEW t, NEW k \in Nat, FoundWords(t, k, last), NEW s,
           s = SkipSpaces(input, t.from, last)
    PROVE  /\ s > last => Starts = StartsBefore(t.from)
           /\ s <= last => s \in Starts /\ StartsBefore(s) = StartsBefore(t.from)
  <1> DEFINE from == t.from
  <1>1. /\ from \in Nat /\ from >= 1 /\ from <= last + 1
        /\ last \in Nat /\ last <= Len(input) /\ Len(input) \in Nat
        /\ from > last \/ from = 1 \/ input[from - 1] \in Blank \/ input[from] \in Blank
    <2>1. from > last \/ from = 1 \/ input[from - 1] \in Blank \/ input[from] \in Blank
      BY Zenon DEF FoundWords
    <2> QED
      BY <2>1, FoundTypes
  <1> HIDE DEF from
  <1>2. /\ s \in from .. last + 1
        /\ \A i \in from .. s - 1 : input[i] \in Blank
        /\ s <= last => input[s] \notin Blank
    <2>1. s = SkipSpaces(input, from, last)
      BY DEF from
    <2> QED
      BY <1>1, <2>1, SkipSpacesStops, Zenon
  <1>3. ASSUME NEW j \in Starts PROVE j \in 1 .. Len(input) /\ input[j] \notin Blank
    BY DEF Starts
  <1>4. CASE s > last
    <2>1. ASSUME NEW j \in Starts PROVE j < from
      <3> SUFFICES ASSUME from <= j PROVE FALSE
        BY <1>1, <1>3
      <3>1. j > last => input[j] \in Blank
        BY <1>3 DEF Window
      <3>2. j <= last => j \in from .. s - 1
        BY <1>1, <1>2, <1>3, <1>4
      <3> QED
        BY <1>1, <1>2, <1>3, <3>1, <3>2
    <2> QED
      BY <1>1, <1>4, <2>1, <1>2 DEF StartsBefore, from
  <1>5. CASE s <= last
    <2>1. s \in 1 .. Len(input) /\ input[s] \notin Blank
      BY <1>1, <1>2, <1>5
    <2>2. s = 1 \/ input[s - 1] \in Blank
      <3>1. CASE s = from
        BY <1>1, <1>5, <2>1, <3>1
      <3>2. CASE s # from
        <4>1. s - 1 \in from .. s - 1
          BY <1>1, <1>2, <3>2
        <4> QED
          BY <1>2, <4>1
      <3> QED
        BY <3>1, <3>2
    <2>3. s \in Starts
      BY <2>1, <2>2 DEF Starts
    <2>4. ASSUME NEW j \in Starts PROVE j < s <=> j < from
      <3>1. j < from => j < s
        BY <1>1, <1>2, <1>3
      <3>2. ASSUME j < s, from <= j PROVE FALSE
        <4>1. j \in from .. s - 1
          BY <1>1, <1>2, <1>3, <3>2
        <4> QED
          BY <1>2, <1>3, <4>1
      <3> QED
        BY <1>1, <1>3, <3>1, <3>2
    <2>5. StartsBefore(s) = StartsBefore(from)
      BY <2>4 DEF StartsBefore
    <2>6. ~(s > last)
      BY <1>1, <1>2, <1>5
    <2> QED
      BY <2>3, <2>5, <2>6 DEF from
  <1> QED
    BY <1>1, <1>2, <1>4, <1>5

LEMMA WordFound ==
    ASSUME input \in Seq(Pieces), NEW first, NEW last, Window(first, last),
           NEW s \in Starts, s <= last, NEW stop, stop = SkipWord(input, s, last)
    PROVE  /\ stop \in s + 1 .. last + 1
           /\ stop > last \/ input[stop] \in Blank
           /\ \A i \in s .. stop - 1 : input[i] \notin Blank
           /\ stop - 1 = Len(input) \/ input[stop] \in Blank
           /\ StartsBefore(stop) = StartsBefore(s) \cup {s}
  <1>1. /\ s \in Nat /\ s >= 1 /\ input[s] \notin Blank /\ s <= last + 1
        /\ last \in Nat /\ last <= Len(input) /\ Len(input) \in Nat
    BY DEF Window, Starts
  <1>2. /\ stop \in s .. last + 1
        /\ \A i \in s .. stop - 1 : input[i] \notin Blank
        /\ stop <= last => input[stop] \in Blank
    BY <1>1, SkipWordStops, Zenon
  <1>3. stop \in s + 1 .. last + 1
    BY <1>1, <1>2
  <1>4. stop - 1 = Len(input) \/ input[stop] \in Blank
    <2>1. CASE stop <= last
      BY <1>2, <2>1
    <2>2. CASE stop = last + 1 /\ last = Len(input)
      BY <1>1, <2>2
    <2>3. CASE stop = last + 1 /\ last # Len(input)
      <3>1. stop \in 1 .. Len(input) /\ stop > last
        BY <1>1, <2>3
      <3> QED
        BY <3>1 DEF Window
    <2> QED
      BY <1>1, <1>3, <2>1, <2>2, <2>3
  <1>5. ASSUME NEW j \in Starts PROVE j < stop <=> j < s \/ j = s
    <2>1. j \in Nat /\ (j = 1 \/ input[j - 1] \in Blank)
      BY DEF Starts
    <2>2. ASSUME j < stop, s < j PROVE FALSE
      <3>1. j - 1 \in s .. stop - 1 /\ j # 1
        BY <1>1, <1>3, <2>1, <2>2
      <3> QED
        BY <1>2, <2>1, <3>1
    <2> QED
      BY <1>1, <1>3, <2>1, <2>2
  <1>6. StartsBefore(stop) = StartsBefore(s) \cup {s}
    BY <1>5 DEF StartsBefore
  <1>7. stop > last \/ input[stop] \in Blank
    BY <1>1, <1>2
  <1> QED
    BY <1>2, <1>3, <1>4, <1>6, <1>7

\* A round that finds a word.
LEMMA RoundFinds ==
    ASSUME input \in Seq(Pieces), NEW first, NEW last, Window(first, last),
           NEW t, NEW k \in Nat, k # 4, FoundWords(t, k, last),
           SkipSpaces(input, t.from, last) <= last
    PROVE  FoundWords(Round(t, input, last), k + 1, last)
  <1> DEFINE s == SkipSpaces(input, t.from, last)
             stop == SkipWord(input, s, last)
             word == SubSeq(input, s, stop - 1)
             r == Round(t, input, last)
  <1>1. s \in Starts /\ StartsBefore(s) = StartsBefore(t.from) /\ s <= last
    BY StartFound
  <1>2. /\ stop \in s + 1 .. last + 1
        /\ stop > last \/ input[stop] \in Blank
        /\ \A i \in s .. stop - 1 : input[i] \notin Blank
        /\ stop - 1 = Len(input) \/ input[stop] \in Blank
        /\ StartsBefore(stop) = StartsBefore(s) \cup {s}
    BY <1>1, WordFound
  <1>3. r = [t EXCEPT !.values = Append(@, word), !.from = stop]
    <2>1. s \in Nat /\ last \in Nat
      BY <1>1 DEF Starts, Window
    <2>2. ~(s > last)
      BY <1>1, <2>1
    <2>3. Len(t.values) # 4
      BY Zenon DEF FoundWords
    <2>4. r = Taken(t, input, s, last)
      BY <2>2, <2>3, RoundCases, Zenon
    <2> QED
      BY <2>4, Zenon DEF Taken
  <1> HIDE DEF s, stop, r
  <1>4. s \in Nat /\ s >= 1 /\ last \in Nat /\ last <= Len(input) /\ Len(input) \in Nat
        /\ stop \in Nat /\ stop >= 1 /\ stop <= last + 1 /\ (stop - 1) + 1 = stop
        /\ stop - 1 \in s .. Len(input)
    BY <1>1, <1>2 DEF Starts, Window
  <1>5. Cardinality(StartsBefore(s)) = k /\ Cardinality(StartsBefore(stop)) = k + 1
    <2>1. Cardinality(StartsBefore(s)) = k
      BY <1>1 DEF FoundWords
    <2>2. s \notin StartsBefore(s) /\ IsFiniteSet(StartsBefore(s))
      BY <1>4, StartsFinite DEF StartsBefore
    <2> QED
      BY <1>2, <2>1, <2>2, FS_AddElement
  <1>6. WordList[k + 1] = word
    <2>1. stop - 1 = Len(input) \/ input[(stop - 1) + 1] \in Blank
      BY <1>2, <1>4
    <2> QED
      BY <1>1, <1>2, <1>4, <1>5, <2>1, WordAt
  <1>7. word \in Seq(Pieces)
    BY <1>4
  <1> HIDE DEF word
  <1>8. t.values \in Seq(Seq(Pieces)) /\ Len(t.values) = k
    BY DEF FoundWords
  <1>9. r \in [values : Seq(Seq(Pieces)), overflow : BOOLEAN, from : Nat]
        /\ r.values = Append(t.values, word) /\ r.from = stop /\ (r.overflow <=> t.overflow)
    <2>1. Append(t.values, word) \in Seq(Seq(Pieces))
      BY <1>7, <1>8
    <2> QED
      BY <1>3, <1>4, <2>1 DEF FoundWords
  <1>10. Len(r.values) = k + 1 /\ \A j \in 1 .. k + 1 : r.values[j] = WordList[j]
    <2>1. /\ Len(r.values) = Len(t.values) + 1 /\ r.values[Len(t.values) + 1] = word
          /\ \A j \in 1 .. Len(t.values) : r.values[j] = t.values[j]
      BY <1>7, <1>8, <1>9
    <2>2. \A j \in 1 .. k : t.values[j] = WordList[j]
      BY DEF FoundWords
    <2> QED
      BY <1>6, <1>8, <2>1, <2>2
  <1>11. ~t.overflow
    BY DEF FoundWords
  <1>12. FoundWords(r, k + 1, last)
    BY <1>2, <1>4, <1>5, <1>9, <1>10, <1>11 DEF FoundWords
  <1> QED
    BY <1>12 DEF r

\* A round that finds the input at its end.
LEMMA RoundEnds ==
    ASSUME input \in Seq(Pieces), NEW first, NEW last, Window(first, last),
           NEW t, NEW k \in Nat, FoundWords(t, k, last),
           ~(SkipSpaces(input, t.from, last) <= last)
    PROVE  Round(t, input, last) = t /\ Cardinality(Starts) = k
  <1> DEFINE s == SkipSpaces(input, t.from, last)
  <1>1. s > last
    <2>1. t.from \in Nat /\ last \in Nat /\ t.from <= last + 1
      BY FoundTypes
    <2>2. s \in t.from .. last + 1
      BY <2>1, SkipSpacesStops
    <2> QED
      BY <2>1, <2>2
  <1>2. Starts = StartsBefore(t.from)
    BY <1>1, StartFound
  <1>3. Round(t, input, last) = t
    BY <1>1, RoundCases
  <1> QED
    BY <1>2, <1>3 DEF FoundWords

\* A round that finds a fifth word.
LEMMA RoundOverflows ==
    ASSUME input \in Seq(Pieces), NEW first, NEW last, Window(first, last),
           NEW t, FoundWords(t, 4, last), SkipSpaces(input, t.from, last) <= last
    PROVE  Round(t, input, last) = Overflow(t) /\ Cardinality(Starts) > 4
  <1> DEFINE s == SkipSpaces(input, t.from, last)
             stop == SkipWord(input, s, last)
  <1>1. s \in Starts /\ StartsBefore(s) = StartsBefore(t.from) /\ s <= last
    BY StartFound
  <1>2. /\ stop \in s + 1 .. last + 1
        /\ \A i \in s .. stop - 1 : input[i] \notin Blank
        /\ stop - 1 = Len(input) \/ input[stop] \in Blank
    BY <1>1, WordFound
  <1>3. Round(t, input, last) = Overflow(t)
    <2>1. s \in Nat /\ last \in Nat
      BY <1>1 DEF Starts, Window
    <2>2. ~(s > last)
      BY <1>1, <2>1
    <2>3. Len(t.values) = 4
      BY Zenon DEF FoundWords
    <2> QED
      BY <1>1, <2>2, <2>3, RoundCases
  <1> HIDE DEF s, stop
  <1>4. (stop - 1) + 1 = stop /\ stop - 1 \in s .. Len(input)
    BY <1>1, <1>2 DEF Starts, Window
  <1>5. Cardinality(StartsBefore(s)) = 4
    BY <1>1 DEF FoundWords
  <1>6. Cardinality(StartsBefore(s)) + 1 \in 1 .. Cardinality(Starts)
    BY <1>1, <1>2, <1>4, WordAt
  <1>7. Cardinality(Starts) \in Nat
    BY StartsFinite
  <1> QED
    BY <1>3, <1>5, <1>6, <1>7

\* After n rounds: n words are found, or all there are.
Reached(t, n, last) ==
    \E k \in Nat :
        /\ FoundWords(t, k, last) /\ k <= n
        /\ k = n \/ ~(SkipSpaces(input, t.from, last) <= last)

LEMMA NothingFound ==
    ASSUME input \in Seq(Pieces), NEW first, NEW last, Window(first, last)
    PROVE  Reached([values |-> <<>>, overflow |-> FALSE, from |-> first], 0, last)
  <1> DEFINE t == [values |-> <<>>, overflow |-> FALSE, from |-> first]
  <1>1. /\ first \in Nat /\ first >= 1 /\ last \in Nat /\ last <= Len(input)
        /\ first <= last + 1 /\ Len(input) \in Nat
        /\ \A i \in 1 .. Len(input) : i < first \/ i > last => input[i] \in Blank
    BY DEF Window
  <1>2. StartsBefore(first) = {}
    BY <1>1 DEF StartsBefore, Starts
  <1>3. Cardinality(StartsBefore(first)) = 0
    BY <1>2, FS_EmptySet
  <1>4. first > last \/ first = 1 \/ input[first - 1] \in Blank
    <2>1. CASE first # 1
      <3>1. first - 1 \in 1 .. Len(input) /\ first - 1 < first
        BY <1>1, <2>1
      <3> QED
        BY <1>1, <3>1
    <2> QED
      BY <2>1
  <1>5. t.values = <<>> /\ t.overflow = FALSE /\ t.from = first
        /\ t \in [values : Seq(Seq(Pieces)), overflow : BOOLEAN, from : Nat]
    <2>1. <<>> \in Seq(Seq(Pieces)) /\ FALSE \in BOOLEAN /\ first \in Nat
      BY <1>1
    <2> QED
      BY <2>1, Zenon
  <1> HIDE DEF t
  <1>6. FoundWords(t, 0, last)
    <2>1. Len(t.values) = 0 /\ \A j \in 1 .. 0 : t.values[j] = WordList[j]
      BY <1>5
    <2> QED
      BY <1>1, <1>3, <1>4, <1>5, <2>1 DEF FoundWords
  <1> QED
    BY <1>6 DEF Reached, t

LEMMA RoundReaches ==
    ASSUME input \in Seq(Pieces), NEW first, NEW last, Window(first, last),
           NEW n \in Nat, n < 4, NEW t, Reached(t, n, last)
    PROVE  Reached(Round(t, input, last), n + 1, last)
  <1>1. PICK k \in Nat : /\ FoundWords(t, k, last) /\ k <= n
                         /\ k = n \/ ~(SkipSpaces(input, t.from, last) <= last)
    BY DEF Reached
  <1>2. CASE SkipSpaces(input, t.from, last) <= last
    <2>1. k = n /\ k # 4
      BY <1>1, <1>2
    <2>2. FoundWords(Round(t, input, last), n + 1, last)
      BY <1>1, <1>2, <2>1, RoundFinds
    <2> QED
      BY <2>2 DEF Reached
  <1>3. CASE ~(SkipSpaces(input, t.from, last) <= last)
    <2>1. Round(t, input, last) = t
      BY <1>1, <1>3, RoundEnds
    <2>2. k <= n + 1
      BY <1>1
    <2> QED
      BY <1>1, <1>3, <2>1, <2>2 DEF Reached
  <1> QED
    BY <1>2, <1>3

\* The tokens are the words.
IsTokens(t) ==
    LET n == Cardinality(Starts) IN
    /\ t.values \in Seq(Seq(Pieces))
    /\ Len(t.values) = IF n < 4 THEN n ELSE 4
    /\ \A j \in 1 .. Len(t.values) : t.values[j] = WordList[j]
    /\ t.overflow <=> n > 4

LEMMA LastRound ==
    ASSUME input \in Seq(Pieces), NEW first, NEW last, Window(first, last),
           NEW t, Reached(t, 4, last)
    PROVE  IsTokens(Round(t, input, last))
  <1>1. PICK k \in Nat : /\ FoundWords(t, k, last) /\ k <= 4
                         /\ k = 4 \/ ~(SkipSpaces(input, t.from, last) <= last)
    BY DEF Reached
  <1>2. /\ t \in [values : Seq(Seq(Pieces)), overflow : BOOLEAN, from : Nat] /\ ~t.overflow
        /\ Len(t.values) = k /\ \A j \in 1 .. k : t.values[j] = WordList[j]
    BY <1>1 DEF FoundWords
  <1>3. CASE SkipSpaces(input, t.from, last) <= last
    <2>1. k = 4
      BY <1>1, <1>3
    <2>2. Round(t, input, last) = Overflow(t) /\ Cardinality(Starts) > 4
      BY <1>1, <1>3, <2>1, RoundOverflows
    <2>3. Overflow(t).values = t.values /\ Overflow(t).overflow = TRUE
      BY <1>2 DEF Overflow
    <2>4. Cardinality(Starts) \in Nat
      BY StartsFinite
    <2> DEFINE r == Round(t, input, last)
               n == Cardinality(Starts)
    <2>5. r.values = t.values /\ r.overflow
      BY <2>2, <2>3
    <2>6. n \in Nat /\ n > 4 /\ ~(n < 4)
      BY <2>2, <2>4
    <2>7. t.values \in Seq(Seq(Pieces)) /\ Len(t.values) = 4
      BY <1>2, <2>1
    <2> HIDE DEF r, n
    <2>8. IsTokens(r)
      BY <1>2, <2>1, <2>5, <2>6, <2>7, Zenon DEF IsTokens, n
    <2> QED
      BY <2>8 DEF r
  <1>4. CASE ~(SkipSpaces(input, t.from, last) <= last)
    <2>1. Round(t, input, last) = t /\ Cardinality(Starts) = k
      BY <1>1, <1>4, RoundEnds
    <2> DEFINE n == Cardinality(Starts)
    <2>2. n = k /\ ~(n > 4) /\ k = (IF n < 4 THEN n ELSE 4)
      BY <1>1, <2>1
    <2>3. t.values \in Seq(Seq(Pieces))
      BY <1>2
    <2> HIDE DEF n
    <2>4. IsTokens(t)
      BY <1>2, <2>2, <2>3, Zenon DEF IsTokens, n
    <2> QED
      BY <2>1, <2>4
  <1> QED
    BY <1>3, <1>4

\* Five rounds are enough for any input, since the fifth only tells whether there is a word
\* that does not fit the array.
LEMMA Tokenized ==
    ASSUME input \in Seq(Pieces), NEW first, NEW last, Window(first, last)
    PROVE  IsTokens(tokenize(input, first, last))
  <1> DEFINE t0 == [values |-> <<>>, overflow |-> FALSE, from |-> first]
             t1 == Round(t0, input, last)
             t2 == Round(t1, input, last)
             t3 == Round(t2, input, last)
             t4 == Round(t3, input, last)
  <1>0. tokenize(input, first, last) = Round(t4, input, last)
    BY DEF tokenize
  <1>1. Reached(t0, 0, last)
    BY NothingFound
  <1> HIDE DEF t0
  <1>2. Reached(t1, 1, last)
    BY <1>1, RoundReaches
  <1> HIDE DEF t1
  <1>3. Reached(t2, 2, last)
    BY <1>2, RoundReaches
  <1> HIDE DEF t2
  <1>4. Reached(t3, 3, last)
    BY <1>3, RoundReaches
  <1> HIDE DEF t3
  <1>5. Reached(t4, 4, last)
    BY <1>4, RoundReaches
  <1> HIDE DEF t4
  <1> QED
    BY <1>0, <1>5, LastRound

InputType == input \in Seq(Pieces)

LEMMA InputTypeAlways == InputSpec => []InputType
  <1>1. InputInit => InputType /\ vocabulary \in Vocabularies
    BY DEF InputInit, InputType
  <1>2. (InputType /\ vocabulary \in Vocabularies) /\ [Type]_inputVars
            => (InputType /\ vocabulary \in Vocabularies)'
    <2> SUFFICES ASSUME InputType, vocabulary \in Vocabularies, [Type]_inputVars
                 PROVE  InputType' /\ vocabulary' \in Vocabularies
      OBVIOUS
    <2>1. CASE Type
      <3>1. PICK piece \in vocabulary.pieces : input' = Append(input, piece)
        BY <2>1 DEF Type
      <3>2. piece \in Pieces
        BY DEF Pieces
      <3> QED
        BY <2>1, <3>1, <3>2 DEF Type, InputType
    <2>2. CASE UNCHANGED inputVars
      BY <2>2 DEF inputVars, InputType
    <2> QED
      BY <2>1, <2>2
  <1> QED
    BY <1>1, <1>2, PTL DEF InputSpec

LEMMA WordListType ==
    ASSUME InputType
    PROVE  /\ Cardinality(Starts) \in Nat /\ Len(WordList) = Cardinality(Starts)
           /\ DOMAIN WordList = 1 .. Cardinality(Starts)
  <1>1. Cardinality(Starts) \in Nat
    BY StartsFinite DEF InputType
  <1> QED
    BY <1>1 DEF WordList

LEMMA SeqIsFunction ==
    ASSUME NEW S, NEW s \in Seq(S)
    PROVE  s = [j \in 1 .. Len(s) |-> s[j]]
  OBVIOUS

LEMMA TokensAreTheWords == InputType => TokensAreWords
  <1> SUFFICES ASSUME InputType PROVE TokensAreWords
    OBVIOUS
  <1> DEFINE t == tokenize(input, 1, Len(input))
             n == Cardinality(Starts)
             m == IF n < 4 THEN n ELSE 4
  <1>1. Window(1, Len(input))
    BY DEF Window, InputType
  <1>2. IsTokens(t)
    BY <1>1, Tokenized DEF InputType
  <1>3. n \in Nat /\ Len(WordList) = n
    BY WordListType
  <1> HIDE DEF t, n
  <1>4. t.values = SubSeq(WordList, 1, m)
    <2>1. SubSeq(WordList, 1, m) = [j \in 1 .. m |-> WordList[j]]
      BY <1>3
    <2>2. t.values \in Seq(Seq(Pieces)) /\ Len(t.values) = m
          /\ \A j \in 1 .. m : t.values[j] = WordList[j]
      BY <1>2 DEF IsTokens, n
    <2> HIDE DEF m
    <2>3. t.values = [j \in 1 .. m |-> t.values[j]]
      BY <2>2, SeqIsFunction, Zenon
    <2> QED
      BY <2>1, <2>2, <2>3
  <1>5. t.overflow <=> n > 4
    BY <1>2 DEF IsTokens, n
  <1> QED
    BY <1>3, <1>4, <1>5 DEF TokensAreWords, t
---------------------------------------------------------------------------------
(* parse_command().                                                                *)

LEMMA ShortTuples ==
    ASSUME NEW S, NEW s \in Seq(S)
    PROVE  /\ Len(s) = 1 => s = <<s[1]>>
           /\ Len(s) = 2 => s = <<s[1], s[2]>>
           /\ Len(s) = 3 => s = <<s[1], s[2], s[3]>>
  OBVIOUS

\* What parse_command() makes of its tokens.
Parsed(values) ==
    LET verb == IF values = <<>> THEN <<>> ELSE values[1]
    IN  IF verb \in {<<s>> : s \in Simple}
        THEN IF Len(values) # 1 THEN Error("wrong_argument_count")
             ELSE Ok(CommandOf(verb[1], "none", 0))
        ELSE IF verb # <<"inject">> THEN Error("unknown_command")
        ELSE parse_inject(values)

LEMMA InjectIsNotSimple == <<"inject">> \notin {<<s>> : s \in Simple}
  <1> SUFFICES ASSUME NEW s \in Simple, <<"inject">> = <<s>> PROVE FALSE
    OBVIOUS
  <1>1. s = "inject"
    OBVIOUS
  <1> QED
    BY <1>1 DEF Simple

\* in_range() is the interval the grammar gives for each target.
LEMMA RangeIsLimits ==
    ASSUME NEW t \in Measured, NEW value \in Int
    PROVE  in_range(t, value) <=> Within(t, value)
  <1>1. CASE t = "temperature"
    BY <1>1 DEF in_range, Within, Limits
  <1>2. CASE t = "current"
    BY <1>2 DEF in_range, Within, Limits
  <1>3. CASE t = "vibration"
    BY <1>3 DEF in_range, Within, Limits
  <1> QED
    BY <1>1, <1>2, <1>3 DEF Measured, InjectionTarget

LEMMA SimpleParsed ==
    ASSUME NEW s \in Simple
    PROVE  Parsed(<<<<s>>>>) = Ok(CommandOf(s, "none", 0))
  <1> DEFINE v == <<<<s>>>>
  <1>1. v # <<>> /\ v[1] = <<s>> /\ Len(v) = 1 /\ <<s>>[1] = s
    OBVIOUS
  <1> HIDE DEF v
  <1>2. v[1] \in {<<r>> : r \in Simple} /\ v[1][1] = s
    BY <1>1
  <1>3. Parsed(v) = Ok(CommandOf(s, "none", 0))
    BY <1>1, <1>2, Zenon DEF Parsed
  <1> QED
    BY <1>3 DEF v

LEMMA InjectParsed ==
    ASSUME NEW values, values # <<>>, values[1] = <<"inject">>
    PROVE  Parsed(values) = parse_inject(values)
  BY InjectIsNotSimple, Zenon DEF Parsed

LEMMA OfflineParsed ==
    Parsed(<<<<"inject">>, <<"offline">>>>) = Ok(CommandOf("inject", "offline", 0))
  <1> DEFINE v == <<<<"inject">>, <<"offline">>>>
  <1>1. v # <<>> /\ v[1] = <<"inject">> /\ v[2] = <<"offline">> /\ Len(v) = 2
    OBVIOUS
  <1> HIDE DEF v
  <1>2. v[2] \in {<<t>> : t \in InjectionTarget} /\ v[2][1] = "offline"
    BY <1>1 DEF InjectionTarget
  <1>3. Parsed(v) = parse_inject(v)
    BY <1>1, InjectParsed
  <1>4. parse_inject(v) = Ok(CommandOf("inject", "offline", 0))
    <2>1. ~(Len(v) < 2) /\ ~(Len(v) # 2)
      BY <1>1
    <2> QED
      BY <1>1, <1>2, <2>1, SMT DEF parse_inject
  <1> QED
    BY <1>3, <1>4 DEF v

LEMMA MeasuredParsed ==
    ASSUME NEW t \in Measured, NEW n \in DOMAIN Numerals, Within(t, Numerals[n])
    PROVE  Parsed(<<<<"inject">>, <<t>>, <<n>>>>) = Ok(CommandOf("inject", t, Numerals[n]))
  <1> DEFINE v == <<<<"inject">>, <<t>>, <<n>>>>
  <1>1. v # <<>> /\ v[1] = <<"inject">> /\ v[2] = <<t>> /\ v[3] = <<n>> /\ Len(v) = 3
    OBVIOUS
  <1> HIDE DEF v
  <1>2. v[2] \in {<<r>> : r \in InjectionTarget} /\ v[2][1] = t /\ t # "offline"
    BY <1>1 DEF InjectionTarget, Measured
  <1>3. parse_number(v[3]) /\ v[3][1] = n
    <2>1. Len(<<n>>) = 1 /\ <<n>>[1] = n
      OBVIOUS
    <2> QED
      BY <1>1, <2>1, Zenon DEF parse_number
  <1>4. in_range(t, Numerals[n])
    BY RangeIsLimits, NumeralsAssumption
  <1>5. Parsed(v) = parse_inject(v)
    BY <1>1, InjectParsed
  <1>6. parse_inject(v) = Ok(CommandOf("inject", t, Numerals[n]))
    <2>1. ~(Len(v) < 2) /\ Len(v) # 2 /\ ~(Len(v) # 3)
      BY <1>1
    <2> QED
      BY <1>2, <1>3, <1>4, <2>1 DEF parse_inject
  <1> QED
    BY <1>5, <1>6 DEF v

\* Each line of the grammar is read as its command ...
LEMMA LinesParsed ==
    ASSUME NEW line \in Grammar
    PROVE  Parsed(line.words) = Ok(line.command) /\ Len(line.words) \in 1 .. 3
  <1>1. CASE line \in {[words |-> <<<<s>>>>, command |-> CommandOf(s, "none", 0)] : s \in Simple}
    <2>1. PICK s \in Simple : line = [words |-> <<<<s>>>>, command |-> CommandOf(s, "none", 0)]
      BY <1>1
    <2>2. line.words = <<<<s>>>> /\ line.command = CommandOf(s, "none", 0)
      BY <2>1
    <2>3. Len(<<<<s>>>>) \in 1 .. 3
      OBVIOUS
    <2> QED
      BY <2>2, <2>3, SimpleParsed
  <1>2. CASE line = [words |-> <<<<"inject">>, <<"offline">>>>,
                     command |-> CommandOf("inject", "offline", 0)]
    <2>1. line.words = <<<<"inject">>, <<"offline">>>>
          /\ line.command = CommandOf("inject", "offline", 0)
      BY <1>2
    <2>2. Len(<<<<"inject">>, <<"offline">>>>) \in 1 .. 3
      OBVIOUS
    <2> QED
      BY <2>1, <2>2, OfflineParsed
  <1>3. CASE \E t \in Measured : \E n \in {m \in DOMAIN Numerals : Within(t, Numerals[m])} :
                line = [words |-> <<<<"inject">>, <<t>>, <<n>>>>,
                        command |-> CommandOf("inject", t, Numerals[n])]
    <2>0. PICK t \in Measured : \E n \in {m \in DOMAIN Numerals : Within(t, Numerals[m])} :
             line = [words |-> <<<<"inject">>, <<t>>, <<n>>>>,
                     command |-> CommandOf("inject", t, Numerals[n])]
      BY <1>3
    <2>1. PICK n \in {m \in DOMAIN Numerals : Within(t, Numerals[m])} :
             line = [words |-> <<<<"inject">>, <<t>>, <<n>>>>,
                     command |-> CommandOf("inject", t, Numerals[n])]
      BY <2>0
    <2>2. line.words = <<<<"inject">>, <<t>>, <<n>>>>
          /\ line.command = CommandOf("inject", t, Numerals[n])
      BY <2>1
    <2>3. Len(<<<<"inject">>, <<t>>, <<n>>>>) \in 1 .. 3
      OBVIOUS
    <2> QED
      BY <2>2, <2>3, MeasuredParsed
  <1> QED
    BY <1>1, <1>2, <1>3 DEF Grammar

\* ... and what is read as a command is a line of the grammar.
LEMMA ParsedLines ==
    ASSUME NEW v \in Seq(Seq(Pieces)), Parsed(v).error = "none"
    PROVE  \E line \in Grammar : line.words = v
  <1>0. \A e : Error(e).error = e
    BY DEF Error
  <1>1. CASE v # <<>> /\ v[1] \in {<<s>> : s \in Simple}
    <2>1. PICK s \in Simple : v[1] = <<s>>
      BY <1>1
    <2>2. Len(v) = 1
      <3>1. Len(v) # 1 => Parsed(v) = Error("wrong_argument_count")
        BY <1>1, Zenon DEF Parsed
      <3>2. "wrong_argument_count" # "none"
        OBVIOUS
      <3> QED
        BY <1>0, <3>1, <3>2, Zenon
    <2>3. v = <<v[1]>>
      BY <2>2, ShortTuples
    <2>4. v = <<<<s>>>>
      BY <2>1, <2>3
    <2> DEFINE line == [words |-> <<<<s>>>>, command |-> CommandOf(s, "none", 0)]
    <2>5. line \in Grammar /\ line.words = <<<<s>>>>
      BY DEF Grammar
    <2> QED
      BY <2>4, <2>5
  <1>2. CASE v # <<>> /\ v[1] = <<"inject">>
    <2>1. Parsed(v) = parse_inject(v)
      BY <1>2, InjectParsed
    <2>2. ~(Len(v) < 2) /\ v[2] \in {<<t>> : t \in InjectionTarget}
      BY <1>0, <2>1 DEF parse_inject
    <2>3. PICK t \in InjectionTarget : v[2] = <<t>>
      BY <2>2
    <2>4. v[2][1] = t
      BY <2>3
    <2>5. CASE t = "offline"
      <3>1. Len(v) = 2
        BY <1>0, <2>1, <2>2, <2>4, <2>5 DEF parse_inject
      <3>2. v = <<v[1], v[2]>>
        BY <3>1, ShortTuples
      <3>3. v = <<<<"inject">>, <<"offline">>>>
        BY <1>2, <2>3, <2>5, <3>2
      <3> DEFINE line == [words |-> <<<<"inject">>, <<"offline">>>>,
                          command |-> CommandOf("inject", "offline", 0)]
      <3>4. line \in Grammar /\ line.words = <<<<"inject">>, <<"offline">>>>
        BY DEF Grammar
      <3> QED
        BY <3>3, <3>4
    <2>6. CASE t # "offline"
      <3>1. Len(v) = 3
        BY <1>0, <2>1, <2>2, <2>4, <2>6 DEF parse_inject
      <3>2. parse_number(v[3]) /\ in_range(t, Numerals[v[3][1]])
        <4>1. parse_inject(v) =
                LET value == Numerals[v[3][1]] IN
                  IF ~parse_number(v[3]) THEN Error("invalid_number")
                  ELSE IF ~in_range(t, value) THEN Error("out_of_range")
                  ELSE Ok(CommandOf("inject", t, value))
          BY <2>2, <2>4, <2>6, <3>1 DEF parse_inject
        <4>2. parse_inject(v).error = "none"
          BY <2>1
        <4>3. ~parse_number(v[3]) => parse_inject(v).error = "invalid_number"
          BY <1>0, <4>1, Zenon
        <4>4. parse_number(v[3]) /\ ~in_range(t, Numerals[v[3][1]])
                => parse_inject(v).error = "out_of_range"
          BY <1>0, <4>1, Zenon
        <4>5. "invalid_number" # "none" /\ "out_of_range" # "none"
          OBVIOUS
        <4> QED
          BY <4>2, <4>3, <4>4, <4>5, Zenon
      <3>3. v = <<v[1], v[2], v[3]>> /\ v[3] \in Seq(Pieces)
        BY <3>1, ShortTuples
      <3> DEFINE n == v[3][1]
      <3>4. v[3] = <<n>> /\ n \in DOMAIN Numerals
        BY <3>2, <3>3, ShortTuples DEF parse_number
      <3>5. t \in Measured
        BY <2>6 DEF InjectionTarget
      <3> HIDE DEF n
      <3>6. Within(t, Numerals[n])
        BY <3>2, <3>4, <3>5, RangeIsLimits, NumeralsAssumption DEF n
      <3>7. v = <<<<"inject">>, <<t>>, <<n>>>>
        BY <1>2, <2>3, <3>3, <3>4
      <3> DEFINE line == [words |-> <<<<"inject">>, <<t>>, <<n>>>>,
                          command |-> CommandOf("inject", t, Numerals[n])]
      <3>8. line \in Grammar /\ line.words = <<<<"inject">>, <<t>>, <<n>>>>
        <4>1. n \in {m \in DOMAIN Numerals : Within(t, Numerals[m])}
          BY <3>4, <3>6
        <4>2. line \in {[words |-> <<<<"inject">>, <<t>>, <<r>>>>,
                        command |-> CommandOf("inject", t, Numerals[r])] :
                          r \in {m \in DOMAIN Numerals : Within(t, Numerals[m])}}
          BY <4>1, Zenon
        <4>3. line \in Grammar
          BY <3>5, <4>2, Zenon DEF Grammar
        <4> QED
          BY <4>3
      <3> QED
        BY <3>7, <3>8
    <2> QED
      BY <2>5, <2>6
  <1>3. CASE v = <<>> \/ (v[1] \notin {<<s>> : s \in Simple} /\ v[1] # <<"inject">>)
    <2>1. <<>> \notin {<<s>> : s \in Simple} /\ <<>> # <<"inject">>
      OBVIOUS
    <2>2. Parsed(v) = Error("unknown_command")
      BY <1>3, <2>1, Zenon DEF Parsed
    <2> QED
      BY <1>0, <2>2
  <1> QED
    BY <1>1, <1>2, <1>3

LEMMA RejectedIsInvalid ==
    ASSUME NEW values, Parsed(values).error # "none"
    PROVE  Parsed(values).command.kind = "invalid"
  <1>1. \A c : Ok(c).error = "none"
    BY DEF Ok
  <1>2. \A e : Error(e).command.kind = "invalid"
    BY DEF Error, CommandOf
  <1>3. (\E c : parse_inject(values) = Ok(c)) \/ (\E e : parse_inject(values) = Error(e))
    BY DEF parse_inject
  <1>4. (\E c : Parsed(values) = Ok(c)) \/ (\E e : Parsed(values) = Error(e))
    BY <1>3 DEF Parsed
  <1> QED
    BY <1>1, <1>2, <1>4

\* trim() leaves out nothing but spaces, and an empty view has no words.
LEMMA TrimmedWindow ==
    ASSUME InputType
    PROVE  Window(trim(input).first, trim(input).last)
  <1> DEFINE first == SkipSpaces(input, 1, Len(input))
             Kept == {i \in first .. Len(input) : ~is_space(input[i])} \cup {first - 1}
  <1>1. Len(input) \in Nat
    BY DEF InputType
  <1>2. first \in 1 .. Len(input) + 1 /\ \A i \in 1 .. first - 1 : is_space(input[i])
    <2>1. 1 \in Nat /\ 1 <= Len(input) + 1
      BY <1>1
    <2>2. first \in 1 .. Len(input) + 1 /\ \A i \in 1 .. first - 1 : input[i] \in Blank
      BY <1>1, <2>1, SkipSpacesStops
    <2> QED
      BY <2>2, SpaceIsBlank
  <1>3. trim(input).first = first /\ trim(input).last = Max(Kept)
    BY DEF trim
  <1> HIDE DEF first
  <1>4. Kept \in SUBSET Nat /\ first - 1 \in Kept /\ \A x \in Kept : x <= Len(input)
    BY <1>1, <1>2
  <1> HIDE DEF Kept
  <1>5. Max(Kept) \in Kept /\ \A y \in Kept : Max(Kept) >= y
    BY <1>1, <1>4, MaxOfSet
  <1> DEFINE last == Max(Kept)
  <1> HIDE DEF last
  <1>6. last \in Nat /\ last <= Len(input) /\ first <= last + 1
    <2>1. last \in Kept /\ last >= first - 1
      BY <1>4, <1>5 DEF last
    <2> QED
      BY <1>2, <1>4, <2>1
  <1>7. ASSUME NEW i \in 1 .. Len(input), i < first \/ i > last
        PROVE  input[i] \in Blank
    <2>1. is_space(input[i])
      <3>1. CASE i < first
        BY <1>2, <3>1
      <3>2. CASE i >= first /\ i > last
        <4>1. i \notin Kept
          BY <1>5, <1>6, <3>2 DEF last
        <4> QED
          BY <1>1, <1>2, <3>2, <4>1 DEF Kept
      <3> QED
        BY <1>2, <1>7, <3>1, <3>2
    <2> QED
      BY <2>1, SpaceIsBlank
  <1>8. Window(first, last)
    BY <1>2, <1>6, <1>7 DEF Window
  <1> QED
    BY <1>3, <1>8 DEF last

LEMMA EmptyHasNoWords ==
    ASSUME InputType, NEW first, NEW last, Window(first, last), first > last
    PROVE  Cardinality(Starts) = 0
  <1>1. \A i \in 1 .. Len(input) : input[i] \in Blank
    BY DEF Window, InputType
  <1>2. Starts = {}
    BY <1>1 DEF Starts
  <1> QED
    BY <1>2, FS_EmptySet

\* One case for each of the errors parse_command() may return before it looks at the tokens.
LEMMA GrammarIsAccepted == InputType => AcceptsTheGrammar
  <1> SUFFICES ASSUME InputType PROVE AcceptsTheGrammar
    OBVIOUS
  <1> DEFINE view == trim(input)
             tokens == tokenize(input, view.first, view.last)
             result == parse_command(input)
             n == Cardinality(Starts)
             lines == {line \in Grammar : line.words = WordList}
  <1>1. Window(view.first, view.last)
    BY TrimmedWindow
  <1>2. IsTokens(tokens)
    BY <1>1, Tokenized DEF InputType
  <1>3. n \in Nat /\ Len(WordList) = n
    BY WordListType
  <1>4. Len(input) \in Nat
    BY DEF InputType
  <1>5. result =
          IF Len(input) > kMaximumCommandLength THEN Error("too_long")
          ELSE IF view.first > view.last THEN Error("empty")
          ELSE IF tokens.overflow THEN Error("wrong_argument_count")
          ELSE Parsed(tokens.values)
    BY Zenon DEF parse_command, Parsed
  <1>6. \A e : Error(e).error = e /\ Error(e).command.kind = "invalid"
    BY DEF Error, CommandOf
  <1> HIDE DEF view, tokens, result
  <1>7. ASSUME n \notin 1 .. 3 PROVE lines = {}
    BY <1>3, <1>7, LinesParsed
  <1>8. CASE Len(input) > kMaximumCommandLength
    <2>1. result = Error("too_long")
      BY <1>5, <1>8, Zenon
    <2>2. ~(Len(input) <= kMaximumCommandLength)
      BY <1>4, <1>8, LengthAssumption
    <2> QED
      BY <1>6, <2>1, <2>2 DEF AcceptsTheGrammar, result
  <1>9. CASE ~(Len(input) > kMaximumCommandLength) /\ view.first > view.last
    <2>1. result = Error("empty")
      BY <1>5, <1>9, Zenon
    <2>2. lines = {}
      BY <1>1, <1>7, <1>9, EmptyHasNoWords
    <2> QED
      BY <1>6, <2>1, <2>2 DEF AcceptsTheGrammar, result
  <1>10. CASE ~(Len(input) > kMaximumCommandLength) /\ ~(view.first > view.last) /\ tokens.overflow
    <2>1. result = Error("wrong_argument_count")
      BY <1>5, <1>10, Zenon
    <2>2. n > 4
      BY <1>2, <1>10 DEF IsTokens
    <2>3. lines = {}
      BY <1>3, <1>7, <2>2
    <2> QED
      BY <1>6, <2>1, <2>3 DEF AcceptsTheGrammar, result
  <1>11. CASE ~(Len(input) > kMaximumCommandLength) /\ ~(view.first > view.last)
              /\ ~tokens.overflow
    <2>1. result = Parsed(tokens.values)
      BY <1>5, <1>11, Zenon
    <2>2. n <= 4 /\ tokens.values \in Seq(Seq(Pieces)) /\ Len(tokens.values) = n
          /\ \A j \in 1 .. n : tokens.values[j] = WordList[j]
      BY <1>2, <1>3, <1>11 DEF IsTokens
    <2>3. tokens.values = WordList
      <3>1. tokens.values = [j \in 1 .. n |-> tokens.values[j]]
        BY <2>2, SeqIsFunction, Zenon
      <3>2. WordList = [j \in 1 .. n |-> WordList[j]]
        BY DEF WordList
      <3> QED
        BY <2>2, <3>1, <3>2
    <2>4. CASE lines # {}
      <3>1. \A line \in lines : result = Ok(line.command)
        BY <2>1, <2>3, LinesParsed
      <3>2. Len(input) <= kMaximumCommandLength
        BY <1>4, <1>11, LengthAssumption
      <3> QED
        BY <2>4, <3>1, <3>2 DEF AcceptsTheGrammar, result
    <2>5. CASE lines = {}
      <3>1. Parsed(tokens.values).error # "none"
        BY <2>2, <2>3, <2>5, ParsedLines
      <3>2. result.command.kind = "invalid"
        BY <2>1, <3>1, RejectedIsInvalid
      <3> QED
        BY <2>1, <2>5, <3>1, <3>2 DEF AcceptsTheGrammar, result
    <2> QED
      BY <2>4, <2>5
  <1> QED
    BY <1>8, <1>9, <1>10, <1>11

\* tokenize() on any input: its array holds the first four words of the input in their order,
\* each of them whole, and overflow tells whether there is a fifth.
THEOREM TokensAreWordsCorrect == InputSpec => []TokensAreWords
  BY InputTypeAlways, TokensAreTheWords, PTL

\* parse_command() on any input: a text that is not too long and whose words are a line of the
\* grammar is the command of that line, whatever spaces it has; every other text is an error
\* and no command.
THEOREM AcceptsTheGrammarCorrect == InputSpec => []AcceptsTheGrammar
  BY InputTypeAlways, GrammarIsAccepted, PTL
=================================================================================
