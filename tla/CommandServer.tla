----------------------------- MODULE CommandServer -----------------------------
(* linux/unix_command_server.cpp and its client apps/edgectl_main.cpp: servers   *)
(* that share a socket path (a daemon and the one that replaces it), each with a *)
(* caller of start() and stop() and an accept thread, and clients that send one  *)
(* command each.  The file system and the kernel's sockets are modelled by what  *)
(* the calls in the code do to them.                                             *)
(*                                                                               *)
(* A command is its number of bytes; the newline edgectl adds is the last one.   *)
EXTENDS CommandLimit, Sequences

CONSTANTS
    Servers, Clients,
    NoClient,
    MaxStarts,               \* bound: calls of start() of each server
    MaxCrashes,              \* bound: servers killed
    MaxFailures              \* bound: system calls of start() that fail

ASSUME ServersAssumption == Servers \cap {"none", "stale", "foreign"} = {}
ASSUME BoundAssumption == MaxStarts \in Nat /\ MaxCrashes \in Nat /\ MaxFailures \in Nat

VARIABLES
    path,      \* what socket_path_ names: "none", a server's socket, "stale", the socket
               \* of a server that was killed, or "foreign", a file that is no socket
    running_, owns_socket_path_, listener_,
    stop_token,    \* request_stop() on thread_
    pc,            \* the caller of start() and stop()
    thread,        \* the accept thread
    backlog,       \* connections waiting for accept4()
    serving, used, \* serve_client(): the connection, and the bytes in buffer
    starts, crashes, failures,
    cpc,           \* where edgectl is
    left,          \* bytes of the command it has not sent yet
    inflight,      \* bytes sent and not yet received
    conn,          \* the connection: "none", "queued", "accepted" or "closed" by the server
    reply,         \* the response on its way to the client
    executed       \* bytes of its command that were handed to handler_

pathVars == <<path, owns_socket_path_>>
lifecycle == <<running_, listener_, stop_token, pc>>
counts == <<starts, crashes, failures>>
threadVars == <<thread, serving, used>>
clientVars == <<cpc, left, inflight, conn, reply, executed>>
service == <<threadVars, backlog, clientVars>>
vars == <<pathVars, lifecycle, counts, service>>

BufferSize == kMaximumCommandLength + 2

Init ==
    /\ path \in {"none", "foreign"}
    /\ running_ = [s \in Servers |-> FALSE]
    /\ owns_socket_path_ = [s \in Servers |-> FALSE]
    /\ listener_ = [s \in Servers |-> "none"]
    /\ stop_token = [s \in Servers |-> FALSE]
    /\ pc = [s \in Servers |-> "idle"]
    /\ thread = [s \in Servers |-> "none"]
    /\ backlog = [s \in Servers |-> <<>>]
    /\ serving = [s \in Servers |-> NoClient]
    /\ used = [s \in Servers |-> 0]
    /\ starts = [s \in Servers |-> 0] /\ crashes = 0 /\ failures = 0
    /\ cpc = [c \in Clients |-> "idle"]
    /\ left \in [Clients -> 2 .. kMaximumCommandLength + 1]
    /\ inflight = [c \in Clients |-> 0]
    /\ conn = [c \in Clients |-> "none"]
    /\ reply = [c \in Clients |-> "none"]
    /\ executed = [c \in Clients |-> 0]

Goto(s, from, to) == pc[s] = from /\ pc' = [pc EXCEPT ![s] = to]

---------------------------------------------------------------------------------
(* start().                                                                      *)

\* Faulty variant: whatever is at the path is an error.
FoundRefusesAll == IF path = "none" THEN "bind" ELSE "refused"

\* What lstat() decides: a socket will be removed, be its server alive or not, anything
\* else is refused.  All servers run as one user.
Found == CASE path = "none" -> "bind"
           [] path = "foreign" -> "refused"
           [] OTHER -> "unlink"

\* A running server refuses at once and so does one with a path too long for bind():
\* neither changes anything.
Start(s) ==
    /\ ~running_[s] /\ starts[s] < MaxStarts
    /\ starts' = [starts EXCEPT ![s] = @ + 1]
    /\ Goto(s, "idle", Found)
    /\ UNCHANGED <<pathVars, running_, listener_, stop_token, crashes, failures, service>>

\* unlink() fails when another server was faster.
StartUnlink(s) ==
    /\ path' = "none"
    /\ Goto(s, "unlink", IF path = "none" THEN "raced" ELSE "bind")
    /\ UNCHANGED <<owns_socket_path_, running_, listener_, stop_token, counts, service>>

StartBind(s) ==
    /\ IF path = "none"
       THEN /\ path' = s
            /\ owns_socket_path_' = [owns_socket_path_ EXCEPT ![s] = TRUE]
            /\ Goto(s, "bind", "listen")
       ELSE Goto(s, "bind", "raced") /\ UNCHANGED pathVars
    /\ UNCHANGED <<running_, listener_, stop_token, counts, service>>

Fail == failures < MaxFailures /\ failures' = failures + 1

\* unlink(), socket() or bind() fails.
StartFails(s) ==
    /\ \E at \in {"unlink", "bind"} : Goto(s, at, "failed")
    /\ Fail
    /\ UNCHANGED <<pathVars, running_, listener_, stop_token, starts, crashes, service>>

StartListen(s) ==
    /\ path # "none"
    /\ Goto(s, "listen", "idle")
    /\ listener_' = [listener_ EXCEPT ![s] = "listening"]
    /\ running_' = [running_ EXCEPT ![s] = TRUE]
    /\ stop_token' = [stop_token EXCEPT ![s] = FALSE]
    /\ thread' = [thread EXCEPT ![s] = "loop"]
    /\ UNCHANGED <<pathVars, counts, serving, used, backlog, clientVars>>

\* chmod() or listen() fails; chmod() always does when the path is gone.
StartListenFails(s) ==
    /\ IF path = "none" THEN UNCHANGED failures ELSE Fail
    /\ Goto(s, "listen", "failed")
    /\ path' = "none"
    /\ owns_socket_path_' = [owns_socket_path_ EXCEPT ![s] = FALSE]
    /\ UNCHANGED <<running_, listener_, stop_token, starts, crashes, service>>

\* start() returns false.
StartReturnsFalse(s) ==
    /\ \E why \in {"refused", "raced", "failed"} : Goto(s, why, "idle")
    /\ UNCHANGED <<pathVars, running_, listener_, stop_token, counts, service>>

StartStep(s) ==
    \/ StartUnlink(s) \/ StartBind(s) \/ StartFails(s) \/ StartListen(s)
    \/ StartListenFails(s) \/ StartReturnsFalse(s)

---------------------------------------------------------------------------------
(* stop(), and a server that is killed.                                          *)

\* running_.exchange(false); a second stop() finds it false and returns.
Stop(s) ==
    /\ running_[s]
    /\ running_' = [running_ EXCEPT ![s] = FALSE]
    /\ Goto(s, "idle", "request")
    /\ UNCHANGED <<pathVars, listener_, stop_token, counts, service>>

StopRequest(s) ==
    /\ Goto(s, "request", "shutdown")
    /\ stop_token' = [stop_token EXCEPT ![s] = TRUE]
    /\ UNCHANGED <<pathVars, running_, listener_, counts, service>>

StopShutdown(s) ==
    /\ Goto(s, "shutdown", "join")
    /\ listener_' = [listener_ EXCEPT ![s] = "shut"]
    /\ UNCHANGED <<pathVars, running_, stop_token, counts, service>>

\* Faulty variant: the descriptor is closed while the thread still uses it.
JoinedForgotten(s) == TRUE

Joined(s) == thread[s] = "exited"

\* Faulty variant: the listener stays open.
WaitingForever(s) == {}

\* Closing the listener closes the connections that were not accepted.
Hangup(cs) == conn' = [c \in Clients |-> IF c \in cs THEN "closed" ELSE conn[c]]
Waiting(s) == {backlog[s][i] : i \in 1 .. Len(backlog[s])}

StopJoin(s) ==
    /\ Joined(s)
    /\ Goto(s, "join", "remove")
    /\ thread' = [thread EXCEPT ![s] = IF @ = "exited" THEN "none" ELSE @]
    /\ listener_' = [listener_ EXCEPT ![s] = "none"]
    /\ Hangup(Waiting(s))
    /\ backlog' = [backlog EXCEPT ![s] = <<>>]
    /\ UNCHANGED <<pathVars, running_, stop_token, counts, serving, used,
                   cpc, left, inflight, reply, executed>>

\* Faulty variant: the socket file stays behind.
AfterStopKept(s) == path

AfterStop(s) == IF owns_socket_path_[s] THEN "none" ELSE path

StopRemove(s) ==
    /\ Goto(s, "remove", "idle")
    /\ path' = AfterStop(s)
    /\ owns_socket_path_' = [owns_socket_path_ EXCEPT ![s] = FALSE]
    /\ UNCHANGED <<running_, listener_, stop_token, counts, service>>

StopStep(s) == StopRequest(s) \/ StopShutdown(s) \/ StopJoin(s) \/ StopRemove(s)

\* The process dies: the kernel closes its sockets, the file stays.
Crash(s) ==
    /\ crashes < MaxCrashes /\ crashes' = crashes + 1
    /\ path' = IF path = s THEN "stale" ELSE path
    /\ owns_socket_path_' = [owns_socket_path_ EXCEPT ![s] = FALSE]
    /\ running_' = [running_ EXCEPT ![s] = FALSE]
    /\ listener_' = [listener_ EXCEPT ![s] = "none"]
    /\ pc' = [pc EXCEPT ![s] = "idle"]
    /\ thread' = [thread EXCEPT ![s] = "none"]
    /\ serving' = [serving EXCEPT ![s] = NoClient]
    /\ used' = [used EXCEPT ![s] = 0]
    /\ Hangup(Waiting(s) \cup {serving[s]})
    /\ backlog' = [backlog EXCEPT ![s] = <<>>]
    /\ UNCHANGED <<stop_token, starts, failures, cpc, left, inflight, reply, executed>>

---------------------------------------------------------------------------------
(* accept_loop() and serve_client().                                             *)

\* serve_client() returns and the client's descriptor is closed.
Close(s) ==
    /\ thread' = [thread EXCEPT ![s] = "loop"]
    /\ serving' = [serving EXCEPT ![s] = NoClient]
    /\ used' = [used EXCEPT ![s] = 0]
    /\ Hangup({serving[s]})

\* The head of the loop: stop_requested() is looked at between two connections only.
Loop(s) ==
    /\ thread[s] = "loop"
    /\ thread' = [thread EXCEPT ![s] = IF stop_token[s] THEN "exited" ELSE "poll"]
    /\ UNCHANGED <<pathVars, lifecycle, counts, serving, used, backlog, clientVars>>

\* poll() returns without a connection: after 100 ms back to the loop; accept4() on a
\* listener that was shut down fails, and running_ is false then.
PollNothing(s) ==
    /\ thread[s] = "poll" /\ backlog[s] = <<>>
    /\ thread' = [thread EXCEPT ![s] =
                    IF listener_[s] = "shut" /\ ~running_[s] THEN "exited" ELSE "loop"]
    /\ UNCHANGED <<pathVars, lifecycle, counts, serving, used, backlog, clientVars>>

Accept(s) ==
    /\ thread[s] = "poll" /\ backlog[s] # <<>>
    /\ thread' = [thread EXCEPT ![s] = "receive"]
    /\ serving' = [serving EXCEPT ![s] = Head(backlog[s])]
    /\ backlog' = [backlog EXCEPT ![s] = Tail(@)]
    /\ conn' = [conn EXCEPT ![Head(backlog[s])] = "accepted"]
    /\ UNCHANGED <<pathVars, lifecycle, counts, used, cpc, left, inflight, reply, executed>>

\* No more bytes will come from c: edgectl has shut its side down or is gone.
Ended(c) == inflight[c] = 0 /\ cpc[c] \in {"waiting", "died"}

\* Faulty variants: a second without a byte ends the command instead of the
\* connection; the server waits for as long as it takes.
TimeoutEndsCommand(s) ==
    /\ thread' = [thread EXCEPT ![s] = "respond"]
    /\ UNCHANGED <<serving, used, conn>>
TimeoutNever(s) == FALSE /\ Close(s)

Timeout(s) == Close(s)

\* poll() waited a second.
ReceiveTimeout(s) ==
    /\ thread[s] = "receive"
    /\ inflight[serving[s]] = 0 /\ ~Ended(serving[s])
    /\ Timeout(s)
    /\ UNCHANGED <<pathVars, lifecycle, counts, backlog, cpc, left, inflight, reply, executed>>

\* recv() takes what is there and fits; a newline or a full buffer ends the loop.
Receive(s) ==
    LET c == serving[s]
        space == BufferSize - used[s]
        taken == IF inflight[c] < space THEN inflight[c] ELSE space
    IN  /\ thread[s] = "receive" /\ inflight[c] > 0
        /\ used' = [used EXCEPT ![s] = @ + taken]
        /\ inflight' = [inflight EXCEPT ![c] = @ - taken]
        /\ thread' = [thread EXCEPT ![s] =
                        IF left[c] = 0 \/ used'[s] = BufferSize THEN "respond" ELSE "receive"]
        /\ UNCHANGED <<pathVars, lifecycle, counts, serving, backlog, cpc, left, conn,
                       reply, executed>>

\* The client is gone: what has come so far is the command.
ReceiveEnd(s) ==
    /\ thread[s] = "receive" /\ Ended(serving[s])
    /\ thread' = [thread EXCEPT ![s] = "respond"]
    /\ UNCHANGED <<pathVars, lifecycle, counts, serving, used, backlog, clientVars>>

TooLong(n) == n > kMaximumCommandLength

\* Nothing received: no response.  Too much: an error.  Otherwise handler_ runs.
Respond(s) ==
    LET c == serving[s] IN
    /\ thread[s] = "respond"
    /\ \/ used[s] = 0 /\ UNCHANGED <<reply, executed>>
       \/ /\ TooLong(used[s])
          /\ reply' = [reply EXCEPT ![c] = "too_long"]
          /\ UNCHANGED executed
       \/ /\ used[s] > 0 /\ ~TooLong(used[s])
          /\ reply' = [reply EXCEPT ![c] = "answer"]
          /\ executed' = [executed EXCEPT ![c] = used[s]]
    /\ Close(s)
    /\ UNCHANGED <<pathVars, lifecycle, counts, backlog, cpc, left, inflight>>

ThreadStep(s) ==
    \/ Loop(s) \/ PollNothing(s) \/ Accept(s)
    \/ ReceiveTimeout(s) \/ Receive(s) \/ ReceiveEnd(s) \/ Respond(s)

---------------------------------------------------------------------------------
(* edgectl.                                                                      *)

clientOnly(c, at, next) == cpc[c] = at /\ cpc' = [cpc EXCEPT ![c] = next]

\* connect() reaches the server whose socket the path names, if it listens.
Connect(c) ==
    /\ IF path \in Servers /\ listener_[path] = "listening"
       THEN /\ clientOnly(c, "idle", "sending")
            /\ conn' = [conn EXCEPT ![c] = "queued"]
            /\ backlog' = [backlog EXCEPT ![path] = Append(@, c)]
       ELSE clientOnly(c, "idle", "done") /\ UNCHANGED <<conn, backlog>>
    /\ UNCHANGED <<pathVars, lifecycle, counts, threadVars, left, inflight, reply, executed>>

\* send() takes part of the rest; after the last byte the sending side is shut down.
Send(c) ==
    /\ conn[c] # "closed"
    /\ \E n \in 1 .. left[c] :
          /\ left' = [left EXCEPT ![c] = @ - n]
          /\ inflight' = [inflight EXCEPT ![c] = @ + n]
          /\ clientOnly(c, "sending", IF n = left[c] THEN "waiting" ELSE "sending")
    /\ UNCHANGED <<pathVars, lifecycle, counts, threadVars, backlog, conn, reply, executed>>

\* recv() returns the response, or nothing once the server has closed; so does send().
Finish(c) ==
    /\ conn[c] = "closed"
    /\ clientOnly(c, "sending", "done") \/ clientOnly(c, "waiting", "done")
    /\ UNCHANGED <<pathVars, lifecycle, counts, threadVars, backlog, left, inflight, conn,
                   reply, executed>>

\* edgectl is killed.
Die(c) ==
    /\ clientOnly(c, "sending", "died") \/ clientOnly(c, "waiting", "died")
    /\ UNCHANGED <<pathVars, lifecycle, counts, threadVars, backlog, left, inflight, conn,
                   reply, executed>>

ClientStep(c) == Connect(c) \/ Send(c) \/ Finish(c)

Next ==
    \/ \E s \in Servers :
          Start(s) \/ StartStep(s) \/ Stop(s) \/ StopStep(s) \/ ThreadStep(s) \/ Crash(s)
    \/ \E c \in Clients : ClientStep(c) \/ Die(c)

Spec == Init /\ [][Next]_vars

\* The caller of start() and stop() and the accept thread are scheduled, and a second
\* passes.  Nothing makes a client send the rest of its command.
ServerFairness ==
    \A s \in Servers : WF_vars(StartStep(s)) /\ WF_vars(StopStep(s)) /\ WF_vars(ThreadStep(s))

FairSpec == Spec /\ ServerFairness

---------------------------------------------------------------------------------
(* Properties.                                                                   *)

\* The accept thread never uses a listening descriptor that stop() has closed.
ThreadHasListener ==
    \A s \in Servers : thread[s] \in {"loop", "poll", "receive", "respond"} => listener_[s] # "none"

\* A socket file belongs to a server that is running or is on its way up or down:
\* neither a start() that failed nor a stop() leaves one behind, whichever server of
\* the same path removed and made files meanwhile.
NoDeadSocket ==
    \A s \in Servers : path = s => running_[s] \/ pc[s] \in {"listen", "request", "shutdown", "join", "remove"}

\* What a killed server leaves behind never keeps a server from starting: start() is
\* refused only because of a file that is no socket, and loses a race only to another
\* server of the same path.
RestartNotBlocked ==
    \A s \in Servers :
        /\ pc[s] = "refused" => path = "foreign"
        /\ pc[s] = "raced" => \E t \in Servers \ {s} : starts[t] > 0

\* handler_ sees the whole command of a client that is still there, or nothing of it:
\* a client that stalls in the middle is cut off and nothing is executed.
WholeCommands ==
    \A c \in Clients : executed[c] # 0 /\ cpc[c] # "died" => left[c] = 0 /\ inflight[c] = 0

\* stop() returns, also while a client is being served that sends a byte now and then,
\* or none at all.
StopReturns == \A s \in Servers : pc[s] = "request" ~> pc[s] = "idle"

\* A connection is answered or closed, and never left hanging, whatever its client and
\* the server's owner do.
ConnectionsEnd == \A c \in Clients : conn[c] = "queued" ~> conn[c] = "closed"
=================================================================================
