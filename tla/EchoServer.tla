----------------------------- MODULE EchoServer -----------------------------
(***************************************************************************)
(* The echo server and client of Lab03: a server that takes one connection *)
(* after the other from the queue of its listening socket and answers one  *)
(* message on each, and clients that connect, type a line and wait for the *)
(* answer.  Every program can be killed, and servers can be started again, *)
(* also while another one is running: they share the path of the socket.   *)
(*                                                                         *)
(* The server's end of a client's connection is in the server's queue, or  *)
(* is the one it serves, or is closed.                                     *)
(***************************************************************************)
EXTENDS Integers, Sequences, SequencesExt

CONSTANTS
  Servers, Clients,  \* invocations; a server is started again, a client is not
  Messages,          \* lines that are typed
  Upper,             \* a line in capitals
  NOTHING,           \* no line: the input has ended, and 0 bytes are written
  NONE,              \* no server, no client
  BACKLOG            \* 13 in the code; the queue takes one more

ASSUME EchoAssumption ==
  /\ Upper \in [Messages -> Messages]
  /\ NOTHING \notin Messages
  /\ NONE \notin Servers \union Clients
  /\ BACKLOG \in Nat

VARIABLES
  server,   \* what each server does
  path,     \* the server whose socket, or what a dead one left of it, is at SOCKET_PATH
  backlog,  \* the connections in each server's queue
  serving,  \* the connection each server has accepted
  buf,      \* the message each server has read
  client,   \* what each client does
  sockfd,   \* the server each client is connected to
  sent,     \* the line each client has typed
  unread,   \* clients whose line is not read yet
  answer,   \* what was written to each client
  events    \* "kill": a program was killed; "rival": two servers were started (history)

servers == <<server, path, backlog, serving, buf>>
clients == <<client, sockfd, sent>>
vars    == <<servers, clients, unread, answer, events>>

Accepting == {"accept", "read", "write", "close"}
Alive(c)  == client[c] \in {"start", "type", "read"}
Held(c)   == \E s \in Servers : serving[s] = c \/ Contains(backlog[s], c)

-----------------------------------------------------------------------------
(* The server.                                                             *)

Start(s) ==
  /\ server[s] = "down"
  /\ server' = [server EXCEPT ![s] = "check"]
  /\ events' = IF \A r \in Servers : server[r] = "down" THEN events ELSE events \union {"rival"}
  /\ UNCHANGED <<path, backlog, serving, buf, clients, unread, answer>>

\* fault: the path is not looked at
CheckNothing(s) ==
  /\ server[s] = "check"
  /\ server' = [server EXCEPT ![s] = "bind"]
  /\ UNCHANGED <<path, backlog, serving, buf, clients, unread, answer, events>>

Check(s) ==
  /\ server[s] = "check"
  /\ server' = [server EXCEPT ![s] = IF path # NONE THEN "remove" ELSE "bind"]
  /\ UNCHANGED <<path, backlog, serving, buf, clients, unread, answer, events>>

RemovePath(s) ==
  /\ server[s] = "remove"
  /\ path' = NONE
  /\ server' = [server EXCEPT ![s] = "bind"]
  /\ UNCHANGED <<backlog, serving, buf, clients, unread, answer, events>>

\* a server that cannot bind removes what is in its way, and ends
Bind(s) ==
  /\ server[s] = "bind"
  /\ \/ path = NONE /\ path' = s /\ server' = [server EXCEPT ![s] = "listen"]
     \/ path # NONE /\ path' = NONE /\ server' = [server EXCEPT ![s] = "down"]
  /\ UNCHANGED <<backlog, serving, buf, clients, unread, answer, events>>

Listen(s) ==
  /\ server[s] = "listen"
  /\ server' = [server EXCEPT ![s] = "accept"]
  /\ UNCHANGED <<path, backlog, serving, buf, clients, unread, answer, events>>

Accept(s) ==
  /\ server[s] = "accept"
  /\ backlog[s] # <<>>
  /\ serving' = [serving EXCEPT ![s] = Head(backlog[s])]
  /\ backlog' = [backlog EXCEPT ![s] = Tail(@)]
  /\ server' = [server EXCEPT ![s] = "read"]
  /\ UNCHANGED <<path, buf, clients, unread, answer, events>>

Read(s) ==
  /\ server[s] = "read"
  /\ serving[s] \in unread
  /\ buf' = [buf EXCEPT ![s] = sent[serving[s]]]
  /\ unread' = unread \ {serving[s]}
  /\ server' = [server EXCEPT ![s] = "write"]
  /\ UNCHANGED <<path, backlog, serving, clients, answer, events>>

\* fault: a client that is gone is not told from one that has not written yet
GoneUnseen(s) == FALSE

Gone(s) == ~ Alive(serving[s]) /\ serving[s] \notin unread

\* read() returns 0
ReadEnd(s) ==
  /\ server[s] = "read"
  /\ Gone(s)
  /\ serving' = [serving EXCEPT ![s] = NONE]
  /\ server' = [server EXCEPT ![s] = "accept"]
  /\ UNCHANGED <<path, backlog, buf, clients, unread, answer, events>>

\* fault: the message is sent back as it is
AsRead(s) == buf[s]

Converted(s) == Upper[buf[s]]

Write(s) ==
  /\ server[s] = "write"
  /\ Alive(serving[s])
  /\ answer' = [answer EXCEPT ![serving[s]] = Converted(s)]
  /\ server' = [server EXCEPT ![s] = "close"]
  /\ UNCHANGED <<path, backlog, serving, buf, clients, unread, events>>

Dies(s) ==
  /\ server' = [server EXCEPT ![s] = "down"]
  /\ serving' = [serving EXCEPT ![s] = NONE]
  /\ backlog' = [backlog EXCEPT ![s] = <<>>]
  /\ UNCHANGED <<path, buf, clients, unread, answer>>

\* a write to a client that is gone ends the server with SIGPIPE
WriteToGone(s) ==
  /\ server[s] = "write"
  /\ ~ Alive(serving[s])
  /\ Dies(s)
  /\ UNCHANGED events

Close(s) ==
  /\ server[s] = "close"
  /\ serving' = [serving EXCEPT ![s] = NONE]
  /\ server' = [server EXCEPT ![s] = "accept"]
  /\ UNCHANGED <<path, backlog, buf, clients, unread, answer, events>>

ServerStep(s) ==
  \/ Check(s) \/ RemovePath(s) \/ Bind(s) \/ Listen(s)
  \/ Accept(s) \/ Read(s) \/ ReadEnd(s) \/ Write(s) \/ WriteToGone(s) \/ Close(s)

KillServer(s) ==
  /\ server[s] # "down"
  /\ Dies(s)
  /\ events' = events \union {"kill"}

-----------------------------------------------------------------------------
(* The client.                                                             *)

Reachable == path # NONE /\ server[path] \in Accepting

\* connect() waits while the queue is full
Connect(c) ==
  /\ client[c] = "start"
  /\ Reachable
  /\ Len(backlog[path]) <= BACKLOG
  /\ backlog' = [backlog EXCEPT ![path] = Append(@, c)]
  /\ sockfd' = [sockfd EXCEPT ![c] = path]
  /\ client' = [client EXCEPT ![c] = "type"]
  /\ UNCHANGED <<server, path, serving, buf, sent, unread, answer, events>>

\* the client reports the failure and goes on
ConnectFails(c) ==
  /\ client[c] = "start"
  /\ ~ Reachable
  /\ client' = [client EXCEPT ![c] = "type"]
  /\ UNCHANGED <<servers, sockfd, sent, unread, answer, events>>

\* fgets() and write(); without a line the client writes nothing and waits
Send(c) ==
  /\ client[c] = "type"
  /\ Held(c)
  /\ \E m \in Messages \union {NOTHING} :
       /\ sent' = [sent EXCEPT ![c] = m]
       /\ unread' = IF m = NOTHING THEN unread ELSE unread \union {c}
  /\ client' = [client EXCEPT ![c] = "read"]
  /\ UNCHANGED <<servers, sockfd, answer, events>>

\* there is no connection, or the server is gone: write() fails, or SIGPIPE
SendFails(c) ==
  /\ client[c] = "type"
  /\ ~ Held(c)
  /\ client' = [client EXCEPT ![c] = "failed"]
  /\ UNCHANGED <<servers, sockfd, sent, unread, answer, events>>

Receive(c) ==
  /\ client[c] = "read"
  /\ answer[c] # NOTHING
  /\ client' = [client EXCEPT ![c] = "answered"]
  /\ UNCHANGED <<servers, sockfd, sent, unread, answer, events>>

\* read() returns 0, or fails because the line was not read either
Disconnected(c) ==
  /\ client[c] = "read"
  /\ answer[c] = NOTHING
  /\ ~ Held(c)
  /\ client' = [client EXCEPT ![c] = "failed"]
  /\ UNCHANGED <<servers, sockfd, sent, unread, answer, events>>

KillClient(c) ==
  /\ Alive(c)
  /\ client' = [client EXCEPT ![c] = "killed"]
  /\ events' = events \union {"kill"}
  /\ UNCHANGED <<servers, sockfd, sent, unread, answer>>

-----------------------------------------------------------------------------
Init ==
  /\ server = [s \in Servers |-> "down"]
  /\ path = NONE
  /\ backlog = [s \in Servers |-> <<>>]
  /\ serving = [s \in Servers |-> NONE]
  /\ buf = [s \in Servers |-> NOTHING]
  /\ client = [c \in Clients |-> "start"]
  /\ sockfd = [c \in Clients |-> NONE]
  /\ sent = [c \in Clients |-> NOTHING]
  /\ unread = {}
  /\ answer = [c \in Clients |-> NOTHING]
  /\ events = {}

ClientWork(c) == Receive(c) \/ Disconnected(c)

Next ==
  \/ \E s \in Servers : Start(s) \/ ServerStep(s) \/ KillServer(s)
  \/ \E c \in Clients :
       Connect(c) \/ ConnectFails(c) \/ Send(c) \/ SendFails(c) \/ ClientWork(c) \/ KillClient(c)

\* A program that need not wait runs on; nobody has to start or kill one, or to
\* type anything.
Spec ==
  /\ Init
  /\ [][Next]_vars
  /\ \A s \in Servers : WF_vars(ServerStep(s))
  /\ \A c \in Clients : WF_vars(ClientWork(c))

-----------------------------------------------------------------------------
(* Properties.                                                             *)

\* What a client gets is its own line in capitals, and a connection is never lost
\* unless a program was killed: other servers, also those that take the path
\* away, and clients without a line do no harm to it.
OwnAnswer ==
  \A c \in Clients :
    /\ client[c] = "answered" => sent[c] # NOTHING /\ answer[c] = Upper[sent[c]]
    /\ client[c] = "failed" /\ sockfd[c] # NONE => "kill" \in events

\* Servers that run one after the other can always be reached, however the last
\* one ended: the socket it left at the path is not in the way.
StartsAfterCrash ==
  "rival" \notin events =>
    \A s \in Servers :
      /\ server[s] = "bind" => path = NONE
      /\ server[s] \in Accepting => path = s

\* the client that is served is there and has not written anything
Silent(s) == server[s] = "read" /\ Alive(serving[s]) /\ serving[s] \notin unread

\* A client that has sent a line gets an answer, or is told that there is none,
\* if nobody in front of it stays silent for good.
LinesAnswered ==
  (\A s \in Servers : []<> ~ Silent(s))
    => \A c \in Clients : client[c] = "read" /\ sent[c] # NOTHING ~> client[c] # "read"

=============================================================================
