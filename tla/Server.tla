------------------------------- MODULE Server -------------------------------
(***************************************************************************)
(* The server of src/server.c and src/MemKey.c and the command-line client *)
(* of src/client.c, joined by one TCP connection per client.               *)
(*                                                                         *)
(* The server is one thread: it accepts a connection, serves that client   *)
(* request by request until a QUIT, and only then accepts the next one.    *)
(* A client writes a request and reads once.  Neither side looks at what   *)
(* read returns, and neither handles SIGPIPE.                              *)
(*                                                                         *)
(* A request is its number and its kind.  A reply is a number of cells, a  *)
(* cell being what the model counts of the byte stream: read takes what is *)
(* there, up to its buffer of 1024 bytes, wherever a reply ends.  A short  *)
(* reply is one cell, a long one (LRANGE, HGETALL, SMEMBERS, ...) several. *)
(* What a command does to the data is no part of this module.              *)
(***************************************************************************)
EXTENDS Integers, Sequences, FiniteSets

CONSTANTS Clients,
          Kinds,         \* the requests users type, of "short", "long", "quit", "shutdown"
          LongClients,   \* the clients that type "long"
          MaxRequests,   \* bound: a user types so many requests, and then QUIT only
          Backlog,       \* the length listen asks for
          LongReply,     \* the cells of a long reply
          ReadSize,      \* the cells a read takes at most
          NULL           \* no client

ASSUME ServerAssumption ==
    /\ NULL \notin Clients /\ LongClients \subseteq Clients
    /\ Kinds \subseteq {"short", "long", "quit", "shutdown"}
    /\ {MaxRequests, Backlog, LongReply, ReadSize} \subseteq Nat \ {0}

Request == [id : 0 .. MaxRequests, kind : Kinds \cup {"short"}]

VARIABLES pc, cfd, msg,           \* the server: where it is, its client, its message
          waiting,                \* the connections that are not yet accepted
          repl, sent, shown,      \* a client: where it is, its last request, and
                                  \* the request whose reply it showed last
          toServer, toClient,     \* the two directions of a connection
          clientOpen, serverOpen, \* whether an end of it is open
          clientReset, serverReset \* whether a TCP reset reached an end of it

server == <<pc, cfd, msg, waiting>>
client == <<repl, sent, shown>>
network == <<toServer, toClient, clientOpen, serverOpen, clientReset, serverReset>>
vars == <<server, client, network>>

Init ==
    /\ pc = "accept" /\ cfd = NULL /\ msg = [id |-> 0, kind |-> "short"]
    /\ waiting = <<>>
    /\ repl = [c \in Clients |-> "new"]
    /\ sent = [c \in Clients |-> 0] /\ shown = [c \in Clients |-> 0]
    /\ toServer = [c \in Clients |-> <<>>] /\ toClient = [c \in Clients |-> <<>>]
    /\ clientOpen = [c \in Clients |-> FALSE] /\ serverOpen = [c \in Clients |-> FALSE]
    /\ clientReset = [c \in Clients |-> FALSE] /\ serverReset = [c \in Clients |-> FALSE]

Running == pc \notin {"down", "killed"}

-----------------------------------------------------------------------------
(* The kernel closes the server's ends of C.  Closing an end with unread     *)
(* input resets the connection.                                              *)
CloseServerEnds(C) ==
    /\ serverOpen' = [c \in Clients |-> serverOpen[c] /\ c \notin C]
    /\ clientReset' = [c \in Clients |-> clientReset[c] \/ (c \in C /\ toServer[c] # <<>>)]
    /\ toServer' = [c \in Clients |-> IF c \in C THEN <<>> ELSE toServer[c]]
    /\ UNCHANGED <<toClient, clientOpen, serverReset>>

CloseClientEnd(c) ==
    /\ clientOpen' = [clientOpen EXCEPT ![c] = FALSE]
    /\ serverReset' = [serverReset EXCEPT ![c] = @ \/ toClient[c] # <<>>]
    /\ toClient' = [toClient EXCEPT ![c] = <<>>]
    /\ UNCHANGED <<toServer, serverOpen, clientReset>>

(* The server process ends, and with it every connection. *)
Exit(how) ==
    /\ pc' = how /\ cfd' = NULL /\ waiting' = <<>>
    /\ CloseServerEnds(Clients)

-----------------------------------------------------------------------------
(* The main loop calls accept_connection and enters MemKey. *)
accept_connection ==
    /\ pc = "accept" /\ waiting # <<>>
    /\ cfd' = Head(waiting) /\ waiting' = Tail(waiting)
    /\ pc' = "read"
    /\ UNCHANGED <<msg, client, network>>

(* read takes some of the messages that are there, and parse sees the first  *)
(* of them: each ends with a NUL.  At the end of the stream read stores      *)
(* nothing, and the message is what malloc left in the buffer: the start of  *)
(* a freed block, which is no command and gets a short reply.                *)
readline ==
    /\ pc = "read"
    /\ \/ \E n \in 1 .. Len(toServer[cfd]) :
            /\ msg' = Head(toServer[cfd])
            /\ toServer' = [toServer EXCEPT
                    ![cfd] = SubSeq(@, n + 1, Len(@))]
       \/ /\ toServer[cfd] = <<>>
          /\ ~ clientOpen[cfd] \/ serverReset[cfd]
          /\ msg' = [id |-> 0, kind |-> "short"]
          /\ UNCHANGED toServer
    /\ pc' = "interpret"
    /\ UNCHANGED <<cfd, waiting, client>>
    /\ UNCHANGED <<toClient, clientOpen, serverOpen, clientReset, serverReset>>

(* Broken variants: QUIT leaves the closed socket in cfd, and QUIT does not   *)
(* leave MemKey's loop.                                                      *)
Quit_stale ==
    /\ msg.kind = "quit"
    /\ pc' = "accept"
    /\ CloseServerEnds({cfd})
    /\ UNCHANGED <<cfd, msg, waiting, client>>
Quit_ignored ==
    /\ msg.kind = "quit"
    /\ pc' = "read"
    /\ UNCHANGED <<cfd, msg, waiting, client, network>>

(* 'q': MemKey returns 0 and the main loop closes the client's socket. *)
Quit ==
    /\ msg.kind = "quit"
    /\ pc' = "accept" /\ cfd' = NULL
    /\ CloseServerEnds({cfd})
    /\ UNCHANGED <<msg, waiting, client>>

(* 'x': MemKey returns 1 and close_server frees the store and exits. *)
Shutdown ==
    /\ msg.kind = "shutdown"
    /\ Exit("down")
    /\ UNCHANGED <<msg, client>>

(* Broken variant: the NUL that ends a reply is written on its own. *)
Cells_split == 2

Cells == IF msg.kind = "long" THEN LongReply ELSE 1

(* Broken variant: an empty reply is not written. *)
writeline_nonempty ==
    /\ msg.kind \in {"short", "long"}
    /\ pc' = "read"
    /\ UNCHANGED <<cfd, msg, waiting, client, network>>

(* A write to a client that is gone gets a reset for an answer, and the next *)
(* write after the reset kills the server.                                   *)
writeline ==
    /\ msg.kind \in {"short", "long"}
    /\ \/ /\ serverReset[cfd]
          /\ Exit("killed")
          /\ UNCHANGED <<msg, client>>
       \/ /\ ~ serverReset[cfd] /\ clientOpen[cfd]
          /\ toClient' = [toClient EXCEPT ![cfd] = @ \o [j \in 1 .. Cells |-> msg.id]]
          /\ pc' = "read"
          /\ UNCHANGED <<cfd, msg, waiting, client>>
          /\ UNCHANGED <<toServer, clientOpen, serverOpen, clientReset, serverReset>>
       \/ /\ ~ serverReset[cfd] /\ ~ clientOpen[cfd]
          /\ serverReset' = [serverReset EXCEPT ![cfd] = TRUE]
          /\ pc' = "read"
          /\ UNCHANGED <<cfd, msg, waiting, client>>
          /\ UNCHANGED <<toServer, toClient, clientOpen, serverOpen, clientReset>>

(* The rest of an iteration of MemKey's loop, after the request was read. *)
Respond == pc = "interpret" /\ (Quit \/ Shutdown \/ writeline)

-----------------------------------------------------------------------------
(* The kernel completes a connection before the server accepts it; with a    *)
(* full backlog connect waits, without a server it fails.                    *)
connect_server(c) ==
    /\ repl[c] = "new"
    /\ \/ /\ Running /\ Len(waiting) < Backlog
          /\ waiting' = Append(waiting, c)
          /\ repl' = [repl EXCEPT ![c] = "prompt"]
          /\ clientOpen' = [clientOpen EXCEPT ![c] = TRUE]
          /\ serverOpen' = [serverOpen EXCEPT ![c] = TRUE]
       \/ /\ ~ Running
          /\ repl' = [repl EXCEPT ![c] = "failed"]
          /\ UNCHANGED <<waiting, clientOpen, serverOpen>>
    /\ UNCHANGED <<pc, cfd, msg, sent, shown, toServer, toClient, clientReset, serverReset>>

(* The user types a request and repl writes it. *)
Type(c, kind) ==
    /\ repl[c] = "prompt"
    /\ kind = "long" => c \in LongClients
    /\ IF sent[c] < MaxRequests THEN sent' = [sent EXCEPT ![c] = @ + 1]
       ELSE kind = "quit" /\ UNCHANGED sent
    /\ \/ /\ clientReset[c]
          /\ repl' = [repl EXCEPT ![c] = "killed"]
          /\ CloseClientEnd(c)
       \/ /\ ~ clientReset[c] /\ serverOpen[c]
          /\ repl' = [repl EXCEPT ![c] = "wait"]
          /\ toServer' = [toServer EXCEPT
                ![c] = Append(@, [id |-> sent'[c], kind |-> kind])]
          /\ UNCHANGED <<toClient, clientOpen, serverOpen, clientReset, serverReset>>
       \/ /\ ~ clientReset[c] /\ ~ serverOpen[c]
          /\ repl' = [repl EXCEPT ![c] = "wait"]
          /\ clientReset' = [clientReset EXCEPT ![c] = TRUE]
          /\ UNCHANGED <<toServer, toClient, clientOpen, serverOpen, serverReset>>
    /\ UNCHANGED <<server, shown>>

(* Broken variant: a client that ends after its first reply. *)
Show_once(c) ==
    /\ repl[c] = "wait" /\ toClient[c] # <<>>
    /\ repl' = [repl EXCEPT ![c] = "failed"]
    /\ shown' = [shown EXCEPT ![c] = Head(toClient[c])]
    /\ CloseClientEnd(c)
    /\ UNCHANGED <<server, sent>>

(* repl reads once and shows the reply its buffer begins with; at the end of *)
(* the stream the buffer holds no reply.  readline never returns NULL.       *)
Show(c) ==
    /\ repl[c] = "wait"
    /\ repl' = [repl EXCEPT ![c] = "prompt"]
    /\ \/ \E n \in 1 .. Len(toClient[c]) :
            /\ n <= ReadSize
            /\ shown' = [shown EXCEPT ![c] = Head(toClient[c])]
            /\ toClient' = [toClient EXCEPT ![c] = SubSeq(@, n + 1, Len(@))]
       \/ /\ toClient[c] = <<>>
          /\ ~ serverOpen[c] \/ clientReset[c]
          /\ shown' = [shown EXCEPT ![c] = 0]
          /\ UNCHANGED toClient
    /\ UNCHANGED <<server, sent, toServer, clientOpen, serverOpen, clientReset, serverReset>>

(* The user or the system ends the client at any time. *)
Interrupt(c) ==
    /\ repl[c] \in {"prompt", "wait"}
    /\ repl' = [repl EXCEPT ![c] = "gone"]
    /\ CloseClientEnd(c)
    /\ UNCHANGED <<server, sent, shown>>

Next ==
    \/ accept_connection \/ readline \/ Respond
    \/ \E c \in Clients :
        connect_server(c) \/ Show(c) \/ Interrupt(c) \/ \E kind \in Kinds : Type(c, kind)

Spec == Init /\ [][Next]_vars

(* Both programs run on, and every user types on until QUIT.                 *)
FairSpec ==
    /\ Spec
    /\ WF_vars(accept_connection) /\ WF_vars(readline) /\ WF_vars(Respond)
    /\ \A c \in Clients :
        /\ WF_vars(connect_server(c)) /\ WF_vars(Show(c))
        /\ WF_vars(\E kind \in Kinds : Type(c, kind))

-----------------------------------------------------------------------------
(* Type invariant. *)
TypeOK ==
    /\ pc \in {"accept", "read", "interpret", "down", "killed"}
    /\ cfd \in Clients \cup {NULL} /\ (cfd # NULL <=> pc \in {"read", "interpret"})
    /\ msg \in Request /\ waiting \in Seq(Clients)
    /\ repl \in [Clients -> {"new", "prompt", "wait", "failed", "killed", "gone"}]
    /\ sent \in [Clients -> 0 .. MaxRequests] /\ shown \in [Clients -> 0 .. MaxRequests]
    /\ toServer \in [Clients -> Seq(Request)]
    /\ toClient \in [Clients -> Seq(0 .. MaxRequests)]
    /\ {clientOpen, serverOpen, clientReset, serverReset} \subseteq [Clients -> BOOLEAN]

(* A client whose replies fit its buffer and the server stay in step although *)
(* nothing frames a message: at most one message of the connection is under  *)
(* way, and a reply that is shown is the last request's, whatever the other  *)
(* clients do.  Any client that waits on an open connection has a message    *)
(* under way, and is served or queued: they never both wait for the other.   *)
InStep ==
    /\ \A c \in Clients \ LongClients :
        /\ Len(toServer[c]) + Len(toClient[c])
               + (IF pc = "interpret" /\ cfd = c THEN 1 ELSE 0) <= 1
        /\ repl[c] = "prompt" => shown[c] \in {0, sent[c]}
    /\ \A c \in Clients : repl[c] = "wait" /\ serverOpen[c] =>
        /\ \/ toServer[c] # <<>> \/ toClient[c] # <<>>
           \/ pc = "interpret" /\ cfd = c
        /\ cfd = c \/ \E j \in DOMAIN waiting : waiting[j] = c

(* The server is killed only while it serves a client that was interrupted:  *)
(* one that leaves before it is accepted, or while another is served, does   *)
(* no harm until its turn comes, and one that has its QUIT never does.       *)
KilledOnlyByItsClient ==
    [][pc # "killed" /\ pc' = "killed" => repl[cfd] = "gone"]_vars

(* Every client that connected is accepted, in spite of the clients before   *)
(* it, or the server has ended.                                              *)
EveryClientIsServed ==
    \A c \in Clients :
        (\E j \in DOMAIN waiting : waiting[j] = c) ~> (cfd = c \/ ~ Running)

(* A client that is served and waits for its reply reads something in the    *)
(* end, even when requests of it were lost in a read of several at once: the *)
(* client and the server never both wait for the other.                      *)
EveryWaitEnds == \A c \in Clients : (repl[c] = "wait" /\ cfd = c) ~> repl[c] # "wait"
=============================================================================
