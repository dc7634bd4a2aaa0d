----------------------------- MODULE ServerProofs -----------------------------
(***************************************************************************)
(* The safety properties of Server, proved for any number of clients, of   *)
(* requests and of waiting connections, and replies of any length; and     *)
(* that the client reads in a reply what the server put there.             *)
(***************************************************************************)
EXTENDS Server, MCReplies, NaturalFacts, SequenceTheorems, FiniteSetTheorems, TLAPS

(* What remains of a queue from which the first n elements were taken. *)
LEMMA Rest ==
    ASSUME NEW S, NEW s \in Seq(S), NEW n \in 1 .. Len(s)
    PROVE  /\ s[1] \in S /\ Head(s) = s[1] /\ s # <<>>
           /\ SubSeq(s, n + 1, Len(s)) \in Seq(S)
           /\ Len(SubSeq(s, n + 1, Len(s))) = Len(s) - n
           /\ \A j \in 1 .. (Len(s) - n) : SubSeq(s, n + 1, Len(s))[j] = s[n + j]
<1>1. Len(s) \in Nat /\ \A i \in 1 .. Len(s) : s[i] \in S
  BY LenProperties, ElementOfSeq
<1>2. \A i \in (n + 1) .. Len(s) : s[i] \in S
  BY <1>1
<1>3. /\ SubSeq(s, n + 1, Len(s)) \in Seq(S)
      /\ Len(SubSeq(s, n + 1, Len(s))) =
             IF n + 1 <= Len(s) THEN Len(s) - (n + 1) + 1 ELSE 0
      /\ \A j \in 1 .. Len(s) - (n + 1) + 1 :
             SubSeq(s, n + 1, Len(s))[j] = s[(n + 1) + j - 1]
  BY <1>1, <1>2, SubSeqProperties
<1>4. Len(SubSeq(s, n + 1, Len(s))) = Len(s) - n
  BY <1>1, <1>3
<1>5. \A j \in 1 .. (Len(s) - n) : SubSeq(s, n + 1, Len(s))[j] = s[n + j]
  BY <1>1, <1>3
<1>6. s # <<>> /\ s[1] \in S
  BY <1>1, EmptySeq
<1> QED  BY <1>3, <1>4, <1>5, <1>6

(* The types, a conjunct for each part. *)
Types ==
    /\ clientOpen \in [Clients -> BOOLEAN] /\ serverOpen \in [Clients -> BOOLEAN]
    /\ clientReset \in [Clients -> BOOLEAN] /\ serverReset \in [Clients -> BOOLEAN]
    /\ toServer \in [Clients -> Seq(Request)]
    /\ toClient \in [Clients -> Seq(0 .. MaxRequests)]
    /\ waiting \in Seq(Clients) /\ msg \in Request
    /\ cfd \in Clients \cup {NULL} /\ (cfd # NULL <=> pc \in {"read", "interpret"})
    /\ pc \in {"accept", "read", "interpret", "down", "killed"}
    /\ repl \in [Clients -> {"new", "prompt", "wait", "failed", "killed", "gone"}]
    /\ sent \in [Clients -> 0 .. MaxRequests] /\ shown \in [Clients -> 0 .. MaxRequests]

LEMMA TypesIsTypeOK == Types <=> TypeOK
BY DEF Types, TypeOK

(* A message that is no request of a client's. *)
LEMMA NoMessage == [id |-> 0, kind |-> "short"] \in Request /\ MaxRequests \in Nat
BY ServerAssumption DEF Request

LEMMA InitTypes == Init => Types
<1>1. 0 \in 0 .. MaxRequests
  BY NoMessage
<1> QED  BY <1>1, NoMessage DEF Init, Types

(* Closing ends leaves the channels well typed. *)
LEMMA CloseServerEndsTypes ==
    ASSUME Types, NEW C, CloseServerEnds(C)
    PROVE  /\ clientOpen' \in [Clients -> BOOLEAN] /\ serverOpen' \in [Clients -> BOOLEAN]
           /\ clientReset' \in [Clients -> BOOLEAN] /\ serverReset' \in [Clients -> BOOLEAN]
           /\ toServer' \in [Clients -> Seq(Request)]
           /\ toClient' \in [Clients -> Seq(0 .. MaxRequests)]
<1>1. /\ clientOpen' = clientOpen /\ serverReset' = serverReset /\ toClient' = toClient
  BY DEF CloseServerEnds
<1>2. serverOpen' \in [Clients -> BOOLEAN] /\ clientReset' \in [Clients -> BOOLEAN]
  BY DEF CloseServerEnds, Types
<1>3. toServer' \in [Clients -> Seq(Request)]
  BY EmptySeq DEF CloseServerEnds, Types
<1> QED  BY <1>1, <1>2, <1>3 DEF Types

LEMMA CloseClientEndTypes ==
    ASSUME Types, NEW c \in Clients, CloseClientEnd(c)
    PROVE  /\ clientOpen' \in [Clients -> BOOLEAN] /\ serverOpen' \in [Clients -> BOOLEAN]
           /\ clientReset' \in [Clients -> BOOLEAN] /\ serverReset' \in [Clients -> BOOLEAN]
           /\ toServer' \in [Clients -> Seq(Request)]
           /\ toClient' \in [Clients -> Seq(0 .. MaxRequests)]
<1>1. /\ serverOpen' = serverOpen /\ clientReset' = clientReset /\ toServer' = toServer
  BY DEF CloseClientEnd
<1>2. clientOpen' \in [Clients -> BOOLEAN] /\ serverReset' \in [Clients -> BOOLEAN]
  BY DEF CloseClientEnd, Types
<1>3. toClient' \in [Clients -> Seq(0 .. MaxRequests)]
  BY EmptySeq DEF CloseClientEnd, Types
<1> QED  BY <1>1, <1>2, <1>3 DEF Types

LEMMA AcceptTypes ==
    ASSUME Types, accept_connection
    PROVE  Types'
<1>1. waiting \in Seq(Clients) /\ waiting # <<>>
  BY DEF Types, accept_connection
<1>2. cfd' \in Clients /\ waiting' \in Seq(Clients)
  BY <1>1, HeadTailProperties DEF accept_connection
<1>3. cfd' # NULL
  BY <1>2, ServerAssumption
<1> QED  BY <1>2, <1>3 DEF Types, accept_connection, client, network

LEMMA ReadlineTypes ==
    ASSUME Types, readline
    PROVE  Types'
<1>1. cfd \in Clients /\ cfd # NULL /\ pc' = "interpret"
  BY DEF Types, readline
<1>2. toServer[cfd] \in Seq(Request)
  BY <1>1 DEF Types
<1>3. msg' \in Request /\ toServer' \in [Clients -> Seq(Request)]
  <2>1. ASSUME NEW n \in 1 .. Len(toServer[cfd]), msg' = Head(toServer[cfd]),
               toServer' = [toServer EXCEPT ![cfd] = SubSeq(@, n + 1, Len(@))]
        PROVE  msg' \in Request /\ toServer' \in [Clients -> Seq(Request)]
    <3>1. /\ Head(toServer[cfd]) \in Request
          /\ SubSeq(toServer[cfd], n + 1, Len(toServer[cfd])) \in Seq(Request)
      BY <1>2, Rest
    <3> QED  BY <1>1, <2>1, <3>1 DEF Types
  <2>2. CASE msg' = [id |-> 0, kind |-> "short"] /\ UNCHANGED toServer
    BY <2>2, NoMessage DEF Types
  <2> QED  BY <2>1, <2>2 DEF readline
<1> QED  BY <1>1, <1>3 DEF Types, readline, client

(* The server process ends. *)
LEMMA ExitTypes ==
    ASSUME Types, NEW how \in {"down", "killed"}, Exit(how), UNCHANGED <<msg, client>>
    PROVE  Types'
<1>1. waiting' \in Seq(Clients)
  BY EmptySeq DEF Exit
<1> QED  BY <1>1, CloseServerEndsTypes DEF Types, Exit, client

LEMMA WritelineTypes ==
    ASSUME Types, pc = "interpret", writeline
    PROVE  Types'
<1>1. cfd \in Clients /\ cfd # NULL /\ msg.id \in 0 .. MaxRequests
  BY DEF Types, Request
<1>2. CASE Exit("killed") /\ UNCHANGED <<msg, client>>
  BY <1>2, ExitTypes
<1>3. CASE /\ toClient' = [toClient EXCEPT ![cfd] = @ \o [j \in 1 .. Cells |-> msg.id]]
           /\ pc' = "read" /\ UNCHANGED <<cfd, msg, waiting, client>>
           /\ UNCHANGED <<toServer, clientOpen, serverOpen, clientReset, serverReset>>
  <2>1. Cells \in Nat
    BY ServerAssumption DEF Cells
  <2>2. [j \in 1 .. Cells |-> msg.id] \in Seq(0 .. MaxRequests)
    BY <1>1, <2>1
  <2>3. toClient[cfd] \in Seq(0 .. MaxRequests)
    BY <1>1 DEF Types
  <2>4. toClient[cfd] \o [j \in 1 .. Cells |-> msg.id] \in Seq(0 .. MaxRequests)
    BY <2>2, <2>3, ConcatProperties
  <2>5. toClient' \in [Clients -> Seq(0 .. MaxRequests)]
    BY <1>1, <1>3, <2>4 DEF Types
  <2> QED  BY <1>1, <1>3, <2>5 DEF Types, client
<1>4. CASE /\ serverReset' = [serverReset EXCEPT ![cfd] = TRUE]
           /\ pc' = "read" /\ UNCHANGED <<cfd, msg, waiting, client>>
           /\ UNCHANGED <<toServer, toClient, clientOpen, serverOpen, clientReset>>
  BY <1>1, <1>4 DEF Types, client
<1> QED  BY <1>2, <1>3, <1>4 DEF writeline

LEMMA RespondTypes ==
    ASSUME Types, Respond
    PROVE  Types'
<1>1. CASE Quit
  BY <1>1, CloseServerEndsTypes DEF Types, Quit, client
<1>2. CASE Shutdown
  BY <1>2, ExitTypes DEF Shutdown
<1>3. CASE writeline
  BY <1>3, WritelineTypes DEF Respond
<1> QED  BY <1>1, <1>2, <1>3 DEF Respond

LEMMA ConnectTypes ==
    ASSUME Types, NEW c \in Clients, connect_server(c)
    PROVE  Types'
<1>1. CASE /\ waiting' = Append(waiting, c) /\ repl' = [repl EXCEPT ![c] = "prompt"]
           /\ clientOpen' = [clientOpen EXCEPT ![c] = TRUE]
           /\ serverOpen' = [serverOpen EXCEPT ![c] = TRUE]
  <2>1. waiting' \in Seq(Clients)
    BY <1>1, AppendProperties DEF Types
  <2>2. repl' \in [Clients -> {"new", "prompt", "wait", "failed", "killed", "gone"}]
    BY <1>1 DEF Types
  <2>3. clientOpen' \in [Clients -> BOOLEAN] /\ serverOpen' \in [Clients -> BOOLEAN]
    BY <1>1 DEF Types
  <2> QED  BY <2>1, <2>2, <2>3 DEF Types, connect_server
<1>2. CASE /\ repl' = [repl EXCEPT ![c] = "failed"]
           /\ UNCHANGED <<waiting, clientOpen, serverOpen>>
  BY <1>2 DEF Types, connect_server
<1> QED  BY <1>1, <1>2 DEF connect_server

LEMMA TypeTypes ==
    ASSUME Types, NEW c \in Clients, NEW kind \in Kinds, Type(c, kind)
    PROVE  Types'
<1>1. sent' \in [Clients -> 0 .. MaxRequests] /\ sent'[c] \in 0 .. MaxRequests
  <2>1. sent[c] \in 0 .. MaxRequests /\ MaxRequests \in Nat
    BY NoMessage DEF Types
  <2>2. sent[c] < MaxRequests => sent[c] + 1 \in 0 .. MaxRequests
    BY <2>1
  <2>3. CASE sent[c] < MaxRequests /\ sent' = [sent EXCEPT ![c] = @ + 1]
    BY <2>2, <2>3 DEF Types
  <2>4. CASE UNCHANGED sent
    BY <2>4 DEF Types
  <2> QED  BY <2>3, <2>4 DEF Type
<1>2. /\ pc' = pc /\ cfd' = cfd /\ msg' = msg /\ waiting' = waiting /\ shown' = shown
  BY DEF Type, server
<1>3. repl' \in [Clients -> {"new", "prompt", "wait", "failed", "killed", "gone"}]
  BY DEF Type, Types
<1>4. /\ clientOpen' \in [Clients -> BOOLEAN] /\ serverOpen' \in [Clients -> BOOLEAN]
      /\ clientReset' \in [Clients -> BOOLEAN] /\ serverReset' \in [Clients -> BOOLEAN]
      /\ toServer' \in [Clients -> Seq(Request)]
      /\ toClient' \in [Clients -> Seq(0 .. MaxRequests)]
  <2>1. CASE CloseClientEnd(c)
    BY <2>1, CloseClientEndTypes
  <2>2. CASE /\ toServer' = [toServer EXCEPT ![c] = Append(@, [id |-> sent'[c], kind |-> kind])]
             /\ UNCHANGED <<toClient, clientOpen, serverOpen, clientReset, serverReset>>
    <3>1. [id |-> sent'[c], kind |-> kind] \in Request
      BY <1>1 DEF Request
    <3>2. toServer[c] \in Seq(Request)
      BY DEF Types
    <3>3. Append(toServer[c], [id |-> sent'[c], kind |-> kind]) \in Seq(Request)
      BY <3>1, <3>2, AppendProperties
    <3> QED  BY <2>2, <3>3 DEF Types
  <2>3. CASE /\ clientReset' = [clientReset EXCEPT ![c] = TRUE]
             /\ UNCHANGED <<toServer, toClient, clientOpen, serverOpen, serverReset>>
    BY <2>3 DEF Types
  <2> QED  BY <2>1, <2>2, <2>3 DEF Type
<1> QED  BY <1>1, <1>2, <1>3, <1>4 DEF Types

LEMMA ShowTypes ==
    ASSUME Types, NEW c \in Clients, Show(c)
    PROVE  Types'
<1>1. /\ pc' = pc /\ cfd' = cfd /\ msg' = msg /\ waiting' = waiting /\ sent' = sent
      /\ UNCHANGED <<toServer, clientOpen, serverOpen, clientReset, serverReset>>
  BY DEF Show, server
<1>2. repl' \in [Clients -> {"new", "prompt", "wait", "failed", "killed", "gone"}]
  BY DEF Show, Types
<1>3. /\ shown' \in [Clients -> 0 .. MaxRequests]
      /\ toClient' \in [Clients -> Seq(0 .. MaxRequests)]
  <2>1. toClient[c] \in Seq(0 .. MaxRequests)
    BY DEF Types
  <2>2. ASSUME NEW n \in 1 .. Len(toClient[c]),
               shown' = [shown EXCEPT ![c] = Head(toClient[c])],
               toClient' = [toClient EXCEPT ![c] = SubSeq(@, n + 1, Len(@))]
        PROVE  /\ shown' \in [Clients -> 0 .. MaxRequests]
               /\ toClient' \in [Clients -> Seq(0 .. MaxRequests)]
    <3> DEFINE s == toClient[c]
               Ids == 0 .. MaxRequests
    <3>1. s \in Seq(Ids) /\ n \in 1 .. Len(s)
      BY <2>1
    <3>2. Head(s) \in Ids /\ SubSeq(s, n + 1, Len(s)) \in Seq(Ids)
      <4> HIDE DEF s, Ids
      <4>1. Head(s) = s[1] /\ s[1] \in Ids /\ SubSeq(s, n + 1, Len(s)) \in Seq(Ids)
        BY <3>1, Rest
      <4> QED  BY <4>1
    <3> QED  BY <2>2, <3>2 DEF Types
  <2>3. CASE shown' = [shown EXCEPT ![c] = 0] /\ UNCHANGED toClient
    <3>1. 0 \in 0 .. MaxRequests
      BY NoMessage
    <3> QED  BY <2>3, <3>1 DEF Types
  <2> QED  BY <2>2, <2>3 DEF Show
<1> QED  BY <1>1, <1>2, <1>3 DEF Types

LEMMA InterruptTypes ==
    ASSUME Types, NEW c \in Clients, Interrupt(c)
    PROVE  Types'
<1>1. repl' \in [Clients -> {"new", "prompt", "wait", "failed", "killed", "gone"}]
  BY DEF Interrupt, Types
<1> QED  BY <1>1, CloseClientEndTypes DEF Types, Interrupt, server

LEMMA NextTypes == Types /\ [Next]_vars => Types'
<1> SUFFICES ASSUME Types, [Next]_vars PROVE Types'
  OBVIOUS
<1>1. CASE accept_connection \/ readline \/ Respond
  BY <1>1, AcceptTypes, ReadlineTypes, RespondTypes
<1>2. ASSUME NEW c \in Clients,
             connect_server(c) \/ Show(c) \/ Interrupt(c) \/ \E kind \in Kinds : Type(c, kind)
      PROVE  Types'
  BY <1>2, ConnectTypes, ShowTypes, InterruptTypes, TypeTypes
<1>3. CASE UNCHANGED vars
  BY <1>3 DEF vars, server, client, network, Types
<1> QED  BY <1>1, <1>2, <1>3 DEF Next

(* The server, the clients and their connections keep the types that the     *)
(* variables of server.c and client.c and the state of a socket have.        *)
THEOREM TypeCorrectness == Spec => []TypeOK
BY InitTypes, NextTypes, TypesIsTypeOK, PTL DEF Spec

-----------------------------------------------------------------------------
(* What the ends of a connection have to do with each other: a client has    *)
(* its end while it runs, what an end that is closed would read is gone, and *)
(* an end is reset only after the other was closed.  The last conjunct says  *)
(* which clients leave the server a half-open connection.                    *)
EndsOf(c) ==
    /\ clientOpen[c] <=> repl[c] \in {"prompt", "wait"}
    /\ repl[c] = "new" => ~ serverOpen[c] /\ ~ clientReset[c] /\ ~ serverReset[c]
    /\ ~ serverOpen[c] => toServer[c] = <<>>
    /\ ~ clientOpen[c] => toClient[c] = <<>>
    /\ clientReset[c] => ~ serverOpen[c]
    /\ serverReset[c] => ~ clientOpen[c]
    /\ serverOpen[c] /\ ~ clientOpen[c] => repl[c] = "gone"

Ends == \A c \in Clients : EndsOf(c)

(* The connections that wait are open, differ, and the served one is open    *)
(* and no longer among them.                                                 *)
Queue ==
    /\ cfd # NULL => serverOpen[cfd]
    /\ \A j \in 1 .. Len(waiting) :
        /\ waiting[j] # cfd /\ serverOpen[waiting[j]]
        /\ \A l \in 1 .. Len(waiting) : waiting[j] = waiting[l] => j = l

Connections == Types /\ Ends /\ Queue

LEMMA InitConnections == Init => Ends /\ Queue
<1> SUFFICES ASSUME Init PROVE Ends /\ Queue
  OBVIOUS
<1>1. Ends
  BY DEF Init, Ends, EndsOf
<1>2. waiting = <<>> /\ cfd = NULL
  BY DEF Init
<1>3. Queue
  BY <1>2, EmptySeq DEF Queue
<1> QED  BY <1>1, <1>3

(* Closing the server's ends keeps the ends consistent. *)
LEMMA CloseServerEndsEnds ==
    ASSUME Types, Ends, NEW C, CloseServerEnds(C), UNCHANGED repl
    PROVE  Ends'
<1> SUFFICES ASSUME NEW c \in Clients PROVE EndsOf(c)'
  BY DEF Ends
<1>1. EndsOf(c)
  BY DEF Ends
<1>2. /\ serverOpen'[c] <=> serverOpen[c] /\ c \notin C
      /\ clientReset'[c] <=> clientReset[c] \/ (c \in C /\ toServer[c] # <<>>)
      /\ toServer'[c] = IF c \in C THEN <<>> ELSE toServer[c]
      /\ clientOpen' = clientOpen /\ serverReset' = serverReset /\ toClient' = toClient
  BY DEF CloseServerEnds, Types
<1> QED  BY <1>1, <1>2 DEF EndsOf

(* A client that ends closes its end: of a reset connection, or at any time  *)
(* and then it is gone.                                                      *)
LEMMA CloseClientEndEnds ==
    ASSUME Types, Ends, NEW c \in Clients, NEW to \in {"killed", "gone"},
           CloseClientEnd(c), repl' = [repl EXCEPT ![c] = to],
           to = "killed" => clientReset[c]
    PROVE  Ends'
<1> SUFFICES ASSUME NEW d \in Clients PROVE EndsOf(d)'
  BY DEF Ends
<1>1. EndsOf(d) /\ EndsOf(c)
  BY DEF Ends
<1>2. /\ clientOpen' = [clientOpen EXCEPT ![c] = FALSE]
      /\ serverReset' = [serverReset EXCEPT ![c] = serverReset[c] \/ toClient[c] # <<>>]
      /\ toClient' = [toClient EXCEPT ![c] = <<>>]
      /\ UNCHANGED <<toServer, serverOpen, clientReset>>
  BY DEF CloseClientEnd
<1>3. CASE d = c
  <2>1. /\ ~ clientOpen'[c] /\ toClient'[c] = <<>> /\ repl'[c] = to
    BY <1>2 DEF Types
  <2>2. to = "killed" => ~ serverOpen[c]
    BY <1>1 DEF EndsOf
  <2> QED  BY <1>1, <1>2, <1>3, <2>1, <2>2 DEF EndsOf
<1>4. CASE d # c
  <2>1. /\ clientOpen'[d] = clientOpen[d] /\ serverReset'[d] = serverReset[d]
        /\ toClient'[d] = toClient[d] /\ repl'[d] = repl[d]
    BY <1>2, <1>4 DEF Types
  <2> QED  BY <1>1, <1>2, <2>1 DEF EndsOf
<1> QED  BY <1>3, <1>4

(* The queue does not mind the messages. *)
LEMMA SameQueue ==
    ASSUME Queue, UNCHANGED <<cfd, waiting, serverOpen>>
    PROVE  Queue'
BY DEF Queue

LEMMA AcceptConnections ==
    ASSUME Connections, accept_connection
    PROVE  Ends' /\ Queue'
<1>1. Ends'
  BY DEF Connections, Ends, EndsOf, accept_connection, client, network
<1>2. waiting \in Seq(Clients) /\ waiting # <<>> /\ Queue
  BY DEF Connections, Types, accept_connection
<1>3. /\ Len(waiting) \in Nat \ {0} /\ cfd' = waiting[1]
      /\ Len(waiting') = Len(waiting) - 1
      /\ \A j \in 1 .. Len(waiting') : waiting'[j] = waiting[j + 1]
  BY <1>2, HeadTailProperties, EmptySeq, LenProperties DEF accept_connection
<1>4. serverOpen' = serverOpen
  BY DEF accept_connection, network
<1>5. ASSUME NEW j \in 1 .. Len(waiting')
      PROVE  /\ waiting'[j] # cfd' /\ serverOpen'[waiting'[j]]
             /\ \A l \in 1 .. Len(waiting') : waiting'[j] = waiting'[l] => j = l
  <2>1. j + 1 \in 1 .. Len(waiting) /\ 1 \in 1 .. Len(waiting) /\ j + 1 # 1
    BY <1>3
  <2>2. waiting'[j] # cfd' /\ serverOpen'[waiting'[j]]
    BY <1>2, <1>3, <1>4, <2>1 DEF Queue
  <2>3. ASSUME NEW l \in 1 .. Len(waiting'), waiting'[j] = waiting'[l]
        PROVE  j = l
    <3>1. l + 1 \in 1 .. Len(waiting) /\ waiting[j + 1] = waiting[l + 1]
      BY <1>3, <2>3
    <3>2. j + 1 = l + 1
      BY <1>2, <2>1, <3>1 DEF Queue
    <3> QED  BY <1>3, <3>2
  <2> QED  BY <2>2, <2>3
<1>6. serverOpen'[cfd']
  BY <1>2, <1>3, <1>4 DEF Queue
<1> QED  BY <1>1, <1>5, <1>6 DEF Queue

LEMMA ReadlineConnections ==
    ASSUME Connections, readline
    PROVE  Ends' /\ Queue'
<1>1. cfd \in Clients /\ serverOpen[cfd]
  BY DEF Connections, Types, Queue, readline
<1>2. \A c \in Clients \ {cfd} : toServer'[c] = toServer[c]
  BY <1>1 DEF Connections, Types, readline
<1>3. UNCHANGED <<repl, toClient, clientOpen, serverOpen, clientReset, serverReset, cfd, waiting>>
  BY DEF readline, client
<1>4. ASSUME NEW c \in Clients PROVE EndsOf(c)'
  <2>1. EndsOf(c)
    BY DEF Connections, Ends
  <2>2. serverOpen[c] \/ toServer'[c] = toServer[c]
    BY <1>1, <1>2
  <2> QED  BY <1>3, <2>1, <2>2 DEF EndsOf
<1> QED  BY <1>3, <1>4, SameQueue DEF Ends, Connections

(* The server process ends, and every connection with it. *)
LEMMA ExitConnections ==
    ASSUME Connections, NEW how, Exit(how), UNCHANGED client
    PROVE  Ends' /\ Queue'
<1>1. Ends'
  BY CloseServerEndsEnds DEF Connections, Exit, client
<1>2. cfd' = NULL /\ waiting' = <<>>
  BY DEF Exit
<1> QED  BY <1>1, <1>2, EmptySeq DEF Queue

LEMMA QuitConnections ==
    ASSUME Connections, pc = "interpret", Quit
    PROVE  Ends' /\ Queue'
<1>1. Ends'
  BY CloseServerEndsEnds DEF Connections, Quit, client
<1>2. cfd' = NULL /\ waiting' = waiting /\ waiting \in Seq(Clients) /\ Queue
  BY DEF Quit, Connections, Types
<1>3. \A c \in Clients \ {cfd} : serverOpen'[c] = serverOpen[c]
  BY DEF Quit, CloseServerEnds, Connections, Types
<1>4. \A j \in 1 .. Len(waiting) : waiting[j] \in Clients \ {cfd} /\ waiting[j] # NULL
  BY <1>2, ElementOfSeq, ServerAssumption DEF Queue
<1> QED  BY <1>1, <1>2, <1>3, <1>4 DEF Queue

LEMMA WritelineConnections ==
    ASSUME Connections, pc = "interpret", writeline
    PROVE  Ends' /\ Queue'
<1>1. cfd \in Clients /\ serverOpen[cfd] /\ EndsOf(cfd)
  BY DEF Connections, Types, Queue, Ends
<1>2. CASE Exit("killed") /\ UNCHANGED <<msg, client>>
  BY <1>2, ExitConnections
<1>3. CASE /\ ~ serverReset[cfd] /\ clientOpen[cfd]
           /\ toClient' = [toClient EXCEPT ![cfd] = @ \o [j \in 1 .. Cells |-> msg.id]]
           /\ UNCHANGED <<cfd, msg, waiting, client>>
           /\ UNCHANGED <<toServer, clientOpen, serverOpen, clientReset, serverReset>>
  <2>1. \A c \in Clients \ {cfd} : toClient'[c] = toClient[c]
    BY <1>3 DEF Connections, Types
  <2>2. ASSUME NEW c \in Clients PROVE EndsOf(c)'
    <3>1. EndsOf(c)
      BY DEF Connections, Ends
    <3>2. clientOpen[c] \/ toClient'[c] = toClient[c]
      BY <1>3, <2>1
    <3> QED  BY <1>3, <3>1, <3>2 DEF EndsOf, client
  <2> QED  BY <1>3, <2>2, SameQueue DEF Ends, Connections
<1>4. CASE /\ ~ serverReset[cfd] /\ ~ clientOpen[cfd]
           /\ serverReset' = [serverReset EXCEPT ![cfd] = TRUE]
           /\ UNCHANGED <<cfd, msg, waiting, client>>
           /\ UNCHANGED <<toServer, toClient, clientOpen, serverOpen, clientReset>>
  <2>1. \A c \in Clients \ {cfd} : serverReset'[c] = serverReset[c]
    BY <1>4 DEF Connections, Types
  <2>2. ASSUME NEW c \in Clients PROVE EndsOf(c)'
    <3>1. EndsOf(c)
      BY DEF Connections, Ends
    <3>2. CASE c = cfd
      BY <1>1, <1>4, <3>1, <3>2 DEF EndsOf, client
    <3>3. CASE c # cfd
      BY <1>4, <2>1, <3>1, <3>3 DEF EndsOf, client
    <3> QED  BY <3>2, <3>3
  <2> QED  BY <1>4, <2>2, SameQueue DEF Ends, Connections
<1> QED  BY <1>2, <1>3, <1>4 DEF writeline

LEMMA RespondConnections ==
    ASSUME Connections, Respond
    PROVE  Ends' /\ Queue'
<1>1. CASE Shutdown
  BY <1>1, ExitConnections DEF Shutdown
<1> QED  BY <1>1, QuitConnections, WritelineConnections DEF Respond

LEMMA ConnectConnections ==
    ASSUME Connections, NEW c \in Clients, connect_server(c)
    PROVE  Ends' /\ Queue'
<1>1. /\ EndsOf(c) /\ repl[c] = "new" /\ ~ serverOpen[c]
      /\ ~ clientReset[c] /\ ~ serverReset[c] /\ ~ clientOpen[c]
  BY DEF Connections, Ends, EndsOf, connect_server
<1>2. CASE /\ waiting' = Append(waiting, c) /\ repl' = [repl EXCEPT ![c] = "prompt"]
           /\ clientOpen' = [clientOpen EXCEPT ![c] = TRUE]
           /\ serverOpen' = [serverOpen EXCEPT ![c] = TRUE]
  <2>1. UNCHANGED <<cfd, toServer, toClient, clientReset, serverReset>>
    BY DEF connect_server
  <2>2. /\ clientOpen'[c] /\ serverOpen'[c] /\ repl'[c] = "prompt"
        /\ \A d \in Clients \ {c} : /\ clientOpen'[d] = clientOpen[d]
                                    /\ serverOpen'[d] = serverOpen[d] /\ repl'[d] = repl[d]
    BY <1>2 DEF Connections, Types
  <2>3. ASSUME NEW d \in Clients PROVE EndsOf(d)'
    <3>1. EndsOf(d)
      BY DEF Connections, Ends
    <3>2. CASE d = c
      BY <1>1, <2>1, <2>2, <3>2 DEF EndsOf
    <3>3. CASE d # c
      BY <2>1, <2>2, <3>1, <3>3 DEF EndsOf
    <3> QED  BY <3>2, <3>3
  <2>4. /\ waiting \in Seq(Clients) /\ Len(waiting) \in Nat /\ Queue
        /\ Len(waiting') = Len(waiting) + 1 /\ waiting'[Len(waiting) + 1] = c
        /\ \A j \in 1 .. Len(waiting) : waiting'[j] = waiting[j]
    BY <1>2, AppendProperties, LenProperties DEF Connections, Types
  <2>5. \A j \in 1 .. Len(waiting) : waiting[j] \in Clients \ {c} /\ serverOpen[waiting[j]]
    BY <1>1, <2>4, ElementOfSeq DEF Queue
  <2>6. c # cfd /\ (cfd # NULL => serverOpen'[cfd'])
    <3>1. cfd \in Clients \cup {NULL} /\ c # NULL /\ cfd' = cfd
      BY <2>1, ServerAssumption DEF Connections, Types
    <3>2. c # cfd
      BY <1>1, <2>4, <3>1 DEF Queue
    <3>3. cfd # NULL => serverOpen[cfd] /\ cfd \in Clients \ {c}
      BY <2>4, <3>1, <3>2 DEF Queue
    <3> QED  BY <2>2, <3>1, <3>2, <3>3
  <2>7. ASSUME NEW j \in 1 .. Len(waiting')
        PROVE  /\ waiting'[j] # cfd' /\ serverOpen'[waiting'[j]]
               /\ \A l \in 1 .. Len(waiting') : waiting'[j] = waiting'[l] => j = l
    <3>1. \A l \in 1 .. Len(waiting') : l \in 1 .. Len(waiting) \/ l = Len(waiting) + 1
      BY <2>4
    <3>2. CASE j \in 1 .. Len(waiting)
      <4>1. waiting'[j] # cfd' /\ serverOpen'[waiting'[j]]
        BY <2>1, <2>2, <2>4, <2>5, <3>2 DEF Queue
      <4>2. \A l \in 1 .. Len(waiting') : waiting'[j] = waiting'[l] => j = l
        BY <2>4, <2>5, <3>1, <3>2 DEF Queue
      <4> QED  BY <4>1, <4>2
    <3>3. CASE j = Len(waiting) + 1
      BY <2>1, <2>2, <2>4, <2>5, <2>6, <3>1, <3>3
    <3> QED  BY <3>1, <3>2, <3>3
  <2> QED  BY <2>1, <2>3, <2>6, <2>7 DEF Ends, Queue
<1>3. CASE /\ repl' = [repl EXCEPT ![c] = "failed"]
           /\ UNCHANGED <<waiting, clientOpen, serverOpen>>
  <2>1. UNCHANGED <<cfd, toServer, toClient, clientReset, serverReset>>
    BY DEF connect_server
  <2>2. repl'[c] = "failed" /\ \A d \in Clients \ {c} : repl'[d] = repl[d]
    BY <1>3 DEF Connections, Types
  <2>3. ASSUME NEW d \in Clients PROVE EndsOf(d)'
    <3>1. EndsOf(d)
      BY DEF Connections, Ends
    <3>2. CASE d = c
      BY <1>1, <1>3, <2>1, <2>2, <3>1, <3>2 DEF EndsOf
    <3>3. CASE d # c
      BY <1>3, <2>1, <2>2, <3>1, <3>3 DEF EndsOf
    <3> QED  BY <3>2, <3>3
  <2> QED  BY <1>3, <2>1, <2>3, SameQueue DEF Ends, Connections
<1> QED  BY <1>2, <1>3 DEF connect_server

LEMMA TypeConnections ==
    ASSUME Connections, NEW c \in Clients, NEW kind \in Kinds, Type(c, kind)
    PROVE  Ends' /\ Queue'
<1>1. UNCHANGED <<cfd, waiting>> /\ repl[c] = "prompt" /\ EndsOf(c)
  BY DEF Type, server, Connections, Ends
<1>2. serverOpen' = serverOpen
  BY DEF Type, CloseClientEnd
<1>3. Queue'
  BY <1>1, <1>2, SameQueue DEF Connections
<1>4. CASE clientReset[c] /\ repl' = [repl EXCEPT ![c] = "killed"] /\ CloseClientEnd(c)
  BY <1>3, <1>4, CloseClientEndEnds DEF Connections
<1>5. CASE /\ serverOpen[c] /\ repl' = [repl EXCEPT ![c] = "wait"]
           /\ toServer' = [toServer EXCEPT ![c] = Append(@, [id |-> sent'[c], kind |-> kind])]
           /\ UNCHANGED <<toClient, clientOpen, serverOpen, clientReset, serverReset>>
  <2>1. /\ repl'[c] = "wait"
        /\ \A d \in Clients \ {c} : repl'[d] = repl[d] /\ toServer'[d] = toServer[d]
    BY <1>5 DEF Connections, Types
  <2>2. ASSUME NEW d \in Clients PROVE EndsOf(d)'
    <3>1. EndsOf(d)
      BY DEF Connections, Ends
    <3>2. CASE d = c
      BY <1>1, <1>5, <2>1, <3>2 DEF EndsOf
    <3>3. CASE d # c
      BY <1>5, <2>1, <3>1, <3>3 DEF EndsOf
    <3> QED  BY <3>2, <3>3
  <2> QED  BY <1>3, <2>2 DEF Ends
<1>6. CASE /\ ~ serverOpen[c] /\ repl' = [repl EXCEPT ![c] = "wait"]
           /\ clientReset' = [clientReset EXCEPT ![c] = TRUE]
           /\ UNCHANGED <<toServer, toClient, clientOpen, serverOpen, serverReset>>
  <2>1. /\ repl'[c] = "wait"
        /\ \A d \in Clients \ {c} : repl'[d] = repl[d] /\ clientReset'[d] = clientReset[d]
    BY <1>6 DEF Connections, Types
  <2>2. ASSUME NEW d \in Clients PROVE EndsOf(d)'
    <3>1. EndsOf(d)
      BY DEF Connections, Ends
    <3>2. CASE d = c
      BY <1>1, <1>6, <2>1, <3>2 DEF EndsOf
    <3>3. CASE d # c
      BY <1>6, <2>1, <3>1, <3>3 DEF EndsOf
    <3> QED  BY <3>2, <3>3
  <2> QED  BY <1>3, <2>2 DEF Ends
<1> QED  BY <1>4, <1>5, <1>6 DEF Type

LEMMA ShowConnections ==
    ASSUME Connections, NEW c \in Clients, Show(c)
    PROVE  Ends' /\ Queue'
<1>1. /\ UNCHANGED <<cfd, waiting, toServer, clientOpen, serverOpen, clientReset, serverReset>>
      /\ repl[c] = "wait" /\ EndsOf(c)
  BY DEF Show, server, Connections, Ends
<1>2. clientOpen[c]
  BY <1>1 DEF EndsOf
<1>3. /\ repl'[c] = "prompt"
      /\ \A d \in Clients \ {c} : repl'[d] = repl[d] /\ toClient'[d] = toClient[d]
  BY DEF Show, Connections, Types
<1>4. ASSUME NEW d \in Clients PROVE EndsOf(d)'
  <2>1. EndsOf(d)
    BY DEF Connections, Ends
  <2>2. CASE d = c
    BY <1>1, <1>2, <1>3, <2>2 DEF EndsOf
  <2>3. CASE d # c
    BY <1>1, <1>3, <2>1, <2>3 DEF EndsOf
  <2> QED  BY <2>2, <2>3
<1> QED  BY <1>1, <1>4, SameQueue DEF Ends, Connections

LEMMA InterruptConnections ==
    ASSUME Connections, NEW c \in Clients, Interrupt(c)
    PROVE  Ends' /\ Queue'
<1>1. Ends'
  BY CloseClientEndEnds DEF Connections, Interrupt
<1> QED  BY <1>1, SameQueue DEF Connections, Interrupt, CloseClientEnd, server

LEMMA NextConnections == Connections /\ [Next]_vars => Connections'
<1> SUFFICES ASSUME Connections, [Next]_vars PROVE Ends' /\ Queue'
  BY NextTypes DEF Connections
<1>1. CASE accept_connection \/ readline \/ Respond
  BY <1>1, AcceptConnections, ReadlineConnections, RespondConnections
<1>2. ASSUME NEW c \in Clients,
             connect_server(c) \/ Show(c) \/ Interrupt(c) \/ \E kind \in Kinds : Type(c, kind)
      PROVE  Ends' /\ Queue'
  BY <1>2, ConnectConnections, ShowConnections, InterruptConnections, TypeConnections
<1>3. CASE UNCHANGED vars
  BY <1>3 DEF vars, server, client, network, Connections, Ends, EndsOf, Queue
<1> QED  BY <1>1, <1>2, <1>3 DEF Next

(* A step of the main loop kills the server only in writeline, and only when *)
(* the client that it serves has been interrupted.                           *)
LEMMA KillingStep ==
    Connections /\ [Next]_vars => (pc # "killed" /\ pc' = "killed" => repl[cfd] = "gone")
<1> SUFFICES ASSUME Connections, [Next]_vars, pc # "killed", pc' = "killed"
             PROVE  repl[cfd] = "gone"
  OBVIOUS
<1>1. pc = "interpret" /\ writeline /\ serverReset[cfd]
  BY DEF Next, vars, server, accept_connection, readline, Respond, Quit, Shutdown, Exit,
         writeline, connect_server, Type, Show, Interrupt
<1>2. cfd \in Clients /\ serverOpen[cfd] /\ EndsOf(cfd)
  BY <1>1 DEF Connections, Types, Queue, Ends
<1> QED  BY <1>1, <1>2 DEF EndsOf

(* Whoever interrupts a client harms the server only while that client is    *)
(* served: no other client, waiting or finished, ever kills it with SIGPIPE. *)
THEOREM OnlyItsClientKills == Spec => KilledOnlyByItsClient
<1>1. Spec => []Connections
  BY InitTypes, InitConnections, NextConnections, PTL DEF Spec, Connections
<1> QED  BY <1>1, KillingStep, PTL DEF Spec, KilledOnlyByItsClient

-----------------------------------------------------------------------------
(* The conversation of a client that types no "long": at most one message of *)
(* it is under way, from the moment it is typed to the moment its reply is   *)
(* read, and it is the last that was typed.  InStep alone is not inductive:  *)
(* it forgets what the message is.                                           *)
InHand(c) == pc = "interpret" /\ cfd = c

Requests(c) == Len(toServer[c])
Replies(c) == Len(toClient[c])
Hand(c) == IF InHand(c) THEN 1 ELSE 0
UnderWay(c) == Requests(c) + Replies(c) + Hand(c)

TalkOf(c) ==
    /\ UnderWay(c) <= 1
    /\ repl[c] = "new" => shown[c] = 0
    /\ repl[c] = "prompt" => UnderWay(c) = 0 /\ shown[c] \in {0, sent[c]}
    /\ \A j \in 1 .. Len(toServer[c]) :
            toServer[c][j].id = sent[c] /\ toServer[c][j].kind # "long"
    /\ \A j \in 1 .. Len(toClient[c]) : toClient[c][j] = sent[c]
    /\ InHand(c) => msg.kind # "long" /\ (clientOpen[c] => msg.id = sent[c])

Talk == \A c \in Clients \ LongClients : TalkOf(c)

Conversations == Connections /\ Talk

(* The numbers that UnderWay adds, before and after a step. *)
LEMMA Counts ==
    ASSUME Types, NEW c \in Clients
    PROVE  /\ Requests(c) \in Nat /\ Replies(c) \in Nat /\ Hand(c) \in {0, 1}
           /\ Requests(c) = 0 <=> toServer[c] = <<>>
           /\ Replies(c) = 0 <=> toClient[c] = <<>>
           /\ Hand(c) = 1 <=> InHand(c)
           /\ toServer[c] \in Seq(Request) /\ toClient[c] \in Seq(0 .. MaxRequests)
<1>1. toServer[c] \in Seq(Request) /\ toClient[c] \in Seq(0 .. MaxRequests)
  BY DEF Types
<1> QED  BY <1>1, LenProperties, EmptySeq DEF Requests, Replies, Hand

LEMMA CountsNext ==
    ASSUME Types', NEW c \in Clients
    PROVE  /\ Requests(c)' \in Nat /\ Replies(c)' \in Nat /\ Hand(c)' \in {0, 1}
           /\ Requests(c)' = 0 <=> toServer'[c] = <<>>
           /\ Replies(c)' = 0 <=> toClient'[c] = <<>>
           /\ Hand(c)' = 1 <=> InHand(c)'
<1>1. toServer'[c] \in Seq(Request) /\ toClient'[c] \in Seq(0 .. MaxRequests)
  BY DEF Types
<1> QED  BY <1>1, LenProperties, EmptySeq DEF Requests, Replies, Hand

LEMMA InitTalk == Init => Talk
<1> SUFFICES ASSUME Init, NEW c \in Clients PROVE TalkOf(c)
  BY DEF Talk
<1>1. toServer[c] = <<>> /\ toClient[c] = <<>> /\ ~ InHand(c) /\ repl[c] = "new" /\ shown[c] = 0
  BY DEF Init, InHand
<1>2. Requests(c) = 0 /\ Replies(c) = 0 /\ Hand(c) = 0
  BY <1>1, InitTypes, Counts
<1>3. UnderWay(c) = 0
  BY <1>2 DEF UnderWay
<1> QED  BY <1>1, <1>3, EmptySeq DEF TalkOf

(* What a client's conversation depends on.  A channel may be emptied, and   *)
(* the server may let the message in its hand go.                            *)
LEMMA Quieter ==
    ASSUME Types, Types', NEW c \in Clients, TalkOf(c),
           repl'[c] \in {repl[c], "gone", "killed"},
           sent'[c] = sent[c], shown'[c] = shown[c],
           toServer'[c] \in {<<>>, toServer[c]}, toClient'[c] \in {<<>>, toClient[c]},
           InHand(c)' => InHand(c) /\ msg' = msg /\ (clientOpen'[c] => clientOpen[c])
    PROVE  TalkOf(c)'
<1>1. /\ Requests(c)' \in {0, Requests(c)} /\ Replies(c)' \in {0, Replies(c)}
      /\ Hand(c)' \in {0, Hand(c)}
  BY Counts, CountsNext DEF Requests, Replies
<1>2. Requests(c) \in Nat /\ Replies(c) \in Nat /\ Hand(c) \in Nat
  BY Counts
<1>3. UnderWay(c)' <= UnderWay(c) /\ UnderWay(c)' \in Nat /\ UnderWay(c) \in Nat
  BY <1>1, <1>2 DEF UnderWay
<1>4. \A j \in 1 .. Len(toServer'[c]) :
            toServer'[c][j].id = sent'[c] /\ toServer'[c][j].kind # "long"
  BY EmptySeq DEF TalkOf
<1>5. \A j \in 1 .. Len(toClient'[c]) : toClient'[c][j] = sent'[c]
  BY EmptySeq DEF TalkOf
<1>6. InHand(c)' => msg'.kind # "long" /\ (clientOpen'[c] => msg'.id = sent'[c])
  BY DEF TalkOf
<1>7. UnderWay(c)' <= 1 /\ (repl'[c] = "prompt" => UnderWay(c)' = 0)
  BY <1>3 DEF TalkOf
<1>8. /\ repl'[c] = "new" => shown'[c] = 0
      /\ repl'[c] = "prompt" => shown'[c] \in {0, sent'[c]}
  BY DEF TalkOf
<1> QED  BY <1>4, <1>5, <1>6, <1>7, <1>8 DEF TalkOf

LEMMA AcceptTalk ==
    ASSUME Conversations, Types', NEW c \in Clients \ LongClients, accept_connection
    PROVE  TalkOf(c)'
<1>1. ~ InHand(c)' /\ TalkOf(c) /\ Types
  BY DEF accept_connection, InHand, Conversations, Connections, Talk
<1> QED  BY <1>1, Quieter DEF accept_connection, client, network

LEMMA ReadlineTalk ==
    ASSUME Conversations, Types', NEW c \in Clients \ LongClients, readline
    PROVE  TalkOf(c)'
<1>1. /\ cfd \in Clients /\ serverOpen[cfd] /\ EndsOf(cfd) /\ TalkOf(c) /\ Types /\ ~ InHand(c)
      /\ UNCHANGED <<cfd, repl, sent, shown, toClient, clientOpen>> /\ pc' = "interpret"
  BY DEF readline, client, Conversations, Connections, Types, Queue, Ends, Talk, InHand
<1>2. CASE c # cfd
  <2>1. toServer'[c] = toServer[c] /\ ~ InHand(c)'
    BY <1>1, <1>2 DEF readline, Types, InHand
  <2> QED  BY <1>1, <2>1, Quieter
<1>3. CASE c = cfd
  <2>1. /\ Hand(c)' = 1 /\ Hand(c) = 0 /\ UnderWay(c) <= 1
        /\ Requests(c) \in Nat /\ Replies(c) \in Nat
    <3>1. InHand(c)'
      BY <1>1, <1>3 DEF InHand
    <3> QED  BY <1>1, <3>1, Counts, CountsNext DEF TalkOf
  <2>2. ASSUME NEW n \in 1 .. Len(toServer[c]), msg' = Head(toServer[c]),
               toServer' = [toServer EXCEPT ![c] = SubSeq(@, n + 1, Len(@))]
        PROVE  TalkOf(c)'
    <3>1. n \in 1 .. Requests(c)
      BY <2>2 DEF Requests
    <3>2. n = 1 /\ Requests(c) = 1 /\ Replies(c) = 0 /\ UnderWay(c) = 1
      BY <2>1, <3>1 DEF UnderWay
    <3>3. /\ Head(toServer[c]) = toServer[c][1]
          /\ Len(SubSeq(toServer[c], n + 1, Len(toServer[c]))) = Len(toServer[c]) - n
      BY <1>1, Counts, Rest
    <3>4. toServer'[c] = SubSeq(toServer[c], n + 1, Len(toServer[c]))
      BY <1>1, <2>2 DEF Types
    <3>5. Requests(c)' = Requests(c) - n /\ Replies(c)' = Replies(c)
      BY <1>1, <3>3, <3>4 DEF Requests, Replies
    <3>6. Requests(c)' = 0 /\ Replies(c)' = 0 /\ UnderWay(c)' = 1
      BY <2>1, <3>2, <3>5 DEF UnderWay
    <3>7. toServer'[c] = <<>> /\ toClient'[c] = <<>>
      BY <3>6, CountsNext
    <3>8. 1 \in 1 .. Len(toServer[c])
      BY <3>1, <3>2 DEF Requests
    <3>9. msg'.id = sent[c] /\ msg'.kind # "long" /\ repl[c] # "prompt"
      BY <1>1, <2>2, <3>2, <3>3, <3>8 DEF TalkOf
    <3>10. repl[c] = "new" => shown[c] = 0
      BY <1>1 DEF TalkOf
    <3> QED  BY <1>1, <3>6, <3>7, <3>9, <3>10, EmptySeq DEF TalkOf
  <2>3. CASE /\ toServer[c] = <<>>
             /\ ~ clientOpen[c] \/ serverReset[c]
             /\ msg' = [id |-> 0, kind |-> "short"] /\ UNCHANGED toServer
    <3>1. ~ clientOpen[c] /\ repl[c] # "prompt"
      BY <1>1, <1>3, <2>3 DEF EndsOf
    <3>2. toClient[c] = <<>>
      BY <1>1, <1>3, <3>1 DEF EndsOf
    <3>3. Requests(c)' = 0 /\ Replies(c)' = 0
      BY <1>1, <2>3, <3>2, CountsNext
    <3>4. UnderWay(c)' = 1
      BY <2>1, <3>3 DEF UnderWay
    <3>5. repl[c] = "new" => shown[c] = 0
      BY <1>1 DEF TalkOf
    <3> QED  BY <1>1, <2>3, <3>1, <3>2, <3>4, <3>5, EmptySeq DEF TalkOf
  <2> QED  BY <1>3, <2>2, <2>3 DEF readline
<1> QED  BY <1>2, <1>3

LEMMA RespondTalk ==
    ASSUME Conversations, Types', NEW c \in Clients \ LongClients, Respond
    PROVE  TalkOf(c)'
<1>1. /\ pc = "interpret" /\ cfd \in Clients /\ TalkOf(c) /\ Types
      /\ UNCHANGED <<repl, sent, shown>>
  BY DEF Respond, Quit, Shutdown, writeline, client, Conversations, Connections, Types, Talk
<1>2. ~ InHand(c)'
  BY DEF Respond, Quit, Shutdown, writeline, Exit, InHand
<1>3. ASSUME NEW C, CloseServerEnds(C) PROVE TalkOf(c)'
  <2>1. toServer'[c] \in {<<>>, toServer[c]} /\ toClient' = toClient
    BY <1>3 DEF CloseServerEnds
  <2> QED  BY <1>1, <1>2, <2>1, Quieter
<1>4. CASE Quit \/ Exit("killed") \/ Exit("down")
  BY <1>3, <1>4 DEF Quit, Exit
<1>5. CASE /\ ~ serverReset[cfd] /\ clientOpen[cfd] /\ UNCHANGED toServer
           /\ toClient' = [toClient EXCEPT ![cfd] = @ \o [j \in 1 .. Cells |-> msg.id]]
  <2>1. CASE c # cfd
    <3>1. toClient'[c] = toClient[c]
      BY <1>5, <2>1 DEF Types
    <3> QED  BY <1>1, <1>2, <1>5, <3>1, Quieter
  <2>2. CASE c = cfd
    <3>1. /\ InHand(c) /\ msg.kind # "long" /\ msg.id = sent[c]
          /\ msg.id \in 0 .. MaxRequests /\ Cells = 1
      BY <1>1, <1>5, <2>2 DEF InHand, TalkOf, Cells, Types, Request
    <3>2. /\ Requests(c) \in Nat /\ Replies(c) \in Nat /\ Hand(c) = 1 /\ Hand(c)' = 0
          /\ UnderWay(c) <= 1
      BY <1>1, <1>2, <3>1, Counts, CountsNext DEF TalkOf
    <3>3. Requests(c) = 0 /\ Replies(c) = 0 /\ UnderWay(c) = 1
      BY <3>2 DEF UnderWay
    <3>4. toServer[c] = <<>> /\ toClient[c] = <<>> /\ repl[c] # "prompt"
      BY <1>1, <3>3, Counts DEF TalkOf
    <3> DEFINE reply == [j \in 1 .. 1 |-> msg.id]
    <3>5. reply \in Seq(0 .. MaxRequests) /\ Len(reply) = 1 /\ reply[1] = msg.id
      BY <3>1
    <3>6. toClient'[c] = <<>> \o reply
      BY <1>1, <1>5, <2>2, <3>1, <3>4 DEF Types
    <3>7. Len(toClient'[c]) = 1 /\ toClient'[c][1] = msg.id
      <4> HIDE DEF reply
      <4> QED  BY <3>5, <3>6, ConcatEmptySeq
    <3>8. Requests(c)' = 0 /\ Replies(c)' = 1
      BY <1>5, <3>3, <3>7 DEF Requests, Replies
    <3>9. UnderWay(c)' = 1
      BY <3>2, <3>8 DEF UnderWay
    <3>10. repl[c] = "new" => shown[c] = 0
      BY <1>1 DEF TalkOf
    <3> QED  BY <1>1, <1>2, <1>5, <3>1, <3>4, <3>7, <3>9, <3>10, EmptySeq DEF TalkOf
  <2> QED  BY <2>1, <2>2
<1>6. CASE UNCHANGED <<toServer, toClient>>
  BY <1>1, <1>2, <1>6, Quieter
<1> QED  BY <1>4, <1>5, <1>6 DEF Respond, Shutdown, writeline

LEMMA ConnectTalk ==
    ASSUME Conversations, Types', NEW c \in Clients \ LongClients,
           NEW d \in Clients, connect_server(d)
    PROVE  TalkOf(c)'
<1>1. /\ EndsOf(c) /\ TalkOf(c) /\ Types /\ Queue /\ repl[d] = "new"
      /\ UNCHANGED <<pc, cfd, msg, sent, shown, toServer, toClient>>
  BY DEF connect_server, Conversations, Connections, Ends, Talk
<1>2. CASE c # d
  <2>1. repl'[c] = repl[c] /\ clientOpen'[c] = clientOpen[c]
    BY <1>2 DEF connect_server, Conversations, Connections, Types
  <2> QED  BY <1>1, <2>1, Quieter DEF InHand
<1>3. CASE c = d
  <2>1. ~ serverOpen[c] /\ toServer[c] = <<>> /\ toClient[c] = <<>> /\ shown[c] = 0
    BY <1>1, <1>3 DEF EndsOf, TalkOf
  <2>2. ~ InHand(c) /\ ~ InHand(c)'
    BY <1>1, <2>1, ServerAssumption DEF Queue, InHand
  <2>3. Requests(c)' = 0 /\ Replies(c)' = 0 /\ Hand(c)' = 0
    BY <1>1, <2>1, <2>2, CountsNext
  <2>4. UnderWay(c)' = 0
    BY <2>3 DEF UnderWay
  <2>5. repl'[c] # "new"
    BY <1>1, <1>3 DEF connect_server, Types
  <2> QED  BY <1>1, <2>1, <2>2, <2>4, <2>5, EmptySeq DEF TalkOf
<1> QED  BY <1>2, <1>3

LEMMA TypeTalk ==
    ASSUME Conversations, Types', NEW c \in Clients \ LongClients,
           NEW d \in Clients, NEW kind \in Kinds, Type(d, kind)
    PROVE  TalkOf(c)'
<1>1. /\ EndsOf(c) /\ TalkOf(c) /\ Types /\ repl[d] = "prompt"
      /\ UNCHANGED <<pc, cfd, msg, shown>>
  BY DEF Type, server, Conversations, Connections, Ends, Talk
<1>2. CASE c # d
  <2>1. /\ repl'[c] = repl[c] /\ sent'[c] = sent[c] /\ clientOpen'[c] = clientOpen[c]
        /\ toServer'[c] = toServer[c] /\ toClient'[c] = toClient[c]
    BY <1>1, <1>2 DEF Type, CloseClientEnd, Types
  <2> QED  BY <1>1, <2>1, Quieter DEF InHand
<1>3. CASE c = d
  <2>1. Requests(c) = 0 /\ Replies(c) = 0 /\ Hand(c) = 0
    <3>1. /\ UnderWay(c) = 0 /\ Requests(c) \in Nat /\ Replies(c) \in Nat /\ Hand(c) \in Nat
      BY <1>1, <1>3, Counts DEF TalkOf
    <3> QED  BY <3>1 DEF UnderWay
  <2>2. toServer[c] = <<>> /\ toClient[c] = <<>> /\ ~ InHand(c)
    BY <1>1, <2>1, Counts
  <2>3. ~ InHand(c)' /\ Hand(c)' = 0
    BY <1>1, <2>2 DEF InHand, Hand
  <2>4. repl'[c] \in {"killed", "wait"}
    BY <1>1, <1>3 DEF Type, Types
  <2>5. toClient'[c] = <<>> /\ Replies(c)' = 0
    <3>1. toClient'[c] = <<>>
      BY <1>1, <1>3, <2>2 DEF Type, CloseClientEnd, Types
    <3> QED  BY <3>1, CountsNext
  <2>6. CASE UNCHANGED toServer
    <3>1. Requests(c)' = 0
      BY <2>2, <2>6, CountsNext
    <3>2. UnderWay(c)' = 0
      BY <2>3, <2>5, <3>1 DEF UnderWay
    <3> QED  BY <2>2, <2>3, <2>4, <2>5, <2>6, <3>2, EmptySeq DEF TalkOf
  <2>7. CASE toServer' = [toServer EXCEPT ![c] = Append(@, [id |-> sent'[c], kind |-> kind])]
    <3> DEFINE request == [id |-> sent'[c], kind |-> kind]
    <3>1. request \in Request
      BY DEF Request, Types
    <3>2. toServer'[c] = Append(toServer[c], request)
      BY <1>1, <2>7 DEF Types
    <3>3. Len(toServer'[c]) = 1 /\ toServer'[c][1] = request
      <4> HIDE DEF request
      <4> QED  BY <2>2, <3>1, <3>2, AppendProperties, EmptySeq
    <3>4. kind # "long"
      BY <1>3 DEF Type
    <3>5. Requests(c)' = 1
      BY <3>3 DEF Requests
    <3>6. UnderWay(c)' = 1
      BY <2>3, <2>5, <3>5 DEF UnderWay
    <3> QED  BY <2>3, <2>4, <2>5, <3>3, <3>4, <3>6, EmptySeq DEF TalkOf
  <2> QED  BY <1>3, <2>6, <2>7 DEF Type, CloseClientEnd
<1> QED  BY <1>2, <1>3

LEMMA ShowTalk ==
    ASSUME Conversations, Types', NEW c \in Clients \ LongClients, NEW d \in Clients, Show(d)
    PROVE  TalkOf(c)'
<1>1. /\ EndsOf(c) /\ TalkOf(c) /\ Types /\ Queue
      /\ UNCHANGED <<pc, cfd, msg, sent, toServer, clientOpen, serverOpen, clientReset>>
  BY DEF Show, server, Conversations, Connections, Ends, Talk
<1>2. CASE c # d
  <2>1. repl'[c] = repl[c] /\ shown'[c] = shown[c] /\ toClient'[c] = toClient[c]
    BY <1>1, <1>2 DEF Show, Types
  <2> QED  BY <1>1, <2>1, Quieter DEF InHand
<1>3. CASE c = d
  <2>1. /\ UnderWay(c) <= 1 /\ Requests(c) \in Nat /\ Replies(c) \in Nat /\ Hand(c) \in Nat
    BY <1>1, Counts DEF TalkOf
  <2>2. repl'[c] = "prompt" /\ Requests(c)' = Requests(c) /\ Hand(c)' = Hand(c)
    BY <1>1, <1>3 DEF Show, Types, Requests, Hand, InHand
  <2>3. ASSUME NEW n \in 1 .. Len(toClient[c]),
               shown' = [shown EXCEPT ![c] = Head(toClient[c])],
               toClient' = [toClient EXCEPT ![c] = SubSeq(@, n + 1, Len(@))]
        PROVE  TalkOf(c)'
    <3>1. n \in 1 .. Replies(c)
      BY <2>3 DEF Replies
    <3>2. n = 1 /\ Replies(c) = 1 /\ Requests(c) = 0 /\ Hand(c) = 0
      BY <2>1, <3>1 DEF UnderWay
    <3> DEFINE s == toClient[c]
               Ids == 0 .. MaxRequests
    <3>3. s \in Seq(Ids) /\ n \in 1 .. Len(s) /\ 1 \in 1 .. Len(s)
      BY <1>1, <3>1, <3>2, Counts DEF Replies
    <3>4. Head(s) = s[1] /\ Len(SubSeq(s, n + 1, Len(s))) = Len(s) - n
      <4> HIDE DEF s, Ids
      <4> QED  BY <3>3, Rest
    <3>5. toClient'[c] = SubSeq(s, n + 1, Len(s)) /\ shown'[c] = Head(s)
      BY <1>1, <2>3 DEF Types
    <3>6. Replies(c)' = Replies(c) - n
      BY <3>4, <3>5 DEF Replies
    <3>7. Replies(c)' = 0 /\ UnderWay(c)' = 0
      BY <2>2, <3>2, <3>6 DEF UnderWay
    <3>8. toServer'[c] = <<>> /\ toClient'[c] = <<>> /\ ~ InHand(c)'
      BY <2>2, <3>2, <3>7, CountsNext
    <3>9. shown'[c] = sent[c]
      BY <1>1, <3>3, <3>4, <3>5 DEF TalkOf
    <3> QED  BY <1>1, <2>2, <3>7, <3>8, <3>9, EmptySeq DEF TalkOf
  <2>4. CASE /\ toClient[c] = <<>>
             /\ ~ serverOpen[c] \/ clientReset[c]
             /\ shown' = [shown EXCEPT ![c] = 0] /\ UNCHANGED toClient
    <3>1. ~ serverOpen[c] /\ toServer[c] = <<>>
      BY <1>1, <2>4 DEF EndsOf
    <3>2. ~ InHand(c) /\ ~ InHand(c)'
      BY <1>1, <3>1, ServerAssumption DEF Queue, InHand
    <3>3. Requests(c)' = 0 /\ Replies(c)' = 0 /\ Hand(c)' = 0
      BY <1>1, <2>4, <3>1, <3>2, CountsNext
    <3>4. UnderWay(c)' = 0
      BY <3>3 DEF UnderWay
    <3>5. shown'[c] = 0
      BY <2>4 DEF Types
    <3> QED  BY <1>1, <2>2, <2>4, <3>1, <3>2, <3>4, <3>5, EmptySeq DEF TalkOf
  <2> QED  BY <1>3, <2>3, <2>4 DEF Show
<1> QED  BY <1>2, <1>3

LEMMA InterruptTalk ==
    ASSUME Conversations, Types', NEW c \in Clients \ LongClients, NEW d \in Clients, Interrupt(d)
    PROVE  TalkOf(c)'
<1>1. /\ TalkOf(c) /\ Types /\ UNCHANGED <<pc, cfd, msg, sent, shown, toServer>>
  BY DEF Interrupt, CloseClientEnd, server, Conversations, Connections, Talk
<1>2. /\ repl'[c] \in {repl[c], "gone"} /\ toClient'[c] \in {<<>>, toClient[c]}
      /\ clientOpen'[c] => clientOpen[c]
  BY <1>1 DEF Interrupt, CloseClientEnd, Types
<1> QED  BY <1>1, <1>2, Quieter DEF InHand

LEMMA NextTalk == Conversations /\ [Next]_vars => Conversations'
<1> SUFFICES ASSUME Conversations, [Next]_vars, NEW c \in Clients \ LongClients
             PROVE  TalkOf(c)'
  BY NextConnections DEF Conversations, Talk
<1>0. Types'
  BY NextTypes DEF Conversations, Connections
<1>1. CASE accept_connection \/ readline \/ Respond
  BY <1>0, <1>1, AcceptTalk, ReadlineTalk, RespondTalk
<1>2. ASSUME NEW d \in Clients,
             connect_server(d) \/ Show(d) \/ Interrupt(d) \/ \E kind \in Kinds : Type(d, kind)
      PROVE  TalkOf(c)'
  BY <1>0, <1>2, ConnectTalk, ShowTalk, InterruptTalk, TypeTalk
<1>3. CASE UNCHANGED vars
  BY <1>3 DEF vars, server, client, network, Conversations, Talk, TalkOf, UnderWay, Requests, Replies, Hand, InHand
<1> QED  BY <1>1, <1>2, <1>3 DEF Next

-----------------------------------------------------------------------------
(* No connection is lost: while the server has its end of it, it serves it   *)
(* or has it in the queue, and the client that waits on it has a message     *)
(* under way.  No client is asked for what it types here.                    *)
Held(c) == serverOpen[c] => cfd = c \/ \E j \in 1 .. Len(waiting) : waiting[j] = c

Owed(c) ==
    repl[c] = "wait" /\ serverOpen[c] =>
        toServer[c] # <<>> \/ toClient[c] # <<>> \/ InHand(c)

Debts == \A c \in Clients : Held(c) /\ Owed(c)

LEMMA InitDebts == Init => Debts
BY DEF Init, Debts, Held, Owed

LEMMA AcceptDebts ==
    ASSUME Connections, Debts, accept_connection, NEW c \in Clients
    PROVE  Held(c)' /\ Owed(c)'
<1>1. Held(c) /\ Owed(c) /\ pc = "accept" /\ pc' = "read" /\ cfd = NULL /\ c # NULL
  BY ServerAssumption DEF Debts, accept_connection, Connections, Types
<1>2. UNCHANGED <<repl, serverOpen, toServer, toClient>>
  BY DEF accept_connection, client, network
<1>3. /\ Len(waiting) \in Nat \ {0} /\ cfd' = waiting[1]
      /\ Len(waiting') = Len(waiting) - 1
      /\ \A j \in 1 .. Len(waiting') : waiting'[j] = waiting[j + 1]
  BY HeadTailProperties, EmptySeq, LenProperties DEF accept_connection, Connections, Types
<1>4. Held(c)'
  <2> SUFFICES ASSUME serverOpen[c]
               PROVE  cfd' = c \/ \E j \in 1 .. Len(waiting') : waiting'[j] = c
    BY <1>2 DEF Held
  <2>1. PICK j \in 1 .. Len(waiting) : waiting[j] = c
    BY <1>1 DEF Held
  <2>2. CASE j = 1
    BY <1>3, <2>1, <2>2
  <2>3. CASE j # 1
    <3>1. j - 1 \in 1 .. Len(waiting') /\ waiting'[j - 1] = waiting[(j - 1) + 1]
          /\ (j - 1) + 1 = j
      BY <1>3, <2>3
    <3> QED  BY <2>1, <3>1
  <2> QED  BY <2>2, <2>3
<1>5. Owed(c)'
  BY <1>1, <1>2 DEF Owed, InHand
<1> QED  BY <1>4, <1>5

LEMMA ReadlineDebts ==
    ASSUME Connections, Debts, readline, NEW c \in Clients
    PROVE  Held(c)' /\ Owed(c)'
<1>1. Held(c) /\ Owed(c) /\ cfd \in Clients /\ pc' = "interpret" /\ pc = "read"
  BY DEF Debts, readline, Connections, Types
<1>2. UNCHANGED <<cfd, waiting, repl, serverOpen, toClient>>
  BY DEF readline, client
<1>3. c # cfd => toServer'[c] = toServer[c]
  BY <1>1 DEF readline, Connections, Types
<1> QED  BY <1>1, <1>2, <1>3 DEF Held, Owed, InHand

LEMMA RespondDebts ==
    ASSUME Connections, Debts, Respond, NEW c \in Clients
    PROVE  Held(c)' /\ Owed(c)'
<1>1. /\ Held(c) /\ Owed(c) /\ EndsOf(cfd) /\ cfd \in Clients /\ pc = "interpret"
      /\ c \in Clients
  BY DEF Debts, Respond, Connections, Types, Ends
<1>2. ASSUME NEW C, CloseServerEnds(C), cfd \in C, UNCHANGED repl
      PROVE  /\ c \in C => Held(c)' /\ Owed(c)'
             /\ c \notin C => UNCHANGED <<serverOpen[c], toServer[c], toClient[c], repl[c]>>
  <2>1. /\ serverOpen'[c] <=> serverOpen[c] /\ c \notin C
        /\ toServer'[c] = IF c \in C THEN <<>> ELSE toServer[c]
        /\ toClient' = toClient
    BY <1>2 DEF CloseServerEnds
  <2>2. serverOpen[c] \in BOOLEAN /\ serverOpen'[c] \in BOOLEAN
    BY <1>2, CloseServerEndsTypes DEF Connections, Types
  <2> QED  BY <1>2, <2>1, <2>2 DEF Held, Owed
<1>3. ASSUME NEW how, Exit(how), UNCHANGED client
      PROVE  Held(c)' /\ Owed(c)'
  <2>1. CloseServerEnds(Clients) /\ UNCHANGED repl
    BY <1>3 DEF Exit, client
  <2> QED  BY <1>1, <1>2, <2>1
<1>4. CASE Quit
  <2>1. /\ CloseServerEnds({cfd}) /\ UNCHANGED <<repl, waiting>> /\ cfd' = NULL
    BY <1>4 DEF Quit, client
  <2>2. c # cfd => /\ UNCHANGED <<serverOpen[c], toServer[c], toClient[c], repl[c]>>
                   /\ ~ InHand(c)
    BY <1>2, <2>1 DEF InHand
  <2>3. c = cfd => Held(c)' /\ Owed(c)'
    BY <1>2, <2>1
  <2> QED  BY <1>1, <2>1, <2>2, <2>3 DEF Held, Owed
<1>5. CASE Shutdown
  BY <1>3, <1>5 DEF Shutdown
<1>6. CASE writeline
  <2>1. CASE Exit("killed") /\ UNCHANGED <<msg, client>>
    BY <1>3, <2>1
  <2>2. CASE /\ ~ serverReset[cfd] /\ clientOpen[cfd]
             /\ toClient' = [toClient EXCEPT ![cfd] = @ \o [j \in 1 .. Cells |-> msg.id]]
             /\ pc' = "read" /\ UNCHANGED <<cfd, msg, waiting, client>>
             /\ UNCHANGED <<toServer, clientOpen, serverOpen, clientReset, serverReset>>
    <3>1. c # cfd => toClient'[c] = toClient[c]
      BY <2>2 DEF Connections, Types
    <3>2. toClient'[cfd] # <<>>
      <4> DEFINE t == [j \in 1 .. Cells |-> msg.id]
                 u == toClient[cfd]
      <4>1. Cells \in Nat /\ Cells > 0
        BY ServerAssumption DEF Cells
      <4>2. msg.id \in 0 .. MaxRequests
        BY DEF Connections, Types, Request
      <4>3. t \in Seq(0 .. MaxRequests) /\ Len(t) = Cells
        BY <4>1, <4>2
      <4>4. u \in Seq(0 .. MaxRequests)
        BY <1>1 DEF Connections, Types
      <4> HIDE DEF t
      <4>5. Len(u \o t) = Len(u) + Len(t) /\ Len(u) \in Nat
        BY <4>3, <4>4, ConcatProperties, LenProperties
      <4>6. u \o t # <<>>
        BY <4>1, <4>3, <4>5, EmptySeq
      <4>7. toClient'[cfd] = u \o t
        BY <1>1, <2>2 DEF Connections, Types, t
      <4> QED  BY <4>6, <4>7
    <3> QED  BY <1>1, <2>2, <3>1, <3>2 DEF Held, Owed, InHand, client
  <2>3. CASE /\ ~ serverReset[cfd] /\ ~ clientOpen[cfd]
             /\ pc' = "read" /\ UNCHANGED <<cfd, msg, waiting, client>>
             /\ UNCHANGED <<toServer, toClient, clientOpen, serverOpen, clientReset>>
    <3>1. repl[cfd] # "wait"
      BY <1>1, <2>3 DEF EndsOf
    <3> QED  BY <1>1, <2>3, <3>1 DEF Held, Owed, InHand, client
  <2> QED  BY <1>6, <2>1, <2>2, <2>3 DEF writeline
<1> QED  BY <1>4, <1>5, <1>6 DEF Respond

(* What the other clients do. *)
LEMMA ClientDebts ==
    ASSUME Connections, Debts, NEW d \in Clients, NEW c \in Clients,
           \/ connect_server(d) \/ Show(d) \/ Interrupt(d)
           \/ \E kind \in Kinds : Type(d, kind)
    PROVE  Held(c)' /\ Owed(c)'
<1>1. Held(c) /\ Owed(c)
  BY DEF Debts
<1>2. CASE connect_server(d)
  <2>1. UNCHANGED <<pc, cfd, toServer, toClient>>
    BY <1>2 DEF connect_server
  <2>2. CASE /\ waiting' = Append(waiting, d) /\ repl' = [repl EXCEPT ![d] = "prompt"]
             /\ serverOpen' = [serverOpen EXCEPT ![d] = TRUE]
    <3>1. /\ Len(waiting) \in Nat /\ Len(waiting') = Len(waiting) + 1
          /\ waiting'[Len(waiting) + 1] = d
          /\ \A j \in 1 .. Len(waiting) : waiting'[j] = waiting[j]
      BY <2>2, AppendProperties, LenProperties DEF Connections, Types
    <3>2. \A j \in 1 .. Len(waiting) : j \in 1 .. Len(waiting')
      BY <3>1
    <3>3. Len(waiting) + 1 \in 1 .. Len(waiting')
      BY <3>1
    <3>4. CASE c = d
      <4>1. repl'[c] = "prompt"
        BY <2>2, <3>4 DEF Connections, Types
      <4> QED  BY <3>1, <3>3, <3>4, <4>1 DEF Held, Owed
    <3>5. CASE c # d
      <4>1. repl'[c] = repl[c] /\ serverOpen'[c] = serverOpen[c]
        BY <2>2, <3>5 DEF Connections, Types
      <4>2. Held(c)'
        <5> SUFFICES ASSUME serverOpen[c]
                     PROVE  cfd' = c \/ \E j \in 1 .. Len(waiting') : waiting'[j] = c
          BY <4>1 DEF Held
        <5> QED  BY <1>1, <2>1, <3>1, <3>2 DEF Held
      <4>3. Owed(c)'
        BY <1>1, <2>1, <4>1 DEF Owed, InHand
      <4> QED  BY <4>2, <4>3
    <3> QED  BY <3>4, <3>5
  <2>3. CASE /\ repl' = [repl EXCEPT ![d] = "failed"]
             /\ UNCHANGED <<waiting, clientOpen, serverOpen>>
    <3>1. repl'[c] = "wait" => repl[c] = "wait"
      BY <2>3 DEF Connections, Types
    <3> QED  BY <1>1, <2>1, <2>3, <3>1 DEF Held, Owed, InHand
  <2> QED  BY <1>2, <2>2, <2>3 DEF connect_server
<1>3. CASE Show(d)
  <2>1. /\ UNCHANGED <<pc, cfd, waiting, toServer, serverOpen>>
        /\ repl'[c] = IF c = d THEN "prompt" ELSE repl[c]
        /\ c # d => toClient'[c] = toClient[c]
    BY <1>3 DEF Show, server, Connections, Types
  <2> QED  BY <1>1, <2>1 DEF Held, Owed, InHand
<1>4. CASE Interrupt(d)
  <2>1. /\ UNCHANGED <<pc, cfd, waiting, toServer, serverOpen>>
        /\ repl'[c] = IF c = d THEN "gone" ELSE repl[c]
        /\ c # d => toClient'[c] = toClient[c]
    BY <1>4 DEF Interrupt, CloseClientEnd, server, Connections, Types
  <2> QED  BY <1>1, <2>1 DEF Held, Owed, InHand
<1>5. ASSUME NEW kind \in Kinds, Type(d, kind)
      PROVE  Held(c)' /\ Owed(c)'
  <2>1. UNCHANGED <<pc, cfd, waiting, serverOpen>>
    BY <1>5 DEF Type, server, CloseClientEnd
  <2>2. CASE c = d
    <3>1. CASE repl' = [repl EXCEPT ![d] = "killed"]
      <4>1. repl'[c] # "wait"
        BY <2>2, <3>1 DEF Connections, Types
      <4> QED  BY <1>1, <2>1, <4>1 DEF Held, Owed
    <3>2. CASE toServer' = [toServer EXCEPT ![d] = Append(@, [id |-> sent'[d], kind |-> kind])]
      <4>1. toServer[d] \in Seq(Request)
        BY DEF Connections, Types
      <4>2. [id |-> sent'[d], kind |-> kind] \in Request
        <5>1. sent' \in [Clients -> 0 .. MaxRequests]
          BY <1>5, TypeTypes DEF Connections, Types
        <5> QED  BY <5>1 DEF Request
      <4>3. Append(toServer[d], [id |-> sent'[d], kind |-> kind]) # <<>>
        BY <4>1, <4>2, AppendProperties, EmptySeq, LenProperties
      <4>4. toServer'[c] # <<>>
        BY <2>2, <3>2, <4>3 DEF Connections, Types
      <4> QED  BY <1>1, <2>1, <4>4 DEF Held, Owed
    <3>3. CASE ~ serverOpen[d]
      BY <1>1, <2>1, <2>2, <3>3 DEF Held, Owed
    <3> QED  BY <1>5, <3>1, <3>2, <3>3 DEF Type
  <2>3. CASE c # d
    <3>1. repl'[c] = repl[c] /\ toServer'[c] = toServer[c] /\ toClient'[c] = toClient[c]
      BY <1>5, <2>3 DEF Type, CloseClientEnd, Connections, Types
    <3> QED  BY <1>1, <2>1, <3>1 DEF Held, Owed, InHand
  <2> QED  BY <2>2, <2>3
<1> QED  BY <1>2, <1>3, <1>4, <1>5

LEMMA NextDebts == Connections /\ Debts /\ [Next]_vars => Debts'
<1> SUFFICES ASSUME Connections, Debts, [Next]_vars, NEW c \in Clients
             PROVE  Held(c)' /\ Owed(c)'
  BY DEF Debts
<1>1. CASE accept_connection \/ readline \/ Respond
  BY <1>1, AcceptDebts, ReadlineDebts, RespondDebts
<1>2. ASSUME NEW d \in Clients,
             connect_server(d) \/ Show(d) \/ Interrupt(d) \/ \E kind \in Kinds : Type(d, kind)
      PROVE  Held(c)' /\ Owed(c)'
  BY <1>2, ClientDebts
<1>3. CASE UNCHANGED vars
  BY <1>3 DEF vars, server, client, network, Debts, Held, Owed, InHand
<1> QED  BY <1>1, <1>2, <1>3 DEF Next

(* A client that asks for no reply longer than its buffer never sees the     *)
(* reply to another request, however many clients share the server and       *)
(* whichever of them are interrupted: write and read need no framing there.  *)
(* And whatever is asked, a client and the server never both wait for the    *)
(* other: with an open connection a waiting client is served or queued and   *)
(* its request or reply is on the way, in spite of lost requests.            *)
THEOREM ConversationsStayInStep == Spec => []InStep
<1>1. Conversations /\ Debts => InStep
  <2> SUFFICES ASSUME Conversations, Debts PROVE InStep
    OBVIOUS
  <2>1. \A c \in Clients \ LongClients :
          /\ Len(toServer[c]) + Len(toClient[c])
                 + (IF pc = "interpret" /\ cfd = c THEN 1 ELSE 0) <= 1
          /\ repl[c] = "prompt" => shown[c] \in {0, sent[c]}
    BY DEF Conversations, Talk, TalkOf, UnderWay, Requests, Replies, Hand, InHand
  <2>2. DOMAIN waiting = 1 .. Len(waiting)
    BY LenProperties DEF Conversations, Connections, Types
  <2> QED  BY <2>1, <2>2 DEF Debts, Held, Owed, InHand, InStep
<1>2. Init => Conversations /\ Debts
  BY InitTypes, InitConnections, InitTalk, InitDebts DEF Conversations, Connections
<1>3. Conversations /\ Debts /\ [Next]_vars => Conversations' /\ Debts'
  BY NextTalk, NextDebts DEF Conversations
<1> QED  BY <1>1, <1>2, <1>3, PTL DEF Spec

-----------------------------------------------------------------------------
(***************************************************************************)
(* Replies are texts that the client reads back, and buffers are as large  *)
(* as their texts: what follows proves it for every width of int.  The     *)
(* functions that the operators of Replies recurse with are defined by     *)
(* equations; that they satisfy them has to be proved.                     *)
(***************************************************************************)
Chars == 0 .. 16
CharSeqs == Seq(Chars)

(* A string that can be replied: its length is an int. *)
Strings == {s \in CharSeqs : Len(s) <= IntMax} \cup {Nil}

PrintEquation(f) ==
    f = [n \in Nat |-> IF n < 10 THEN <<n>> ELSE Append(f[n \div 10], n % 10)]

(* What Printed recurses with. *)
DigitsOf == CHOOSE f : PrintEquation(f)

CountEquation(f) == f = [n \in Int |-> IF n > 0 THEN 1 + f[n \div 10] ELSE 0]

(* What ndigits recurses with. *)
Count == CHOOSE f : CountEquation(f)

ReadEquation(f, s) ==
    f = [i \in 0 .. Len(s) |-> IF i = 0 THEN 0 ELSE ToInt(f[i - 1] * 10 + s[i])]

(* What ReadDigits recurses with. *)
Read(s) == CHOOSE f : ReadEquation(f, s)

(* Numbers. *)
LEMMA IntsAre ==
    /\ IntMax \in Nat /\ 1 <= IntMax /\ {-1, 0, 1} \subseteq Ints /\ Ints \subseteq Int
    /\ \A x \in Int : ToInt(x) \in Ints
<1>1. IntMax \in Nat /\ 1 <= IntMax
  BY IntAssumption
<1>2. ASSUME NEW x \in Int PROVE ToInt(x) \in Ints
  <2> DEFINE y == x + IntMax + 1
             m == 2 * (IntMax + 1)
  <2>1. y \in Int /\ m \in Nat /\ m > 0
    BY <1>1
  <2>2. y % m \in 0 .. m - 1
    <3> HIDE DEF y, m
    <3> QED  BY <2>1
  <2> QED  BY <1>1, <2>2 DEF ToInt, Ints
<1> QED  BY <1>1, <1>2 DEF Ints

(* The last digit and the digits before it. *)
LEMMA Tenth ==
    ASSUME NEW n \in Nat
    PROVE  /\ n \div 10 \in Nat /\ n % 10 \in 0 .. 9 /\ n = 10 * (n \div 10) + (n % 10)
           /\ n > 0 => n \div 10 < n
           /\ n > 9 => n \div 10 > 0
  OBVIOUS

LEMMA PrintIs ==
    /\ DigitsOf \in [Nat -> Seq(0 .. 9)]
    /\ \A n \in Nat :
         DigitsOf[n] = IF n < 10 THEN <<n>> ELSE Append(DigitsOf[n \div 10], n % 10)
<1> DEFINE V == Seq(0 .. 9)
           B == 0 .. 9
           b == [n \in Nat |-> IF n \in 0 .. 9 THEN <<n>> ELSE <<>>]
           h == [n \in Nat |-> [v \in V |-> Append(v, n % 10)]]
           g == [n \in Nat |-> n \div 10]
<1>1. b \in [Nat -> V]
  <2>1. <<>> \in V /\ \A n \in 0 .. 9 : <<n>> \in V
    OBVIOUS
  <2> HIDE DEF V
  <2> QED  BY <2>1
<1>2. h \in [Nat -> [V -> V]]
  <2>1. \A n \in Nat, v \in V : Append(v, n % 10) \in V
    BY Tenth
  <2> HIDE DEF V
  <2> QED  BY <2>1
<1>3. g \in [Nat -> Nat] /\ \A n \in Nat \ B : g[n] < n
  BY Tenth
<1>4. \A n \in Nat : g[n] = n \div 10 /\ n \div 10 \in Nat
  BY Tenth
<1>5. \A n \in Nat : (n \in B <=> n < 10) /\ (n < 10 => b[n] = <<n>>)
  OBVIOUS
<1>6. \A n \in Nat, v \in V : h[n][v] = Append(v, n % 10)
  OBVIOUS
<1> HIDE DEF V, B, b, h, g
<1>7. Scheme(V, B, b, h, g)
  BY <1>1, <1>2, <1>3 DEF Scheme
<1>71. PICK f \in [Nat -> V] : ObeysScheme(f, B, b, h, g)
  BY <1>7, RecursionDefines, Zenon
<1>8. ASSUME NEW n \in Nat
      PROVE  f[n] = IF n < 10 THEN <<n>> ELSE Append(f[n \div 10], n % 10)
  <2>1. f[n] = IF n < 10 THEN <<n>> ELSE h[n][f[n \div 10]]
    <3>1. (n \in B => f[n] = b[n]) /\ (n \notin B => f[n] = h[n][f[g[n]]])
      BY <1>71 DEF ObeysScheme
    <3> QED  BY <1>4, <1>5, <3>1
  <2>2. f[n \div 10] \in V
    BY <1>4, <1>71
  <2> QED  BY <1>6, <2>1, <2>2
<1>9. PrintEquation(f)
  <2>1. f = [n \in Nat |-> f[n]]
    BY <1>71
  <2> QED  BY <1>8, <2>1, Zenon DEF PrintEquation
<1>10. PrintEquation(DigitsOf)
  BY <1>9, Zenon DEF DigitsOf
<1>11. \A n \in Nat :
         DigitsOf[n] = IF n < 10 THEN <<n>> ELSE Append(DigitsOf[n \div 10], n % 10)
  BY <1>10, Zenon DEF PrintEquation
<1> DEFINE S == {n \in Nat : DigitsOf[n] \in V}
<1>12. ASSUME NEW n \in Nat, \A m \in Nat : m < n => m \in S
       PROVE  n \in S
  <2>1. CASE n < 10
    <3>1. DigitsOf[n] = <<n>>
      BY <1>11, <2>1
    <3>2. <<n>> \in V
      BY <2>1 DEF V
    <3> QED  BY <3>1, <3>2
  <2>2. CASE ~ (n < 10)
    <3>1. n \div 10 \in S
      BY <1>12, <2>2, Tenth
    <3>2. Append(DigitsOf[n \div 10], n % 10) \in V
      BY <3>1, Tenth DEF V
    <3> QED  BY <1>11, <2>2, <3>2
  <2> QED  BY <2>1, <2>2
<1> HIDE DEF S
<1>13. Nat \subseteq S
  BY <1>12, StrongInduction
<1>14. DigitsOf = [n \in Nat |-> DigitsOf[n]]
  <2> DEFINE e == [n \in Nat |-> IF n < 10 THEN <<n>> ELSE Append(DigitsOf[n \div 10], n % 10)]
  <2>1. DigitsOf = e
    BY <1>10, Zenon DEF PrintEquation
  <2>2. DOMAIN e = Nat /\ e = [n \in Nat |-> e[n]]
    OBVIOUS
  <2> HIDE DEF e
  <2> QED  BY <2>1, <2>2
<1> QED  BY <1>11, <1>13, <1>14 DEF S, V

LEMMA CountIs ==
    /\ \A n \in Int : Count[n] = IF n > 0 THEN 1 + Count[n \div 10] ELSE 0
    /\ \A n \in Int : Count[n] \in Nat
<1> DEFINE B == {0}
           b == [n \in Nat |-> 0]
           h == [n \in Nat |-> [v \in Nat |-> 1 + v]]
           g == [n \in Nat |-> n \div 10]
<1>1. b \in [Nat -> Nat] /\ h \in [Nat -> [Nat -> Nat]]
  OBVIOUS
<1>2. g \in [Nat -> Nat] /\ \A n \in Nat \ B : g[n] < n
  BY Tenth
<1>3. \A n \in Nat : g[n] = n \div 10 /\ n \div 10 \in Nat
  BY Tenth
<1>4. b[0] = 0 /\ 0 \in B /\ \A n \in Nat, v \in Nat : h[n][v] = 1 + v
  OBVIOUS
<1> HIDE DEF B, b, h, g
<1>41. Scheme(Nat, B, b, h, g)
  BY <1>1, <1>2 DEF Scheme
<1>5. PICK f \in [Nat -> Nat] : ObeysScheme(f, B, b, h, g)
  BY <1>41, RecursionDefines, Zenon
<1> DEFINE c == [n \in Int |-> IF n > 0 THEN f[n] ELSE 0]
<1>6. f[0] = 0 /\ \A n \in Nat : n > 0 => f[n] = 1 + f[n \div 10]
  <2>1. \A n \in Nat : (n \in B => f[n] = b[n]) /\ (n \notin B => f[n] = h[n][f[g[n]]])
    BY <1>5 DEF ObeysScheme
  <2>2. f[0] = 0
    BY <1>4, <2>1
  <2>3. ASSUME NEW n \in Nat, n > 0
        PROVE  f[n] = 1 + f[n \div 10]
    <3>1. f[n] = h[n][f[n \div 10]]
      <4>1. n \notin B
        BY <2>3 DEF B
      <4>2. g[n] = n \div 10
        BY <1>3
      <4> QED  BY <2>1, <4>1, <4>2
    <3>2. f[n \div 10] \in Nat
      BY <1>3, <1>5
    <3> QED  BY <1>4, <3>1, <3>2
  <2> QED  BY <2>2, <2>3
<1>7. \A n \in Int : n > 0 => n \in Nat /\ n \div 10 \in Nat /\ f[n \div 10] = c[n \div 10]
  <2> TAKE n \in Int
  <2> HAVE n > 0
  <2>1. n \in Nat /\ n \div 10 \in Nat
    BY Tenth
  <2> QED  BY <1>6, <2>1
<1>8. \A n \in Int : c[n] = IF n > 0 THEN 1 + c[n \div 10] ELSE 0
  <2>1. \A n \in Int : c[n] = IF n > 0 THEN f[n] ELSE 0
    OBVIOUS
  <2> HIDE DEF c
  <2> QED  BY <1>6, <1>7, <2>1
<1>9. CountEquation(c)
  <2>1. c = [n \in Int |-> c[n]]
    OBVIOUS
  <2> HIDE DEF c
  <2> QED  BY <1>8, <2>1, Zenon DEF CountEquation
<1> HIDE DEF c
<1>10. CountEquation(Count)
  BY <1>9, Zenon DEF Count
<1>11. \A n \in Int : Count[n] = IF n > 0 THEN 1 + Count[n \div 10] ELSE 0
  BY <1>10, Zenon DEF CountEquation
<1> DEFINE S == {n \in Nat : Count[n] \in Nat}
<1>12. ASSUME NEW n \in Nat, \A m \in Nat : m < n => m \in S
       PROVE  n \in S
  <2>1. CASE n = 0
    BY <1>11, <2>1
  <2>2. CASE n > 0
    <3>1. n \div 10 \in S
      BY <1>12, <2>2, Tenth
    <3> QED  BY <1>11, <2>2, <3>1
  <2> QED  BY <2>1, <2>2
<1> HIDE DEF S
<1>13. Nat \subseteq S
  BY <1>12, StrongInduction
<1>14. \A n \in Int : Count[n] \in Nat
  <2> TAKE n \in Int
  <2>1. CASE n > 0
    BY <1>13, <2>1 DEF S
  <2>2. CASE ~ (n > 0)
    BY <1>11, <2>2
  <2> QED  BY <2>1, <2>2
<1> QED  BY <1>11, <1>14

(* ReadDigits goes on with the last digit where it was before it. *)
LEMMA ReadIs ==
    ASSUME NEW s \in Seq(Int)
    PROVE  /\ \A i \in 0 .. Len(s) :
                Read(s)[i] = IF i = 0 THEN 0 ELSE ToInt(Read(s)[i - 1] * 10 + s[i])
           /\ \A i \in 0 .. Len(s) : Read(s)[i] \in Int
<1> DEFINE B == {0}
           b == [n \in Nat |-> 0]
           D(n) == IF n \in 1 .. Len(s) THEN s[n] ELSE 0
           h == [n \in Nat |-> [v \in Int |-> ToInt(v * 10 + D(n))]]
           g == [n \in Nat |-> IF n = 0 THEN 0 ELSE n - 1]
<1>1. Scheme(Int, B, b, h, g)
  <2>1. \A n \in Nat : D(n) \in Int
    OBVIOUS
  <2> HIDE DEF D
  <2>2. b \in [Nat -> Int] /\ g \in [Nat -> Nat] /\ \A n \in Nat : n \notin B => g[n] < n
    OBVIOUS
  <2>3. \A n \in Nat, v \in Int : ToInt(v * 10 + D(n)) \in Int
    BY <2>1, IntsAre DEF Ints
  <2>4. h \in [Nat -> [Int -> Int]]
    BY <2>3
  <2> QED  BY <2>2, <2>4 DEF Scheme
<1>2. \A n \in 1 .. Len(s) : n \notin B /\ g[n] = n - 1 /\ n - 1 \in 0 .. Len(s)
  OBVIOUS
<1>3. \A n \in 1 .. Len(s), v \in Int : h[n][v] = ToInt(v * 10 + s[n])
  <2> TAKE n \in 1 .. Len(s), v \in Int
  <2>1. n \in Nat /\ D(n) = s[n]
    OBVIOUS
  <2> HIDE DEF D
  <2> QED  BY <2>1
<1>4. 0 \in B /\ b[0] = 0
  OBVIOUS
<1> HIDE DEF B, b, h, g
<1>5. PICK f \in [Nat -> Int] : ObeysScheme(f, B, b, h, g)
  BY <1>1, RecursionDefines, Zenon
<1>6. \A n \in Nat : (n \in B => f[n] = b[n]) /\ (n \notin B => f[n] = h[n][f[g[n]]])
  BY <1>5 DEF ObeysScheme
<1>7. ASSUME NEW i \in 0 .. Len(s)
      PROVE  f[i] = IF i = 0 THEN 0 ELSE ToInt(f[i - 1] * 10 + s[i])
  <2>1. CASE i = 0
    BY <1>4, <1>6, <2>1
  <2>2. CASE i # 0
    <3>1. i \in 1 .. Len(s) /\ i \in Nat
      BY <2>2
    <3>2. i \notin B /\ g[i] = i - 1 /\ i - 1 \in Nat
      BY <1>2, <3>1
    <3>3. f[i] = h[i][f[i - 1]] /\ f[i - 1] \in Int
      BY <1>5, <1>6, <3>1, <3>2
    <3> QED  BY <1>3, <2>2, <3>1, <3>3
  <2> QED  BY <2>1, <2>2
<1> DEFINE r == [i \in 0 .. Len(s) |-> f[i]]
<1>8. \A i \in 0 .. Len(s) : i # 0 => i - 1 \in 0 .. Len(s)
  OBVIOUS
<1>9. \A i \in 0 .. Len(s) : r[i] = IF i = 0 THEN 0 ELSE ToInt(r[i - 1] * 10 + s[i])
  BY <1>7, <1>8
<1>10. ReadEquation(r, s)
  <2>1. r = [i \in 0 .. Len(s) |-> r[i]]
    OBVIOUS
  <2> HIDE DEF r
  <2> QED  BY <1>9, <2>1, Zenon DEF ReadEquation
<1> HIDE DEF r
<1>11. ReadEquation(Read(s), s)
  BY <1>10, Zenon DEF Read
<1>12. \A i \in 0 .. Len(s) :
         Read(s)[i] = IF i = 0 THEN 0 ELSE ToInt(Read(s)[i - 1] * 10 + s[i])
  BY <1>11, Zenon DEF ReadEquation
<1> DEFINE S == {n \in Nat : n <= Len(s) => Read(s)[n] \in Int}
<1>13. 0 \in S
  BY <1>12
<1>14. ASSUME NEW n \in Nat, n \in S
       PROVE  n + 1 \in S
  <2> SUFFICES ASSUME n + 1 <= Len(s)  PROVE Read(s)[n + 1] \in Int
    OBVIOUS
  <2>1. Read(s)[n + 1] = ToInt(Read(s)[n] * 10 + s[n + 1])
    BY <1>12
  <2>2. Read(s)[n] \in Int /\ s[n + 1] \in Int
    BY <1>14
  <2>3. Read(s)[n] * 10 + s[n + 1] \in Int
    BY <2>2
  <2> QED  BY <2>1, <2>3, IntsAre DEF Ints
<1> HIDE DEF S
<1>15. Nat \subseteq S
  BY <1>13, <1>14, SetInduction
<1>16. \A i \in 0 .. Len(s) : Read(s)[i] \in Int
  BY <1>15 DEF S
<1> QED  BY <1>12, <1>16

LEMMA ReadDigitsIs ==
    ASSUME NEW s  PROVE ReadDigits(s) = Read(s)[Len(s)]
BY Zenon DEF ReadDigits, Read, ReadEquation, ToInt, ToInt

LEMMA ReadAppend ==
    ASSUME NEW s \in Seq(Int), NEW d \in Int
    PROVE  /\ ReadDigits(<<>>) = 0
           /\ ReadDigits(s) \in Int
           /\ ReadDigits(Append(s, d)) = ToInt(ReadDigits(s) * 10 + d)
<1> DEFINE t == Append(s, d)
           S == {n \in Nat : n <= Len(s) => Read(t)[n] = Read(s)[n]}
<1>1. t \in Seq(Int) /\ Len(t) = Len(s) + 1 /\ t[Len(s) + 1] = d
      /\ \A i \in 1 .. Len(s) : t[i] = s[i]
  OBVIOUS
<1> HIDE DEF t
<1>2. \A i \in 0 .. Len(t) : Read(t)[i] = IF i = 0 THEN 0 ELSE ToInt(Read(t)[i - 1] * 10 + t[i])
  BY <1>1, ReadIs
<1>3. /\ \A i \in 0 .. Len(s) : Read(s)[i] = IF i = 0 THEN 0 ELSE ToInt(Read(s)[i - 1] * 10 + s[i])
      /\ \A i \in 0 .. Len(s) : Read(s)[i] \in Int
  BY ReadIs
<1>4. Len(s) \in Nat
  OBVIOUS
<1>5. 0 \in S
  BY <1>1, <1>2, <1>3, <1>4
<1>6. ASSUME NEW n \in Nat, n \in S
      PROVE  n + 1 \in S
  <2> SUFFICES ASSUME n + 1 <= Len(s)  PROVE Read(t)[n + 1] = Read(s)[n + 1]
    OBVIOUS
  <2>1. Read(t)[n] = Read(s)[n] /\ t[n + 1] = s[n + 1]
    BY <1>1, <1>6, <1>4
  <2>2. Read(t)[n + 1] = ToInt(Read(t)[n] * 10 + t[n + 1])
    BY <1>1, <1>2, <1>4
  <2>3. Read(s)[n + 1] = ToInt(Read(s)[n] * 10 + s[n + 1])
    BY <1>3, <1>4
  <2> QED  BY <2>1, <2>2, <2>3
<1> HIDE DEF S
<1>7. Nat \subseteq S
  BY <1>5, <1>6, SetInduction
<1>8. Read(t)[Len(s)] = Read(s)[Len(s)]
  BY <1>4, <1>7 DEF S
<1>9. Read(t)[Len(t)] = ToInt(Read(t)[Len(s)] * 10 + d)
  BY <1>1, <1>2, <1>4
<1>10. ReadDigits(t) = ToInt(ReadDigits(s) * 10 + d)
  BY <1>8, <1>9, ReadDigitsIs
<1>11. ReadDigits(s) \in Int
  BY <1>3, <1>4, ReadDigitsIs
<1>12. ReadDigits(<<>>) = 0
  <2>1. <<>> \in Seq(Int) /\ Len(<<>>) = 0
    OBVIOUS
  <2>2. \A i \in 0 .. 0 : Read(<<>>)[i] = IF i = 0 THEN 0 ELSE ToInt(Read(<<>>)[i - 1] * 10 + <<>>[i])
    BY <2>1, ReadIs
  <2> QED  BY <2>1, <2>2, ReadDigitsIs
<1> QED  BY <1>10, <1>11, <1>12 DEF t

(* What ints hold: themselves, and INT_MIN for one more than INT_MAX. *)
LEMMA IntsAreKept ==
    /\ \A n \in Ints : ToInt(n) = n
    /\ ToInt(IntMax + 1) = -(IntMax + 1)
<1>1. IntMax \in Nat /\ IntMax > 0
  BY IntAssumption
<1>2. ASSUME NEW n \in Ints
      PROVE  ToInt(n) = n
  <2> DEFINE y == n + IntMax + 1
             m == 2 * (IntMax + 1)
  <2>1. y \in Nat /\ m \in Nat /\ m > 0 /\ y < m
    BY <1>1 DEF Ints
  <2>2. y % m = y
    <3> HIDE DEF y, m
    <3> QED  BY <2>1
  <2> QED  BY <1>1, <2>2 DEF ToInt, Ints
<1>3. ToInt(IntMax + 1) = -(IntMax + 1)
  <2> DEFINE m == 2 * (IntMax + 1)
  <2>1. m \in Nat /\ m > 0 /\ IntMax + 1 + IntMax + 1 = m
    BY <1>1
  <2>2. m % m = 0
    <3> HIDE DEF m
    <3> QED  BY <2>1
  <2>3. (IntMax + 1 + IntMax + 1) % m = 0
    BY <2>1, <2>2
  <2> QED  BY <1>1, <2>3 DEF ToInt
<1> QED  BY <1>2, <1>3

(* The digits that are printed are as many as are counted, but for 0. *)
LEMMA PrintLength ==
    ASSUME NEW n \in Nat
    PROVE  /\ DigitsOf[n] \in Seq(0 .. 9) /\ DigitsOf[n] # <<>>
           /\ Len(DigitsOf[n]) = IF n = 0 THEN 1 ELSE Count[n]
<1> DEFINE S == {k \in Nat : Len(DigitsOf[k]) = IF k = 0 THEN 1 ELSE Count[k]}
<1>1. ASSUME NEW k \in Nat, \A m \in Nat : m < k => m \in S
      PROVE  k \in S
  <2>1. CASE k < 10
    <3>1. Len(DigitsOf[k]) = 1
      BY <2>1, PrintIs
    <3>2. k > 0 => Count[k] = 1
      <4> SUFFICES ASSUME k > 0  PROVE Count[k] = 1
        OBVIOUS
      <4>1. k \in Int /\ k \div 10 = 0 /\ 0 \in Int
        BY <2>1
      <4>2. Count[k] = 1 + Count[k \div 10] /\ Count[0] = 0
        BY <4>1, CountIs
      <4> QED  BY <4>1, <4>2
    <3>3. Len(DigitsOf[k]) = IF k = 0 THEN 1 ELSE Count[k]
      BY <3>1, <3>2
    <3> QED  BY <3>3
  <2>2. CASE ~ (k < 10)
    <3>1. k \div 10 \in Nat /\ k \div 10 < k /\ k \div 10 > 0
      BY <2>2, Tenth
    <3>2. Len(DigitsOf[k \div 10]) = Count[k \div 10]
      BY <1>1, <3>1
    <3>3. DigitsOf[k] = Append(DigitsOf[k \div 10], k % 10) /\ DigitsOf[k \div 10] \in Seq(0 .. 9)
      BY <2>2, <3>1, PrintIs
    <3>4. Len(DigitsOf[k]) = Len(DigitsOf[k \div 10]) + 1
      BY <3>3, Tenth
    <3>5. Count[k] = 1 + Count[k \div 10] /\ Count[k \div 10] \in Nat
      <4>1. k \in Int /\ k > 0 /\ k \div 10 \in Int
        BY <2>2, <3>1
      <4> QED  BY <4>1, CountIs
    <3> QED  BY <2>2, <3>2, <3>4, <3>5
  <2> QED  BY <2>1, <2>2
<1> HIDE DEF S
<1>2. Nat \subseteq S
  BY <1>1, StrongInduction
<1>3. Len(DigitsOf[n]) = IF n = 0 THEN 1 ELSE Count[n]
  BY <1>2 DEF S
<1>4. DigitsOf[n] \in Seq(0 .. 9)
  BY PrintIs
<1>5. n > 0 => Count[n] > 0
  <2> SUFFICES ASSUME n > 0  PROVE Count[n] > 0
    OBVIOUS
  <2>1. n \in Int /\ n \div 10 \in Int
    BY Tenth
  <2> QED  BY <2>1, CountIs
<1>6. DigitsOf[n] # <<>>
  BY <1>3, <1>5
<1> QED  BY <1>3, <1>4, <1>6

(* What is printed of an int without its sign is read back. *)
LEMMA PrintReads ==
    ASSUME NEW n \in 0 .. IntMax + 1
    PROVE  ReadDigits(DigitsOf[n]) = ToInt(n)
<1> DEFINE S == {k \in Nat : k <= IntMax + 1 => ReadDigits(DigitsOf[k]) = ToInt(k)}
<1>0. IntMax \in Nat /\ IntMax > 0
  BY IntAssumption
<1>1. ASSUME NEW k \in Nat, \A m \in Nat : m < k => m \in S
      PROVE  k \in S
  <2> SUFFICES ASSUME k <= IntMax + 1  PROVE ReadDigits(DigitsOf[k]) = ToInt(k)
    OBVIOUS
  <2>1. CASE k < 10
    <3>1. DigitsOf[k] = Append(<<>>, k)
      BY <2>1, PrintIs
    <3>2. <<>> \in Seq(Int) /\ k \in Int
      OBVIOUS
    <3>3. ReadDigits(Append(<<>>, k)) = ToInt(0 * 10 + k)
      BY <3>2, ReadAppend
    <3> QED  BY <3>1, <3>3
  <2>2. CASE ~ (k < 10)
    <3> DEFINE t == k \div 10
               d == k % 10
    <3>1. t \in Nat /\ t < k /\ d \in 0 .. 9 /\ d \in Int /\ k = t * 10 + d
      BY <2>2, Tenth
    <3>2. DigitsOf[k] = Append(DigitsOf[t], d) /\ DigitsOf[t] \in Seq(0 .. 9)
      BY <2>2, <3>1, PrintIs
    <3> HIDE DEF t, d
    <3>3. DigitsOf[t] \in Seq(Int)
      BY <3>2, 0 .. 9 \subseteq Int, SeqMonotonic
    <3>4. ReadDigits(DigitsOf[t]) = t
      BY <1>0, <1>1, <3>1, IntsAreKept DEF Ints
    <3>5. ReadDigits(Append(DigitsOf[t], d)) = ToInt(t * 10 + d)
      BY <3>1, <3>3, <3>4, ReadAppend
    <3> QED  BY <3>1, <3>2, <3>5
  <2> QED  BY <2>1, <2>2
<1> HIDE DEF S
<1>2. Nat \subseteq S
  BY <1>1, StrongInduction
<1> QED  BY <1>0, <1>2 DEF S

LEMMA PrintedAs ==
    ASSUME NEW y
    PROVE  Printed(y) = IF y < 0 THEN <<10>> \o DigitsOf[-y] ELSE DigitsOf[y]
BY Zenon DEF Printed, DigitsOf, PrintEquation, Minus

(* A printed number has its sign, where it is negative, and its digits. *)
LEMMA PrintedIs ==
    ASSUME NEW y \in Int
    PROVE  /\ Printed(y) \in Seq(0 .. 10)
           /\ Negative(Printed(y)) <=> y < 0
           /\ Unsigned(Printed(y)) = DigitsOf[IF y < 0 THEN -y ELSE y]
<1>1. Printed(y) = IF y < 0 THEN <<10>> \o DigitsOf[-y] ELSE DigitsOf[y]
  BY PrintedAs
<1>2. CASE y < 0
  <2>1. -y \in Nat
    BY <1>2
  <2>2. DigitsOf[-y] \in Seq(0 .. 9)
    BY <2>1, PrintIs
  <2> DEFINE p == DigitsOf[-y]
             q == <<10>> \o p
  <2> HIDE DEF p
  <2>3. q \in Seq(0 .. 10) /\ q # <<>> /\ q[1] = 10 /\ Tail(q) = p
    BY <2>2 DEF p
  <2>4. Printed(y) = q
    BY <1>1, <1>2 DEF p
  <2> HIDE DEF q
  <2> QED  BY <1>2, <2>3, <2>4 DEF Negative, Unsigned, Minus, p
<1>3. CASE ~ (y < 0)
  <2>1. y \in Nat
    BY <1>3
  <2>2. DigitsOf[y] \in Seq(0 .. 9) /\ DigitsOf[y] # <<>>
    BY <2>1, PrintLength
  <2> DEFINE q == DigitsOf[y]
  <2> HIDE DEF q
  <2>3. q \in Seq(0 .. 10) /\ q # <<>> /\ q[1] # 10
    BY <2>2 DEF q
  <2>4. Printed(y) = q
    BY <1>1, <1>3 DEF q
  <2> QED  BY <1>3, <2>3, <2>4 DEF Negative, Unsigned, Minus, q
<1> QED  BY <1>2, <1>3

LEMMA NumberIsRead ==
    ASSUME NEW y \in Ints
    PROVE  /\ is_number(Printed(y))
           /\ (IF y < 0 THEN ToInt(-ReadDigits(Unsigned(Printed(y))))
               ELSE ReadDigits(Unsigned(Printed(y)))) = y
<1> DEFINE a == IF y < 0 THEN -y ELSE y
<1>1. IntMax \in Nat /\ y \in Int /\ a \in 0 .. IntMax + 1 /\ a \in Nat
  BY IntAssumption DEF Ints
<1>2. Unsigned(Printed(y)) = DigitsOf[a]
  BY <1>1, PrintedIs
<1>3. ReadDigits(DigitsOf[a]) = ToInt(a)
  BY <1>1, PrintReads
<1>4. DigitsOf[a] \in Seq(0 .. 9)
  BY <1>1, PrintIs
<1>5. is_number(Printed(y))
  <2>1. \A i \in DOMAIN DigitsOf[a] : DigitsOf[a][i] \in 0 .. 9
    BY <1>4
  <2> HIDE DEF a
  <2> QED  BY <1>2, <2>1 DEF is_number, Digits
<1>6. (IF y < 0 THEN ToInt(-ToInt(a)) ELSE ToInt(a)) = y
  <2>1. CASE a <= IntMax
    BY <1>1, <2>1, IntsAreKept DEF Ints
  <2>2. CASE a = IntMax + 1
    <3>1. y = -(IntMax + 1) /\ y < 0
      BY <1>1, <2>2 DEF Ints
    <3>2. ToInt(a) = -(IntMax + 1) /\ -(-(IntMax + 1)) = IntMax + 1
      BY <1>1, <2>2, IntsAreKept
    <3> QED  BY <3>1, <3>2, IntsAreKept
  <2> QED  BY <1>1, <2>1, <2>2
<1> QED  BY <1>2, <1>3, <1>5, <1>6

(* Where the client finds a character first. *)
First(t, v) ==
    LET I == {i \in 1 .. Len(t) : t[i] = v} IN IF I # {} THEN Min(I) ELSE 0

LEMMA FirstIs ==
    ASSUME NEW t, Len(t) \in Nat, NEW v, NEW n \in 1 .. Len(t), t[n] = v,
           \A i \in 1 .. n - 1 : t[i] # v
    PROVE  First(t, v) = n
<1> DEFINE I == {i \in 1 .. Len(t) : t[i] = v}
<1>1. I \subseteq Nat /\ n \in I /\ \A k \in I : n <= k
  OBVIOUS
<1>2. First(t, v) = IF I # {} THEN CHOOSE j \in I : \A k \in I : j <= k ELSE 0
  BY Zenon DEF First, Min
<1> HIDE DEF I
<1>3. (CHOOSE j \in I : \A k \in I : j <= k) = n
  BY <1>1, LeastIsChosen
<1> QED  BY <1>1, <1>2, <1>3

(* A reply that begins with one character, a printed number and a line end. *)
Begins(t, p) ==
    /\ t \in CharSeqs /\ p \in Seq(0 .. 10) /\ Len(p) + 3 <= Len(t)
    /\ t[1] \notin {CR, LF} /\ \A i \in 1 .. Len(p) : t[i + 1] = p[i]
    /\ t[Len(p) + 2] = CR /\ t[Len(p) + 3] = LF

LEMMA IntFieldIs ==
    ASSUME NEW t, NEW p, Begins(t, p)
    PROVE  IntField(t) = p /\ First(t, LF) = Len(p) + 3
<1>1. /\ Len(p) \in Nat /\ Len(t) \in Nat /\ Len(p) + 3 <= Len(t)
      /\ \A i \in 1 .. Len(p) : p[i] \in 0 .. 10
  BY DEF Begins, CharSeqs
<1>2. \A i \in 1 .. Len(p) + 1 : t[i] \notin {CR, LF}
  <2> TAKE i \in 1 .. Len(p) + 1
  <2>1. CASE i = 1
    BY <2>1 DEF Begins
  <2>2. CASE i # 1
    <3>1. i - 1 \in 1 .. Len(p) /\ (i - 1) + 1 = i
      BY <1>1, <2>2
    <3>2. t[i] = p[i - 1]
      BY <3>1 DEF Begins
    <3> QED  BY <1>1, <3>1, <3>2 DEF CR, LF
  <2> QED  BY <2>1, <2>2
<1>3. t[Len(p) + 2] = CR /\ t[Len(p) + 3] = LF /\ CR # LF
  BY DEF Begins, CR, LF
<1>4. First(t, CR) = Len(p) + 2
  BY <1>1, <1>2, <1>3, FirstIs
<1>5. First(t, LF) = Len(p) + 3
  <2>1. \A i \in 1 .. (Len(p) + 3) - 1 : t[i] # LF
    BY <1>1, <1>2, <1>3
  <2> QED  BY <1>1, <1>3, <2>1, FirstIs
<1>6. IntField(t) = SubSeq(t, 2, First(t, CR) - 1)
  BY Zenon DEF IntField, SelectInSeq, First
<1>7. SubSeq(t, 2, Len(p) + 1) = p
  <2>1. \A i \in 2 .. Len(p) + 1 : t[i] \in Chars
    BY <1>1 DEF Begins, CharSeqs
  <2> DEFINE q == SubSeq(t, 2, Len(p) + 1)
  <2>2. /\ q \in Seq(Chars) /\ Len(q) = Len(p)
        /\ \A i \in 1 .. Len(p) : q[i] = t[2 + i - 1]
    BY <1>1, <2>1, SubSeqProperties
  <2> HIDE DEF q
  <2>3. \A i \in 1 .. Len(p) : q[i] = p[i]
    BY <1>1, <2>2 DEF Begins
  <2>4. p \in Seq(0 .. 10)
    BY DEF Begins
  <2>5. q = p
    BY <2>2, <2>3, <2>4
  <2> QED  BY <2>5 DEF q
<1> QED  BY <1>1, <1>4, <1>5, <1>6, <1>7

LEMMA IntIsParsed ==
    ASSUME NEW t, NEW y \in Ints, Begins(t, Printed(y))
    PROVE  parse_int(t) = y
<1>1. IntField(t) = Printed(y)
  BY IntFieldIs
<1>2. y \in Int
  BY IntAssumption DEF Ints
<1>3. Negative(Printed(y)) <=> y < 0
  BY <1>2, PrintedIs
<1>4. parse_int(t) = IF y < 0 THEN ToInt(-ReadDigits(Unsigned(Printed(y))))
                       ELSE ReadDigits(Unsigned(Printed(y)))
  BY <1>1, <1>3, Zenon DEF parse_int, ToInt, ToInt
<1> QED  BY <1>4, NumberIsRead

(* A number that is stored as a text or replied is read as it was, for every *)
(* int of every width (intostr, strtoi, is_number; reply_integer, parse_int). *)
THEOREM NumbersSurvive == \A y \in Ints : NumberSurvives(y)
<1> TAKE y \in Ints
<1>1. y \in Int
  BY IntAssumption DEF Ints
<1> DEFINE p == Printed(y)
           t == <<Colon>> \o p \o CRLF
<1>2. p \in Seq(0 .. 10) /\ (Negative(p) <=> y < 0)
  BY <1>1, PrintedIs
<1>3. strtoi(intostr(y).text) = y
  <2>1. intostr(y).text = p
    BY DEF intostr, Buffer
  <2>2. strtoi(p) = IF y < 0 THEN ToInt(-ReadDigits(Unsigned(p)))
                      ELSE ReadDigits(Unsigned(p))
    <3> HIDE DEF p
    <3> QED  BY <1>2, Zenon DEF strtoi, Unsigned, ToInt, ToInt
  <2>3. strtoi(p) = y
    BY <2>2, NumberIsRead
  <2> QED  BY <2>1, <2>3
<1>4. reply_integer(y).text = t
  BY DEF reply_integer, Buffer
<1>5. Begins(t, p) /\ t[1] = Colon
  <2> HIDE DEF p
  <2> QED  BY <1>2 DEF Begins, CharSeqs, Chars, CR, LF, CRLF, Colon
<1> HIDE DEF t
<1>6. parse_int(t) = y
  BY <1>5, IntIsParsed
<1>7. parse_resp(t) = Printed(y)
  BY <1>5, <1>6 DEF parse_resp, Colon, Dollar, Minus
<1> QED  BY <1>3, <1>4, <1>7, NumberIsRead DEF NumberSurvives

(* A string that is replied is shown as it was, whatever its characters, and *)
(* none as none (reply_string, parse_str).                                   *)
THEOREM StringsSurvive ==
    \A s \in Strings : TextSurvives(s)
<1>1. IntMax \in Nat /\ IntMax > 0
  BY IntAssumption
<1>2. TextSurvives(Nil)
  <2> DEFINE p == <<10, 1>>
             t == <<13, 10, 1, 11, 12>>
  <2>1. Printed(-1) = p
    <3>1. DigitsOf[1] = <<1>>
      BY PrintIs
    <3>2. PICK y \in Int : y = -1 /\ y < 0 /\ -y = 1
      BY -1 \in Int /\ -1 < 0
    <3>3. Printed(y) = <<10>> \o DigitsOf[1]
      BY <3>2, PrintedAs
    <3> QED  BY <3>1, <3>2, <3>3
  <2>2. reply_string(Nil).text = t
    <3>1. reply_string(Nil).text = <<Dollar, Minus, 1>> \o CRLF
      BY DEF reply_string, Buffer
    <3>2. <<13, 10, 1>> \o <<11, 12>> = t
      <4> DEFINE q == <<13, 10, 1>> \o <<11, 12>>
      <4>1. t \in Seq(Int) /\ Len(t) = 5
        OBVIOUS
      <4>2. q \in Seq(Int) /\ Len(q) = 5
        BY <<13, 10, 1>> \in Seq(Int), <<11, 12>> \in Seq(Int), ConcatProperties
      <4>3. q[1] = 13 /\ q[2] = 10 /\ q[3] = 1 /\ q[4] = 11 /\ q[5] = 12
        BY <<13, 10, 1>> \in Seq(Int), <<11, 12>> \in Seq(Int), ConcatProperties
      <4>4. t[1] = 13 /\ t[2] = 10 /\ t[3] = 1 /\ t[4] = 11 /\ t[5] = 12
        OBVIOUS
      <4> HIDE DEF q, t
      <4>5. \A i \in 1 .. 5 : q[i] = t[i]
        BY <4>3, <4>4
      <4> QED  BY <4>1, <4>2, <4>5, SeqEqual DEF q
    <3> QED  BY <3>1, <3>2 DEF Dollar, Minus, CRLF, CR, LF
  <2>3. Begins(t, p)
    BY DEF Begins, CharSeqs, Chars, CR, LF
  <2>4. t[1] = Dollar
    BY DEF Dollar
  <2> HIDE DEF p, t
  <2>5. parse_int(t) = -1
    BY <1>1, <2>1, <2>3, IntIsParsed DEF Ints
  <2>6. parse_resp(t) = Nil
    BY <2>4, <2>5 DEF parse_resp, parse_str, Colon, Dollar, Minus
  <2> QED  BY <2>2, <2>6 DEF TextSurvives
<1>3. ASSUME NEW s \in CharSeqs, s # Nil, Len(s) <= IntMax
      PROVE  TextSurvives(s)
  <2> DEFINE n == Len(s)
             p == Printed(n)
             t == <<Dollar>> \o p \o CRLF \o s \o CRLF
  <2>1. n \in Nat /\ n \in Int /\ n \in Ints
    BY <1>1, <1>3 DEF CharSeqs, Ints
  <2>2. p \in Seq(0 .. 10)
    BY <2>1, PrintedIs
  <2>3. reply_string(s).text = t
    BY <1>3 DEF reply_string, Buffer
  <2>4. /\ t \in CharSeqs /\ Len(t) = Len(p) + Len(s) + 5 /\ t[1] = Dollar
        /\ \A i \in 1 .. Len(p) : t[i + 1] = p[i]
        /\ t[Len(p) + 2] = CR /\ t[Len(p) + 3] = LF
        /\ \A i \in 1 .. Len(s) : t[Len(p) + 3 + i] = s[i]
    <3> HIDE DEF p
    <3> QED  BY <2>1, <2>2 DEF CharSeqs, Chars, CR, LF, CRLF, Dollar
  <2>5. Begins(t, p)
    <3> HIDE DEF p, t
    <3> QED  BY <2>1, <2>2, <2>4 DEF Begins, CR, LF, Dollar
  <2> HIDE DEF t
  <2>6. parse_int(t) = n
    BY <2>1, <2>5, IntIsParsed
  <2>7. First(t, LF) = Len(p) + 3
    BY <2>5, IntFieldIs
  <2>8. parse_str(t) = SubSeq(t, Len(p) + 3 + 1, Len(p) + 3 + n)
    <3>1. ~ (n < 0)
      BY <2>1
    <3> QED  BY <2>6, <2>7, <3>1, Zenon DEF parse_str, SelectInSeq, First
  <2>9. SubSeq(t, Len(p) + 3 + 1, Len(p) + 3 + n) = s
    <3> DEFINE m == Len(p) + 3 + 1
               k == Len(p) + 3 + n
               q == SubSeq(t, m, k)
    <3>1. Len(p) \in Nat
      BY <2>2
    <3>2. \A i \in m .. k : t[i] \in Chars
      BY <2>1, <2>4, <3>1 DEF CharSeqs
    <3>3. /\ q \in Seq(Chars) /\ Len(q) = n
          /\ \A i \in 1 .. n : q[i] = t[m + i - 1]
      BY <2>1, <3>1, <3>2, SubSeqProperties
    <3> HIDE DEF q
    <3>4. \A i \in 1 .. n : q[i] = s[i]
      BY <2>1, <2>4, <3>1, <3>3
    <3>5. q = s
      BY <3>3, <3>4 DEF CharSeqs
    <3> QED  BY <3>5 DEF q
  <2>10. parse_resp(t) = s
    BY <2>4, <2>8, <2>9 DEF parse_resp, Colon, Dollar, Minus
  <2> QED  BY <2>3, <2>10 DEF TextSurvives
<1> QED  BY <1>2, <1>3 DEF Strings

(* INT_MIN counts as no digits: its negation is itself. *)
LEMMA DigitsAreCounted ==
    ASSUME NEW y \in Ints
    PROVE  /\ Printed(y) \in Seq(0 .. 10) /\ ndigits(y) \in Nat
           /\ y # -(IntMax + 1) => Len(Printed(y)) <= ndigits(y) + 1
           /\ y = -(IntMax + 1) => Len(Printed(y)) >= 2 /\ ndigits(y) = 0
<1> DEFINE a == IF y < 0 THEN -y ELSE y
           c == IF y < 0 THEN ToInt(-y) ELSE y
<1>1. IntMax \in Nat /\ IntMax > 0 /\ y \in Int /\ a \in 0 .. IntMax + 1 /\ a \in Nat
  BY IntAssumption DEF Ints
<1>2. ndigits(y) = Count[c]
  BY Zenon DEF ndigits, Count, CountEquation, ToInt, ToInt
<1>3. Printed(y) \in Seq(0 .. 10)
  BY <1>1, PrintedIs
<1>4. /\ DigitsOf[a] \in Seq(0 .. 9) /\ Len(DigitsOf[a]) \in Nat /\ Len(DigitsOf[a]) > 0
      /\ Len(DigitsOf[a]) = IF a = 0 THEN 1 ELSE Count[a]
  BY <1>1, PrintLength
<1>5. Len(Printed(y)) = IF y < 0 THEN 1 + Len(DigitsOf[a]) ELSE Len(DigitsOf[a])
  <2>1. Printed(y) = IF y < 0 THEN <<10>> \o DigitsOf[a] ELSE DigitsOf[a]
    BY PrintedAs
  <2> HIDE DEF a
  <2>2. Len(<<10>> \o DigitsOf[a]) = 1 + Len(DigitsOf[a])
    BY <1>4
  <2> QED  BY <2>1, <2>2
<1>6. CASE y # -(IntMax + 1)
  <2>1. c = a
    <3>1. y < 0 => -y \in Ints
      BY <1>1, <1>6 DEF Ints
    <3> QED  BY <3>1, IntsAreKept
  <2>2. c \in Int /\ Count[c] \in Nat
    BY <1>1, <2>1, CountIs
  <2>3. y < 0 => a # 0
    BY <1>1
  <2> HIDE DEF a, c
  <2> QED  BY <1>1, <1>2, <1>3, <1>4, <1>5, <1>6, <2>1, <2>2, <2>3
<1>7. CASE y = -(IntMax + 1)
  <2>1. y < 0 /\ a = IntMax + 1 /\ -y = IntMax + 1
    BY <1>1, <1>7
  <2>2. c = -(IntMax + 1)
    BY <2>1, IntsAreKept
  <2>3. Count[c] = 0
    BY <1>1, <2>1, <2>2, <1>7, CountIs
  <2> HIDE DEF a, c
  <2> QED  BY <1>1, <1>2, <1>3, <1>4, <1>5, <1>7, <2>1, <2>3
<1> QED  BY <1>6, <1>7

(* The buffers of a printed and of a replied int are large enough, for every *)
(* int of every width but the smallest, for which they are never (ndigits,   *)
(* intostr, reply_integer).                                                  *)
THEOREM NumbersFit ==
    \A y \in Ints : NumberFits(y) <=> y # -(IntMax + 1)
<1> TAKE y \in Ints
<1> DEFINE p == Printed(y)
           d == ndigits(y)
<1>1. /\ p \in Seq(0 .. 10) /\ d \in Nat
      /\ y # -(IntMax + 1) => Len(p) <= d + 1
      /\ y = -(IntMax + 1) => Len(p) >= 2 /\ d = 0
  BY DigitsAreCounted
<1>2. intostr(y).text = p /\ intostr(y).size = d + 2
  BY DEF intostr, Buffer
<1>3. /\ reply_integer(y).text = <<Colon>> \o p \o CRLF
      /\ reply_integer(y).size = d + 5
  BY DEF reply_integer, Buffer
<1> HIDE DEF p, d
<1>4. Len(<<Colon>> \o p \o CRLF) = Len(p) + 3
  BY <1>1 DEF CRLF, CR, LF, Colon
<1>5. Len(p) \in Nat
  BY <1>1
<1> QED  BY <1>1, <1>2, <1>3, <1>4, <1>5 DEF NumberFits, Fits

LEMMA RepliedStrings ==
    ASSUME NEW s \in Strings
    PROVE  Fits(reply_string(s)) /\ reply_string(s).text \in CharSeqs
<1>1. CASE s = Nil
  <2> DEFINE t == <<Dollar, Minus, 1>> \o CRLF
  <2>1. reply_string(s).text = t /\ reply_string(s).size = 6
    BY <1>1 DEF reply_string, Buffer
  <2>2. Len(t) = 5 /\ t \in CharSeqs
    BY DEF CRLF, CR, LF, Dollar, Minus, CharSeqs, Chars
  <2> HIDE DEF t
  <2> QED  BY <2>1, <2>2 DEF Fits
<1>2. CASE s # Nil
  <2> DEFINE p == Printed(Len(s))
             d == ndigits(Len(s))
             t == <<Dollar>> \o p \o CRLF \o s \o CRLF
  <2>1. s \in CharSeqs /\ Len(s) \in Ints /\ Len(s) \in Nat /\ Len(s) # -(IntMax + 1)
    BY <1>2, IntAssumption DEF Strings, CharSeqs, Ints
  <2>2. p \in Seq(0 .. 10) /\ d \in Nat /\ Len(p) <= d + 1 /\ Len(p) \in Nat
    BY <2>1, DigitsAreCounted
  <2>3. reply_string(s).text = t /\ reply_string(s).size = Len(s) + d + 7
    BY <1>2 DEF reply_string, Buffer
  <2>4. t \in CharSeqs /\ Len(t) = Len(p) + Len(s) + 5
    <3> HIDE DEF p, d
    <3> QED  BY <2>1, <2>2 DEF CRLF, CR, LF, Dollar, CharSeqs, Chars
  <2> HIDE DEF p, d, t
  <2> QED  BY <2>1, <2>2, <2>3, <2>4 DEF Fits
<1> QED  BY <1>1, <1>2

(* What FlattenSeq recurses with. *)
FlattenEquation(f, q) ==
    f = [i \in 1 .. Len(q) |-> IF i = 1 THEN q[i] ELSE f[i - 1] \o q[i]]

Flatten(q) == CHOOSE f : FlattenEquation(f, q)

LEMMA FlattenIsText ==
    ASSUME NEW q \in Seq(CharSeqs)
    PROVE  FlattenSeq(q) \in CharSeqs
<1>0. CASE Len(q) = 0
  <2>1. q = <<>> /\ <<>> \in CharSeqs
    BY <1>0 DEF CharSeqs
  <2>2. FlattenSeq(q) = q
    BY <1>0, Zenon DEF FlattenSeq
  <2> QED  BY <2>1, <2>2
<1>1. CASE Len(q) # 0
  <2> DEFINE B == {0, 1}
             b == [n \in Nat |-> IF n = 1 THEN q[1] ELSE <<>>]
             D(n) == IF n \in 1 .. Len(q) THEN q[n] ELSE <<>>
             h == [n \in Nat |-> [v \in CharSeqs |-> v \o D(n)]]
             g == [n \in Nat |-> IF n = 0 THEN 0 ELSE n - 1]
  <2>1. Scheme(CharSeqs, B, b, h, g)
    <3>1. \A n \in Nat : D(n) \in CharSeqs
      BY DEF CharSeqs
    <3>2. q[1] \in CharSeqs /\ <<>> \in CharSeqs
      BY <1>1 DEF CharSeqs
    <3>3. b \in [Nat -> CharSeqs]
      BY <3>2
    <3> HIDE DEF D
    <3>4. \A n \in Nat : \A v \in CharSeqs : v \o D(n) \in CharSeqs
      BY <3>1, ConcatProperties DEF CharSeqs
    <3>5. h \in [Nat -> [CharSeqs -> CharSeqs]]
      BY <3>4
    <3>6. g \in [Nat -> Nat] /\ \A n \in Nat : n \notin B => g[n] < n
      OBVIOUS
    <3> QED  BY <3>3, <3>5, <3>6 DEF Scheme
  <2>2. \A n \in 2 .. Len(q) : n \notin B /\ g[n] = n - 1 /\ n - 1 \in 1 .. Len(q)
    OBVIOUS
  <2>3. \A n \in 2 .. Len(q) : \A v \in CharSeqs : h[n][v] = v \o q[n]
    <3> TAKE n \in 2 .. Len(q)
    <3>1. n \in Nat /\ D(n) = q[n]
      OBVIOUS
    <3> HIDE DEF D
    <3> QED  BY <3>1
  <2>4. 1 \in B /\ b[1] = q[1]
    OBVIOUS
  <2> HIDE DEF B, b, h, g
  <2>5. PICK f \in [Nat -> CharSeqs] : ObeysScheme(f, B, b, h, g)
    BY <2>1, RecursionDefines, Zenon
  <2>6. ASSUME NEW i \in 1 .. Len(q)
        PROVE  f[i] = IF i = 1 THEN q[i] ELSE f[i - 1] \o q[i]
    <3>1. CASE i = 1
      BY <2>4, <2>5, <3>1 DEF ObeysScheme
    <3>2. CASE i # 1
      <4>1. i \in 2 .. Len(q) /\ i \in Nat /\ i - 1 \in Nat
        BY <3>2
      <4>2. i \notin B /\ g[i] = i - 1
        BY <2>2, <4>1
      <4>3. f[i] = h[i][f[i - 1]] /\ f[i - 1] \in CharSeqs
        BY <2>5, <4>1, <4>2 DEF ObeysScheme
      <4> QED  BY <2>3, <3>2, <4>1, <4>3
    <3> QED  BY <3>1, <3>2
  <2> DEFINE r == [i \in 1 .. Len(q) |-> f[i]]
  <2>7. \A i \in 1 .. Len(q) : r[i] = IF i = 1 THEN q[i] ELSE r[i - 1] \o q[i]
    <3>1. \A i \in 1 .. Len(q) : i # 1 => i - 1 \in 1 .. Len(q)
      OBVIOUS
    <3> QED  BY <2>6, <3>1
  <2>8. FlattenEquation(r, q)
    <3>1. r = [i \in 1 .. Len(q) |-> r[i]]
      OBVIOUS
    <3> HIDE DEF r
    <3> QED  BY <2>7, <3>1, Zenon DEF FlattenEquation
  <2> HIDE DEF r
  <2>9. FlattenEquation(Flatten(q), q)
    BY <2>8, Zenon DEF Flatten
  <2>10. \A i \in 1 .. Len(q) :
           Flatten(q)[i] = IF i = 1 THEN q[i] ELSE Flatten(q)[i - 1] \o q[i]
    BY <2>9, Zenon DEF FlattenEquation
  <2> DEFINE S == {n \in Nat : n + 1 <= Len(q) => Flatten(q)[n + 1] \in CharSeqs}
  <2>11. 0 \in S
    BY <1>1, <2>10
  <2>12. ASSUME NEW n \in Nat, n \in S
         PROVE  n + 1 \in S
    <3> SUFFICES ASSUME n + 1 + 1 <= Len(q)  PROVE Flatten(q)[n + 1 + 1] \in CharSeqs
      OBVIOUS
    <3>1. Flatten(q)[n + 1 + 1] = Flatten(q)[n + 1] \o q[n + 1 + 1]
      <4>1. n + 1 + 1 \in 1 .. Len(q) /\ n + 1 + 1 # 1 /\ (n + 1 + 1) - 1 = n + 1
        OBVIOUS
      <4> QED  BY <2>10, <4>1
    <3>2. Flatten(q)[n + 1] \in CharSeqs /\ q[n + 1 + 1] \in CharSeqs
      BY <2>12
    <3> QED  BY <3>1, <3>2, ConcatProperties DEF CharSeqs
  <2> HIDE DEF S
  <2>13. Nat \subseteq S
    BY <2>11, <2>12, SetInduction
  <2>14. Flatten(q)[Len(q)] \in CharSeqs
    <3>1. Len(q) - 1 \in Nat /\ (Len(q) - 1) + 1 = Len(q)
      BY <1>1
    <3>2. Len(q) - 1 \in S
      BY <2>13, <3>1
    <3> QED  BY <3>1, <3>2 DEF S
  <2>15. FlattenSeq(q) = Flatten(q)[Len(q)]
    BY <1>1, Zenon DEF FlattenSeq, Flatten, FlattenEquation
  <2> QED  BY <2>14, <2>15
<1> QED  BY <1>0, <1>1

LEMMA ItemIsText ==
    ASSUME NEW s \in Strings
    PROVE  ArrayItem(s).text \in CharSeqs
<1>1. CASE s # Nil /\ is_number(s)
  <2> DEFINE u == Unsigned(s)
             p == Printed(strtoi(s))
  <2>1. s \in Seq(Int)
    BY <1>1, Chars \subseteq Int, SeqMonotonic DEF Strings, CharSeqs, Chars
  <2>2. u \in Seq(Int)
    <3>1. s # <<>> => Tail(s) \in Seq(Int)
      BY <2>1
    <3> QED  BY <2>1, <3>1 DEF Unsigned, Negative
  <2>3. ReadDigits(u) \in Int /\ ReadDigits(s) \in Int
    <3> HIDE DEF u
    <3> QED  BY <2>1, <2>2, 0 \in Int, ReadAppend
  <2>4. strtoi(s) \in Int
    <3>1. strtoi(s) = IF Negative(s) THEN ToInt(-ReadDigits(u)) ELSE ReadDigits(s)
      BY Zenon DEF strtoi, ToInt, ToInt
    <3>2. -ReadDigits(u) \in Int
      BY <2>3
    <3> QED  BY <2>3, <3>1, <3>2, IntsAre DEF Ints
  <2>5. p \in Seq(0 .. 10)
    BY <2>4, PrintedIs
  <2>6. ArrayItem(s).text = <<Colon>> \o p \o CRLF
    BY <1>1 DEF ArrayItem, reply_integer, Buffer
  <2> HIDE DEF p
  <2>7. <<Colon>> \o p \o CRLF \in CharSeqs
    BY <2>5 DEF CRLF, CR, LF, Colon, CharSeqs, Chars
  <2> QED  BY <2>6, <2>7
<1>2. CASE ~ (s # Nil /\ is_number(s))
  <2>1. ArrayItem(s) = reply_string(s)
    BY <1>2 DEF ArrayItem
  <2> QED  BY <2>1, RepliedStrings
<1> QED  BY <1>1, <1>2

(* Every other buffer that a reply is formatted in is large enough for it    *)
(* (reply_string, reply_err_argc, reply_array and reply_array_n).            *)
THEOREM RepliesFit ==
    /\ \A s \in Strings : Fits(reply_string(s))
    /\ \A given \in 0 .. IntMax : \A expected \in CharSeqs :
         Fits(reply_err_argc(given, expected))
    /\ \A n \in 0 .. IntMax : Fits(array_header(n))
    /\ \A arr \in Seq(Strings) :
         Len(arr) <= IntMax => Fits(reply_array(arr)) /\ Fits(reply_array_n(arr))
<1>1. \A s \in Strings : Fits(reply_string(s))
  BY RepliedStrings
<1>2. ASSUME NEW given \in 0 .. IntMax, NEW expected \in CharSeqs
      PROVE  Fits(reply_err_argc(given, expected))
  <2> DEFINE words == [i \in 1 .. 52 |-> Other]
             p == Printed(given)
             d == ndigits(given)
             t == words \o p \o expected
  <2>1. given \in Ints /\ given # -(IntMax + 1)
    BY IntAssumption DEF Ints
  <2>2. p \in Seq(0 .. 10) /\ d \in Nat /\ Len(p) <= d + 1 /\ Len(p) \in Nat
    BY <2>1, DigitsAreCounted
  <2>3. /\ reply_err_argc(given, expected).text = t
        /\ reply_err_argc(given, expected).size = d + Len(expected) + 54
    BY DEF reply_err_argc, Buffer
  <2>4. words \in Seq(Chars) /\ Len(words) = 52
    BY DEF Other, Chars
  <2> HIDE DEF words, p, d
  <2>5. Len(t) = 52 + Len(p) + Len(expected) /\ Len(expected) \in Nat
    <3>1. words \in CharSeqs /\ p \in CharSeqs /\ expected \in CharSeqs
      BY <2>2, <2>4, 0 .. 10 \subseteq Chars, SeqMonotonic DEF CharSeqs, Chars
    <3>2. words \o p \in CharSeqs /\ Len(words \o p) = Len(words) + Len(p)
      BY <3>1, ConcatProperties, Zenon DEF CharSeqs
    <3>3. Len(t) = Len(words \o p) + Len(expected)
      BY <3>1, <3>2, ConcatProperties, Zenon DEF CharSeqs
    <3> QED  BY <2>2, <2>4, <3>1, <3>2, <3>3 DEF CharSeqs
  <2> HIDE DEF t
  <2> QED  BY <2>2, <2>3, <2>5 DEF Fits
<1>3. ASSUME NEW n \in 0 .. IntMax
      PROVE  Fits(array_header(n))
  <2>1. n \in Ints /\ n # -(IntMax + 1)
    BY IntAssumption DEF Ints
  <2> DEFINE p == Printed(n)
             d == ndigits(n)
  <2>2. p \in Seq(0 .. 10) /\ d \in Nat /\ Len(p) <= d + 1 /\ Len(p) \in Nat
    BY <2>1, DigitsAreCounted
  <2>3. array_header(n).text = <<Star>> \o p \o CRLF /\ array_header(n).size = d + 5
    BY DEF array_header, Buffer
  <2> HIDE DEF p, d
  <2>4. Len(<<Star>> \o p \o CRLF) = Len(p) + 3
    BY <2>2 DEF CRLF, CR, LF, Star
  <2> QED  BY <2>2, <2>3, <2>4 DEF Fits
<1>4. ASSUME NEW arr \in Seq(Strings), Len(arr) <= IntMax
      PROVE  Fits(reply_array(arr)) /\ Fits(reply_array_n(arr))
  <2> DEFINE q == [i \in DOMAIN arr |-> ArrayItem(arr[i]).text]
             items == ItemsOf(arr)
             p == Printed(Len(arr))
             d == ndigits(Len(arr))
             t == <<Star>> \o p \o CRLF \o items
  <2>1. Len(arr) \in Ints /\ Len(arr) # -(IntMax + 1) /\ Len(arr) \in Nat
    BY <1>4, IntAssumption DEF Ints
  <2>2. p \in Seq(0 .. 10) /\ d \in Nat /\ Len(p) <= d + 1 /\ Len(p) \in Nat
    BY <2>1, DigitsAreCounted
  <2>3. q \in Seq(CharSeqs)
    <3>1. DOMAIN arr = 1 .. Len(arr) /\ \A i \in 1 .. Len(arr) : arr[i] \in Strings
      OBVIOUS
    <3>2. \A i \in 1 .. Len(arr) : ArrayItem(arr[i]).text \in CharSeqs
      BY <3>1, ItemIsText
    <3>3. q \in [1 .. Len(arr) -> CharSeqs]
      BY <3>1, <3>2
    <3> HIDE DEF q
    <3> QED  BY <2>1, <3>3, SeqDef
  <2>4. items = FlattenSeq(q)
    BY DEF ItemsOf
  <2>5. /\ reply_array(arr).text = t
        /\ reply_array(arr).size = Len(items) + d + 5
    BY DEF reply_array, Buffer
  <2> HIDE DEF q
  <2>6. items \in CharSeqs
    BY <2>3, <2>4, FlattenIsText
  <2>7. /\ reply_array_n(arr).text = t
        /\ reply_array_n(arr).size = IF arr = <<>> THEN array_header(0).size ELSE Len(t) + 1
    BY DEF reply_array_n, array_header, Buffer
  <2>8. array_header(0).size = ndigits(0) + 5
    BY DEF array_header, Buffer
  <2> HIDE DEF p, d, items
  <2>9. Len(t) = Len(p) + Len(items) + 3 /\ Len(items) \in Nat
    BY <2>2, <2>6 DEF CharSeqs, Chars, CRLF, CR, LF, Star
  <2> HIDE DEF t
  <2>10. Fits(reply_array(arr))
    BY <2>2, <2>5, <2>9 DEF Fits
  <2>11. Fits(reply_array_n(arr))
    <3>1. CASE arr = <<>>
      <4>1. Len(arr) = 0 /\ q = <<>>
        BY <3>1 DEF q
      <4>2. items = <<>>
        <5>1. Len(q) = 0
          BY <4>1
        <5>2. FlattenSeq(q) = q
          BY <5>1, Zenon DEF FlattenSeq
        <5> QED  BY <2>4, <4>1, <5>2
      <4>3. Len(items) = 0
        BY <4>2
      <4>4. d = ndigits(0)
        BY <4>1 DEF d
      <4> QED  BY <2>2, <2>7, <2>8, <2>9, <3>1, <4>3, <4>4 DEF Fits
    <3>2. CASE arr # <<>>
      BY <2>2, <2>7, <2>9, <3>2 DEF Fits
    <3> QED  BY <3>1, <3>2
  <2> QED  BY <2>10, <2>11
<1> QED  BY <1>1, <1>2, <1>3, <1>4

LEMMA ArgumentsAreNaturals == Arguments => [](argument \in Nat)
<1> DEFINE I == argument \in Nat
<1>1. FirstArgument => I
  BY DEF FirstArgument
<1>2. I /\ [NextArgument]_argument => I'
  BY DEF NextArgument
<1> QED  BY <1>1, <1>2, PTL DEF Arguments

LEMMA IntsOfAreInts == \A x \in Nat : IntsOf(x) \subseteq Ints
  BY DEF IntsOf

LEMMA TextsOfAreStrings == \A x \in Nat : TextsOf(x) \cup {Nil} \subseteq Strings
<1>1. ASSUME NEW x \in Nat, NEW s \in TextsOf(x) PROVE s \in Strings
  <2>1. x <= MaxText /\ s \in [1 .. x -> {1, 10, 11, 12, 16}]
    BY <1>1, TextAssumption, IntAssumption DEF TextsOf, Minus, CR, LF, Other
  <2>2. s \in Seq(0 .. 16) /\ Len(s) = x
    BY <2>1
  <2> QED  BY <2>1, <2>2, TextAssumption, IntAssumption DEF Strings, CharSeqs, Chars
<1> QED  BY <1>1 DEF Strings

(* What the run of the helpers checks, for every build's ints and for texts  *)
(* of any length that is an int: numbers and texts come back as they were    *)
(* sent, through intostr and strtoi or through a reply and the client.       *)
THEOREM TextsComeBack == Arguments => []TextsSurvive
<1>1. argument \in Nat => TextsSurvive
  BY IntsOfAreInts, TextsOfAreStrings, NumbersSurvive, StringsSurvive DEF TextsSurvive
<1> QED  BY <1>1, ArgumentsAreNaturals, PTL

(* And every buffer is large enough for its text and the terminator, except  *)
(* for INT_MIN's.                                                            *)
THEOREM BuffersAreLargeEnough == Arguments => []BuffersSuffice
<1>1. ASSUME argument \in Nat PROVE BuffersSuffice
  <2>1. \A y \in IntsOf(argument) \ {-(IntMax + 1)} : NumberFits(y)
    BY <1>1, IntsOfAreInts, NumbersFit
  <2> DEFINE s == [i \in 1 .. argument |-> Other]
             arr == [i \in 1 .. argument |-> <<>>]
             nils == [i \in 1 .. argument |-> Nil]
  <2>2. ASSUME argument <= IntMax
        PROVE  /\ Fits(reply_string(s)) /\ Fits(reply_string(Nil))
               /\ Fits(reply_err_argc(argument, s))
               /\ Fits(reply_array(arr)) /\ Fits(array_header(argument))
               /\ Fits(reply_array_n(nils))
    <3>1. s \in CharSeqs /\ Len(s) = argument
      BY <1>1 DEF Other, CharSeqs, Chars
    <3>2. <<>> \in Strings
      BY IntAssumption DEF Strings, CharSeqs
    <3>3. /\ arr \in Seq(Strings) /\ Len(arr) = argument
          /\ nils \in Seq(Strings) /\ Len(nils) = argument
      BY <1>1, <3>2, Nil \in Strings DEF Strings
    <3>4. s \in Strings /\ Nil \in Strings /\ argument \in 0 .. IntMax
      BY <1>1, <2>2, <3>1, IntAssumption DEF Strings
    <3> HIDE DEF s, arr, nils
    <3> QED  BY <2>2, <3>1, <3>3, <3>4, RepliesFit
  <2> HIDE DEF s, arr, nils
  <2> QED  BY <2>1, <2>2 DEF BuffersSuffice, s, arr, nils
<1>2. argument \in Nat => BuffersSuffice
  BY <1>1
<1> QED  BY <1>2, ArgumentsAreNaturals, PTL
=============================================================================
