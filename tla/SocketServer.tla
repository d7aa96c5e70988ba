---------------------------- MODULE SocketServer ----------------------------
(***************************************************************************)
(* The clients and the server of Chapter15.  A client connects, writes     *)
(* WorkItems for a while and disconnects (Client.h, Client.cpp); the       *)
(* server (Server.h) is one thread around epoll_wait that accepts, and     *)
(* receives whole WorkItems from non-blocking sockets.                     *)
(*                                                                         *)
(* An item is ItemSize units of the byte stream, each <<its number, its    *)
(* place>>.  TCP and the kernel are external: the stream keeps its order,  *)
(* arrives in pieces of any size, and recv with MSG_WAITALL on a           *)
(* non-blocking socket returns what has arrived when that is less than an  *)
(* item.  Names and data of items are abstracted to their numbers.         *)
(***************************************************************************)
EXTENDS Naturals, Sequences, FiniteSets, SequencesExt

CONSTANTS
    Clients,
    Fds,         \* the descriptors the server can have open for connections
    ItemSize,    \* sizeof(WorkItem), in units
    WORK_TIMES_TO_CHECK_TIME,
    MaxItems,    \* bound: items a client cooks
    SocketBuffer \* units a connection holds between write and recv

m_socket == 3   \* the listening socket
Nobody == "nobody"

ASSUME SocketAssumption ==
    /\ Nobody \notin Clients
    /\ Fds \subseteq Nat \ {m_socket} /\ Fds # {} /\ IsFiniteSet(Fds)
    /\ ItemSize \in Nat \ {0} /\ WORK_TIMES_TO_CHECK_TIME \in Nat \ {0}
    /\ MaxItems \in Nat
    /\ SocketBuffer \in Nat /\ SocketBuffer >= ItemSize

VARIABLES
    listening,        \* whether Server::start has got as far as its loop
    backlog,          \* clients connected and not yet accepted
    conn,             \* the client behind each descriptor of the server
    event_result,     \* the events not handled yet; <<descriptor, the client it was reported for>>
    checked,          \* history: what the server validated for each client, item by item
    work,             \* where each client is
    m_cooked_count,
    stream,           \* the units written and not received yet
    arrived,          \* how many of them have reached the server
    dropped           \* whether the server closed the connection before the client did

server == <<listening, backlog, conn, event_result, checked, dropped>>
client == <<work, m_cooked_count>>
vars == <<server, client, stream, arrived>>

Init ==
    /\ listening = FALSE
    /\ backlog = << >>
    /\ conn = [f \in Fds |-> Nobody]
    /\ event_result = << >>
    /\ checked = [c \in Clients |-> << >>]
    /\ work = [c \in Clients |-> "start"]
    /\ m_cooked_count = [c \in Clients |-> 0]
    /\ stream = [c \in Clients |-> << >>]
    /\ arrived = [c \in Clients |-> 0]
    /\ dropped = [c \in Clients |-> FALSE]

-----------------------------------------------------------------------------
(* The client.                                                             *)

Item(n) == [k \in 1 .. ItemSize |-> <<n, k>>]

Connect(c) ==
    /\ work[c] = "start"
    /\ \/ /\ listening
          /\ work' = [work EXCEPT ![c] = "working"]
          /\ backlog' = Append(backlog, c)
       \/ /\ ~listening
          /\ work' = [work EXCEPT ![c] = "failed"]
          /\ UNCHANGED backlog
    /\ UNCHANGED <<listening, conn, event_result, checked, dropped, m_cooked_count, stream, arrived>>

(* Mutant of CookAndWrite: the write does not wait for room.               *)
CookAndWriteNoRoom(c) ==
    /\ work[c] = "working"
    /\ m_cooked_count[c] < MaxItems
    /\ m_cooked_count' = [m_cooked_count EXCEPT ![c] = @ + 1]
    /\ stream' = IF dropped[c] THEN stream
                 ELSE [stream EXCEPT ![c] = @ \o Item(m_cooked_count[c])]
    /\ UNCHANGED <<server, work, arrived>>

(* cook_data and the write, which blocks until there is room for all of    *)
(* the item.  What a blocked write has stored already is no state of its   *)
(* own: units that are written and units that have arrived look the same   *)
(* to the server as soon as Arrive lets any part of an item through.  On a *)
(* connection the server has closed the write may still succeed, for       *)
(* nothing, until the reset has come back.                                 *)
CookAndWrite(c) ==
    /\ work[c] = "working"
    /\ m_cooked_count[c] < MaxItems
    /\ Len(stream[c]) + ItemSize <= SocketBuffer
    /\ m_cooked_count' = [m_cooked_count EXCEPT ![c] = @ + 1]
    /\ stream' = IF dropped[c] THEN stream
                 ELSE [stream EXCEPT ![c] = @ \o Item(m_cooked_count[c])]
    /\ UNCHANGED <<server, work, arrived>>

(* SIGPIPE: the connection is reset, and nobody handles the signal.        *)
Killed(c) ==
    /\ work[c] = "working"
    /\ dropped[c]
    /\ work' = [work EXCEPT ![c] = "killed"]
    /\ UNCHANGED <<server, m_cooked_count, stream, arrived>>

(* Work looks at the clock every WORK_TIMES_TO_CHECK_TIME items only, and  *)
(* for the first time before there is any; then Disconnect.                *)
Disconnect(c) ==
    /\ work[c] = "working"
    /\ m_cooked_count[c] > 0
    /\ m_cooked_count[c] % WORK_TIMES_TO_CHECK_TIME = 0
    /\ work' = [work EXCEPT ![c] = "closed"]
    /\ UNCHANGED <<server, m_cooked_count, stream, arrived>>

ClientStep(c) == Connect(c) \/ CookAndWrite(c) \/ Killed(c) \/ Disconnect(c)

(* The network.                                                            *)
Arrive(c) ==
    /\ arrived[c] < Len(stream[c])
    /\ arrived' = [arrived EXCEPT ![c] = @ + 1]
    /\ UNCHANGED <<server, client, stream>>

-----------------------------------------------------------------------------
(* The server.                                                             *)

Listen ==
    /\ ~listening
    /\ listening' = TRUE
    /\ UNCHANGED <<backlog, conn, event_result, checked, dropped, client, stream, arrived>>

Eof(c) == work[c] \in {"closed", "killed"} /\ stream[c] = << >>

Ready ==
    {<<f, conn[f]>> : f \in {g \in Fds : conn[g] # Nobody /\ (arrived[conn[g]] > 0 \/ Eof(conn[g]))}}
        \cup (IF backlog = << >> THEN {} ELSE {<<m_socket, Nobody>>})

(* Everything that is ready is reported, each descriptor once, in any      *)
(* order.                                                                  *)
EpollWait ==
    /\ listening
    /\ event_result = << >>
    /\ Ready # {}
    /\ event_result' \in SetToSeqs(Ready)
    /\ UNCHANGED <<listening, backlog, conn, checked, dropped, client, stream, arrived>>

(* accept takes the lowest free descriptor.                                *)
Accept ==
    LET free == {f \in Fds : conn[f] = Nobody}
    IN  /\ event_result # << >>
        /\ Head(event_result)[1] = m_socket
        /\ event_result' = Tail(event_result)
        /\ IF free = {}
           THEN UNCHANGED <<backlog, conn>>   \* EMFILE: -1 cannot be added to the epoll set either
           ELSE /\ conn' = [conn EXCEPT ![CHOOSE f \in free : \A g \in free : f <= g] = Head(backlog)]
                /\ backlog' = Tail(backlog)
        /\ UNCHANGED <<listening, checked, dropped, client, stream, arrived>>

Handle(f) ==
    /\ event_result # << >>
    /\ Head(event_result)[1] = f
    /\ event_result' = Tail(event_result)
    /\ UNCHANGED <<listening, backlog, client>>

(* A whole item has been received and is validated, whatever it is.        *)
RecvItem(f) ==
    LET c == conn[f]
    IN  /\ Handle(f)
        /\ c # Nobody
        /\ arrived[c] >= ItemSize
        /\ checked' = [checked EXCEPT ![c] = Append(@, SubSeq(stream[c], 1, ItemSize))]
        /\ stream' = [stream EXCEPT ![c] = SubSeq(@, ItemSize + 1, Len(@))]
        /\ arrived' = [arrived EXCEPT ![c] = @ - ItemSize]
        /\ UNCHANGED <<conn, dropped>>

(* Mutant of RecvPart: the part that came is left at that.                 *)
RecvPartKept(f) ==
    LET c == conn[f]
    IN  /\ Handle(f)
        /\ c # Nobody
        /\ arrived[c] \in 1 .. ItemSize - 1
        /\ stream' = [stream EXCEPT ![c] = SubSeq(@, arrived[c] + 1, Len(@))]
        /\ arrived' = [arrived EXCEPT ![c] = 0]
        /\ UNCHANGED <<conn, checked, dropped>>

(* Less than an item has arrived: "non-itegrated data", and the connection *)
(* is closed with what has not come yet.                                   *)
RecvPart(f) ==
    LET c == conn[f]
    IN  /\ Handle(f)
        /\ c # Nobody
        /\ arrived[c] \in 1 .. ItemSize - 1
        /\ conn' = [conn EXCEPT ![f] = Nobody]
        /\ dropped' = [dropped EXCEPT ![c] = TRUE]
        /\ stream' = [stream EXCEPT ![c] = << >>]
        /\ arrived' = [arrived EXCEPT ![c] = 0]
        /\ UNCHANGED checked

(* Mutants of RecvEof: the connection is closed when the client has closed *)
(* it, whatever is left to receive; the descriptor is not closed; and all  *)
(* connections that have ended are closed at the first.                    *)
RecvHangup(f) ==
    /\ Handle(f)
    /\ conn[f] # Nobody
    /\ work[conn[f]] \in {"closed", "killed"}
    /\ conn' = [conn EXCEPT ![f] = Nobody]
    /\ UNCHANGED <<checked, dropped, stream, arrived>>

RecvEofNotClosed(f) ==
    /\ Handle(f)
    /\ conn[f] # Nobody
    /\ arrived[conn[f]] = 0
    /\ UNCHANGED <<conn, checked, dropped, stream, arrived>>

RecvEofClosesAll(f) ==
    /\ Handle(f)
    /\ conn[f] # Nobody
    /\ arrived[conn[f]] = 0
    /\ conn' = [g \in Fds |-> IF conn[g] # Nobody /\ Eof(conn[g]) THEN Nobody ELSE conn[g]]
    /\ UNCHANGED <<checked, dropped, stream, arrived>>

(* recv returns 0 at the end of the stream.  Were there nothing to receive *)
(* yet, -1 would close the connection just the same.                       *)
RecvEof(f) ==
    /\ Handle(f)
    /\ conn[f] # Nobody
    /\ arrived[conn[f]] = 0
    /\ conn' = [conn EXCEPT ![f] = Nobody]
    /\ dropped' = [dropped EXCEPT ![conn[f]] = ~Eof(conn[f])]
    /\ UNCHANGED <<checked, stream, arrived>>

ServerStep ==
    \/ Listen \/ EpollWait \/ Accept
    \/ \E f \in Fds : RecvItem(f) \/ RecvPart(f) \/ RecvEof(f)

(* All clients are gone and the server waits in epoll_wait.                *)
Idle ==
    /\ \A c \in Clients : work[c] \in {"closed", "killed", "failed"}
    /\ listening /\ Ready = {} /\ event_result = << >>
    /\ UNCHANGED vars

Next ==
    \/ \E c \in Clients : ClientStep(c) \/ Arrive(c)
    \/ ServerStep
    \/ Idle

Spec == Init /\ [][Next]_vars

(* The server gets to run, what is written arrives, and a client that may  *)
(* go on does: its time runs out, and its writes end.                      *)
FairSpec ==
    /\ Spec
    /\ WF_vars(ServerStep)
    /\ \A c \in Clients : WF_vars(Arrive(c)) /\ WF_vars(ClientStep(c))

-----------------------------------------------------------------------------
(* Properties.                                                             *)

(* The units of the stream.                                                *)
Units == Nat \X Nat

(* Every variable has its type, a client has at most one connection, and   *)
(* no more has arrived than was written.                                   *)
TypeOK ==
    /\ backlog \in Seq(Clients)
    /\ event_result \in Seq((Fds \cup {m_socket}) \X (Clients \cup {Nobody}))
    /\ checked \in [Clients -> Seq(Seq(Units))]
    /\ stream \in [Clients -> Seq(Units)]
    /\ arrived \in [Clients -> Nat]
    /\ listening \in BOOLEAN /\ dropped \in [Clients -> BOOLEAN]
    /\ conn \in [Fds -> Clients \cup {Nobody}]
    /\ \A f, g \in Fds : conn[f] = conn[g] /\ conn[f] # Nobody => f = g
    /\ work \in [Clients -> {"start", "working", "closed", "killed", "failed"}]
    /\ m_cooked_count \in [Clients -> 0 .. MaxItems]
    /\ \A c \in Clients : Len(stream[c]) <= SocketBuffer /\ arrived[c] <= Len(stream[c])

(* Whatever pieces the stream arrives in, what the server validates is     *)
(* always one whole item, the next one of that client: a short recv never  *)
(* shifts the boundaries of the items that follow (Server::start).         *)
Framing ==
    \A c \in Clients : \A i \in DOMAIN checked[c] : checked[c][i] = Item(i - 1)

(* A descriptor still denotes the connection its event was reported for    *)
(* when its turn comes, although descriptors are closed and taken again    *)
(* while the batch of epoll_wait is worked through.                        *)
EventsFresh ==
    \A i \in DOMAIN event_result :
        LET e == event_result[i] IN e[1] # m_socket => conn[e[1]] = e[2]

(* c has no connection, neither accepted nor waiting to be.                *)
Unconnected(c) ==
    /\ \A f \in Fds : conn[f] # c
    /\ \A i \in DOMAIN backlog : backlog[i] # c

(* Every client that has connected comes to an end and is let go of, even  *)
(* if there are fewer descriptors than clients: one that waits in the      *)
(* backlog, its write blocked or its connection closed already, is         *)
(* accepted as soon as another has left (Server::start).                   *)
ClientsReleased ==
    \A c \in Clients :
        (work[c] = "working") ~> (work[c] \in {"closed", "killed"} /\ Unconnected(c))

(* "The server checks the consistency between the data and checksum": of   *)
(* every item a client wrote before it disconnected, once the server has   *)
(* closed the connection.                                                  *)
EveryItemChecked ==
    \A c \in Clients : work[c] = "closed" /\ Unconnected(c) => Len(checked[c]) = m_cooked_count[c]

(* Items are lost only with a connection that the server dropped for a     *)
(* part of an item: of a client whose connection ended with its stream     *)
(* every item has been validated, whatever the server read before and      *)
(* whoever had the descriptor after (Server::start).                       *)
OnlyDroppedLoseItems ==
    \A c \in Clients : work[c] = "closed" /\ Unconnected(c) /\ ~dropped[c] =>
        Len(checked[c]) = m_cooked_count[c]
=============================================================================
