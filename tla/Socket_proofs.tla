---------------------------- MODULE Socket_proofs ----------------------------
(***************************************************************************)
(* The socket server, for any number of clients and descriptors, any size  *)
(* of an item and any way the stream is cut into pieces.                   *)
(***************************************************************************)
EXTENDS SocketServer, FiniteSetTheorems, SequenceTheorems, WellFoundedInduction, TLAPS

Typing ==
    /\ listening \in BOOLEAN /\ dropped \in [Clients -> BOOLEAN]
    /\ conn \in [Fds -> Clients \cup {Nobody}]
    /\ backlog \in Seq(Clients)
    /\ work \in [Clients -> {"start", "working", "closed", "killed", "failed"}]
    /\ m_cooked_count \in [Clients -> 0 .. MaxItems]
    /\ checked \in [Clients -> Seq(Seq(Units))]
    /\ stream \in [Clients -> Seq(Units)]
    /\ arrived \in [Clients -> Nat]
    /\ \A c \in Clients : Len(stream[c]) <= SocketBuffer /\ arrived[c] <= Len(stream[c])

(* A client connects once: it is behind one descriptor or in one place of  *)
(* the backlog, before it has connected and after it was dropped nowhere.  *)
Places ==
    /\ \A f, g \in Fds : conn[f] = conn[g] /\ conn[f] # Nobody => f = g
    /\ \A i, j \in DOMAIN backlog : backlog[i] = backlog[j] => i = j
    /\ \A i \in DOMAIN backlog, f \in Fds : conn[f] # backlog[i]
    /\ \A c \in Clients : work[c] = "start" => Unconnected(c) /\ ~dropped[c]
    /\ \A c \in Clients : dropped[c] => Unconnected(c)

(* Each descriptor has at most one event left, which is for the client it  *)
(* was reported for; and if it is the listening socket's, somebody waits.  *)
Events ==
    /\ event_result \in Seq((Fds \cup {m_socket}) \X (Clients \cup {Nobody}))
    /\ \A i, j \in DOMAIN event_result : event_result[i][1] = event_result[j][1] => i = j
    /\ \A i \in DOMAIN event_result :
          /\ event_result[i][1] = m_socket => backlog # << >>
          /\ event_result[i][1] # m_socket => event_result[i][2] # Nobody
    /\ EventsFresh

SocketInv == Typing /\ Places /\ Events

-----------------------------------------------------------------------------
(* A set of descriptors that is not empty has a lowest one.                *)
LEMMA LowestExists == ASSUME NEW S \in SUBSET Nat, S # {} PROVE \E x \in S : \A y \in S : x <= y
  <1>1. PICK x \in S : \A y \in S : ~(<<y, x>> \in OpToRel(<, Nat))
    BY NatLessThanWellFounded, WFMin
  <1>2. \A y \in S : y < x => <<y, x>> \in OpToRel(<, Nat)
    BY DEF OpToRel
  <1>3. \A y \in S : ~(y < x)
    BY <1>1, <1>2, Zenon
  <1>4. \A y \in S : x <= y
    BY <1>3
  <1>5. QED
    BY <1>4

(* An item is ItemSize units.                                              *)
LEMMA ItemType ==
    ASSUME NEW n \in Nat
    PROVE  /\ Item(n) \in Seq(Units) /\ Len(Item(n)) = ItemSize
           /\ \A k \in 1 .. ItemSize : Item(n)[k] = <<n, k>>
  BY SocketAssumption DEF Item, Units

(* The server has not begun and nobody has connected.                      *)
LEMMA SocketInvInit == Init => SocketInv
  <1> SUFFICES ASSUME Init PROVE SocketInv
    OBVIOUS
  <1>1. Typing
    <2>1. << >> \in Seq(Clients) /\ << >> \in Seq(Seq(Units)) /\ << >> \in Seq(Units) /\ Len(<< >>) = 0
      OBVIOUS
    <2>2. checked \in [Clients -> Seq(Seq(Units))] /\ stream \in [Clients -> Seq(Units)] /\ backlog \in Seq(Clients)
      BY <2>1 DEF Init
    <2>3. \A c \in Clients : Len(stream[c]) <= SocketBuffer /\ arrived[c] <= Len(stream[c])
      BY <2>1, SocketAssumption DEF Init
    <2>4. m_cooked_count \in [Clients -> 0 .. MaxItems] /\ arrived \in [Clients -> Nat]
      BY SocketAssumption DEF Init
    <2>5. QED
      BY <2>2, <2>3, <2>4 DEF Init, Typing
  <1>2. Places
    BY SocketAssumption DEF Init, Places, Unconnected
  <1>3. Events
    BY DEF Init, Events, EventsFresh
  <1>4. QED
    BY <1>1, <1>2, <1>3 DEF SocketInv

(* The steps of a client, and units that arrive.                           *)
LEMMA SocketInvClient ==
    ASSUME SocketInv, NEW c \in Clients, ClientStep(c) \/ Arrive(c) PROVE SocketInv'
  <1> USE DEF SocketInv
  <1>1. CASE Connect(c)
    <2>1. CASE listening
      <3>1. /\ work[c] = "start" /\ work' = [work EXCEPT ![c] = "working"] /\ backlog' = Append(backlog, c)
            /\ UNCHANGED <<listening, conn, event_result, checked, dropped, m_cooked_count, stream, arrived>>
        BY <1>1, <2>1 DEF Connect
      <3>2. /\ backlog' \in Seq(Clients) /\ Len(backlog') = Len(backlog) + 1 /\ backlog' # << >>
            /\ Len(backlog) \in Nat /\ DOMAIN backlog = 1 .. Len(backlog)
            /\ DOMAIN backlog' = 1 .. Len(backlog) + 1
            /\ \A i \in DOMAIN backlog' : backlog'[i] = IF i = Len(backlog) + 1 THEN c ELSE backlog[i]
        <4>1. backlog \in Seq(Clients)
          BY DEF Typing
        <4>2. QED
          BY <3>1, <4>1, AppendProperties
      <3>3. Typing'
        BY <3>1, <3>2 DEF Typing
      <3>4. Unconnected(c) /\ ~dropped[c]
        BY <3>1 DEF Places
      <3>5. Places'
        <4>1. \A f \in Fds : conn'[f] # c
          BY <3>1, <3>4 DEF Unconnected
        <4>2. \A i \in DOMAIN backlog : i # Len(backlog) + 1 /\ i \in DOMAIN backlog' /\ backlog'[i] = backlog[i] /\ backlog[i] # c
          BY <3>2, <3>4 DEF Unconnected
        <4>3. \A i \in DOMAIN backlog' : i \in DOMAIN backlog \/ (i = Len(backlog) + 1 /\ backlog'[i] = c)
          BY <3>2
        <4>4. \A i, j \in DOMAIN backlog' : backlog'[i] = backlog'[j] => i = j
          BY <4>2, <4>3 DEF Places
        <4>5. \A i \in DOMAIN backlog', f \in Fds : conn'[f] # backlog'[i]
          BY <3>1, <4>1, <4>2, <4>3 DEF Places
        <4>6. \A d \in Clients : d # c /\ Unconnected(d) => Unconnected(d)'
          BY <3>1, <4>2, <4>3 DEF Unconnected
        <4>7. \A d \in Clients : work'[d] = "start" => d # c /\ work[d] = "start"
          BY <3>1 DEF Typing
        <4>8. \A d \in Clients : work'[d] = "start" => Unconnected(d)' /\ ~dropped'[d]
          BY <3>1, <4>6, <4>7 DEF Places
        <4>9. \A d \in Clients : dropped'[d] => Unconnected(d)'
          BY <3>1, <3>4, <4>6 DEF Places
        <4>10. QED
          BY <3>1, <4>4, <4>5, <4>8, <4>9 DEF Places
      <3>6. Events'
        BY <3>1, <3>2 DEF Events, EventsFresh
      <3>7. QED
        BY <3>3, <3>5, <3>6
    <2>2. CASE ~listening
      <3>1. Typing'
        BY <1>1, <2>2 DEF Connect, Typing
      <3>2. Places'
        BY <1>1, <2>2 DEF Connect, Places, Unconnected, Typing
      <3>3. Events'
        BY <1>1, <2>2 DEF Connect, Events, EventsFresh
      <3>4. QED
        BY <3>1, <3>2, <3>3
    <2>3. QED
      BY <2>1, <2>2
  <1>2. CASE CookAndWrite(c)
    <2>1. Typing'
      <3> DEFINE s == stream[c] \o Item(m_cooked_count[c])
      <3>1. m_cooked_count[c] \in Nat /\ stream[c] \in Seq(Units) /\ arrived[c] <= Len(stream[c]) /\ arrived[c] \in Nat
        BY SocketAssumption DEF Typing
      <3>2. s \in Seq(Units) /\ Len(s) = Len(stream[c]) + ItemSize
        <4> DEFINE item == Item(m_cooked_count[c])
        <4>1. item \in Seq(Units) /\ Len(item) = ItemSize
          BY <3>1, ItemType
        <4> HIDE DEF item
        <4>2. stream[c] \o item \in Seq(Units) /\ Len(stream[c] \o item) = Len(stream[c]) + ItemSize
          BY <3>1, <4>1, ConcatProperties
        <4>3. QED
          BY <4>2 DEF item
      <3> HIDE DEF s
      <3>3. stream' = IF dropped[c] THEN stream ELSE [stream EXCEPT ![c] = s]
        BY <1>2 DEF CookAndWrite, s
      <3>4. stream' \in [Clients -> Seq(Units)]
        BY <3>2, <3>3 DEF Typing
      <3>5. \A d \in Clients : Len(stream'[d]) <= SocketBuffer /\ arrived[d] <= Len(stream'[d])
        BY <1>2, <3>1, <3>2, <3>3, SocketAssumption DEF CookAndWrite, Typing
      <3>6. m_cooked_count' \in [Clients -> 0 .. MaxItems]
        BY <1>2, <3>1, SocketAssumption DEF CookAndWrite, Typing
      <3>7. QED
        BY <1>2, <3>4, <3>5, <3>6 DEF CookAndWrite, Typing, server
    <2>2. Places'
      BY <1>2 DEF CookAndWrite, Places, Unconnected, server
    <2>3. Events'
      BY <1>2 DEF CookAndWrite, Events, EventsFresh, server
    <2>4. QED
      BY <2>1, <2>2, <2>3
  <1>3. CASE Killed(c) \/ Disconnect(c)
    <2>1. /\ work' \in {[work EXCEPT ![c] = "killed"], [work EXCEPT ![c] = "closed"]}
          /\ UNCHANGED <<server, m_cooked_count, stream, arrived>>
      BY <1>3 DEF Killed, Disconnect
    <2>2. Typing'
      BY <2>1 DEF Typing, server
    <2>3. Places'
      <3>1. \A d \in Clients : work'[d] = "start" => work[d] = "start"
        BY <2>1 DEF Typing
      <3>2. QED
        BY <2>1, <3>1 DEF Places, Unconnected, server
    <2>4. Events'
      BY <2>1 DEF Events, EventsFresh, server
    <2>5. QED
      BY <2>2, <2>3, <2>4
  <1>4. CASE Arrive(c)
    <2>1. Typing'
      <3>1. arrived[c] \in Nat /\ Len(stream[c]) \in Nat
        BY DEF Typing
      <3>2. QED
        BY <1>4, <3>1 DEF Arrive, Typing, server, client
    <2>2. Places'
      BY <1>4 DEF Arrive, Places, Unconnected, server, client
    <2>3. Events'
      BY <1>4 DEF Arrive, Events, EventsFresh, server
    <2>4. QED
      BY <2>1, <2>2, <2>3
  <1>5. QED
    BY <1>1, <1>2, <1>3, <1>4 DEF ClientStep

Descriptors == Fds \cup {m_socket}
Reports == Descriptors \X (Clients \cup {Nobody})

(* Handling an event leaves the others of the batch, and none of them is   *)
(* for the same descriptor.                                                *)
LEMMA EventsLeft ==
    ASSUME Events, event_result # << >>, event_result' = Tail(event_result)
    PROVE  /\ Head(event_result) \in Reports
           /\ Head(event_result) = event_result[1] /\ 1 \in DOMAIN event_result
           /\ event_result' \in Seq(Reports)
           /\ \A i \in DOMAIN event_result' : i + 1 \in DOMAIN event_result /\ event_result'[i] = event_result[i + 1]
           /\ \A i \in DOMAIN event_result' : event_result'[i][1] # Head(event_result)[1]
           /\ \A i, j \in DOMAIN event_result' : event_result'[i][1] = event_result'[j][1] => i = j
  <1>1. event_result \in Seq(Reports)
    BY DEF Events, Reports, Descriptors
  <1>2. /\ Head(event_result) \in Reports /\ Head(event_result) = event_result[1] /\ event_result' \in Seq(Reports)
        /\ Len(event_result) \in Nat \ {0} /\ Len(event_result') = Len(event_result) - 1
        /\ DOMAIN event_result = 1 .. Len(event_result) /\ DOMAIN event_result' = 1 .. Len(event_result')
        /\ \A i \in 1 .. Len(event_result') : event_result'[i] = event_result[i + 1]
    BY <1>1, HeadTailProperties
  <1>3. 1 \in DOMAIN event_result /\ \A i \in DOMAIN event_result' : i \in Nat /\ i + 1 \in DOMAIN event_result /\ i + 1 # 1
    BY <1>2
  <1>4. \A i, j \in DOMAIN event_result : event_result[i][1] = event_result[j][1] => i = j
    BY DEF Events
  <1>5. \A i \in DOMAIN event_result' : event_result'[i][1] # event_result[1][1]
    BY <1>2, <1>3, <1>4
  <1>6. \A i, j \in DOMAIN event_result' : event_result'[i][1] = event_result'[j][1] => i = j
    <2> SUFFICES ASSUME NEW i \in DOMAIN event_result', NEW j \in DOMAIN event_result',
                        event_result'[i][1] = event_result'[j][1]
                 PROVE  i = j
      OBVIOUS
    <2>1. i + 1 = j + 1
      BY <1>2, <1>3, <1>4
    <2>2. QED
      BY <1>3, <2>1
  <1>7. QED
    BY <1>2, <1>3, <1>5, <1>6

(* epoll_wait reports each descriptor once, with the client behind it.     *)
LEMMA SocketInvEpollWait == ASSUME SocketInv, EpollWait PROVE SocketInv'
  <1> USE DEF SocketInv
  <1>1. Typing' /\ Places'
    BY DEF EpollWait, Typing, Places, Unconnected, client
  <1>2. /\ \A e \in Ready : /\ e \in Reports
                            /\ e[1] = m_socket => backlog # << >>
                            /\ e[1] # m_socket => conn[e[1]] = e[2] /\ e[2] # Nobody
        /\ \A d, e \in Ready : d[1] = e[1] => d = e
    <2>1. \A e \in Ready : \/ e = <<m_socket, Nobody>> /\ backlog # << >>
                           \/ \E f \in Fds : e = <<f, conn[f]>> /\ conn[f] # Nobody
      BY DEF Ready
    <2>2. \A f \in Fds : f # m_socket /\ f \in Descriptors /\ conn[f] \in Clients \cup {Nobody}
      BY SocketAssumption DEF Typing, Descriptors
    <2>3. QED
      BY <2>1, <2>2 DEF Reports, Descriptors
  <1>3. IsFiniteSet(Ready)
    <2> DEFINE open == {g \in Fds : conn[g] # Nobody /\ (arrived[conn[g]] > 0 \/ Eof(conn[g]))}
               listen == IF backlog = << >> THEN {} ELSE {<<m_socket, Nobody>>}
    <2>1. IsFiniteSet(open)
      BY SocketAssumption, FS_Subset
    <2>2. IsFiniteSet({<<f, conn[f]>> : f \in open})
      <3> DEFINE T == {<<f, conn[f]>> : f \in open}
                 h == [f \in open |-> <<f, conn[f]>>]
      <3> HIDE DEF open
      <3>1. h \in Surjection(open, T)
        BY DEF Surjection
      <3>2. QED
        BY <2>1, <3>1, FS_Surjection
    <2>3. IsFiniteSet(listen)
      BY FS_EmptySet, FS_Singleton
    <2>4. QED
      BY <2>2, <2>3, FS_Union DEF Ready
  <1>4. Cardinality(Ready) \in Nat
    BY <1>3, FS_CardinalityType
  <1>5. /\ event_result' \in [1 .. Cardinality(Ready) -> Ready]
        /\ \A i, j \in 1 .. Cardinality(Ready) : i # j => event_result'[i] # event_result'[j]
    BY DEF EpollWait, SetToSeqs
  <1>6. event_result' \in [1 .. Cardinality(Ready) -> Reports]
    <2>1. Ready \subseteq Reports
      BY <1>2
    <2>2. QED
      BY <1>5, <2>1
  <1>7. event_result' \in Seq(Reports) /\ DOMAIN event_result' = 1 .. Cardinality(Ready)
    BY <1>4, <1>6
  <1>8. \A i, j \in DOMAIN event_result' : event_result'[i][1] = event_result'[j][1] => i = j
    BY <1>2, <1>5, <1>7
  <1>9. \A i \in DOMAIN event_result' :
            /\ event_result'[i][1] = m_socket => backlog # << >>
            /\ event_result'[i][1] # m_socket =>
                  conn[event_result'[i][1]] = event_result'[i][2] /\ event_result'[i][2] # Nobody
    <2> SUFFICES ASSUME NEW i \in DOMAIN event_result'
                 PROVE  /\ event_result'[i][1] = m_socket => backlog # << >>
                        /\ event_result'[i][1] # m_socket =>
                              conn[event_result'[i][1]] = event_result'[i][2] /\ event_result'[i][2] # Nobody
      OBVIOUS
    <2>1. event_result'[i] \in Ready
      BY <1>5, <1>7
    <2>2. QED
      BY <1>2, <2>1
  <1>10. backlog' = backlog /\ conn' = conn
    BY DEF EpollWait
  <1>11. Events'
    BY <1>7, <1>8, <1>9, <1>10 DEF Events, EventsFresh, Reports, Descriptors
  <1>12. QED
    BY <1>1, <1>11

(* accept moves the first client of the backlog to a free descriptor, for  *)
(* which no event is left in the batch.                                    *)
LEMMA SocketInvAccept == ASSUME SocketInv, Accept PROVE SocketInv'
  <1> USE DEF SocketInv
  <1> DEFINE free == {f \in Fds : conn[f] = Nobody}
             low == CHOOSE f \in free : \A g \in free : f <= g
  <1>1. /\ event_result # << >> /\ Head(event_result)[1] = m_socket /\ event_result' = Tail(event_result)
        /\ UNCHANGED <<listening, checked, dropped, client, stream, arrived>>
    BY DEF Accept
  <1>2. /\ event_result' \in Seq(Reports)
        /\ \A i \in DOMAIN event_result' : i + 1 \in DOMAIN event_result /\ event_result'[i] = event_result[i + 1]
        /\ \A i \in DOMAIN event_result' : event_result'[i][1] # m_socket
        /\ \A i, j \in DOMAIN event_result' : event_result'[i][1] = event_result'[j][1] => i = j
        /\ backlog # << >>
    BY <1>1, EventsLeft DEF Events
  <1>3. CASE free = {}
    <2>1. backlog' = backlog /\ conn' = conn
      BY <1>3 DEF Accept
    <2>2. Typing' /\ Places'
      BY <1>1, <2>1 DEF Typing, Places, Unconnected, client
    <2>3. Events'
      BY <1>2, <2>1 DEF Events, EventsFresh, Reports, Descriptors
    <2>4. QED
      BY <2>2, <2>3
  <1>4. CASE free # {}
    <2>1. low \in Fds /\ conn[low] = Nobody
      <3>1. \E f \in free : \A g \in free : f <= g
        BY <1>4, LowestExists, SocketAssumption
      <3>2. QED
        BY <3>1
    <2>2. conn' = [conn EXCEPT ![low] = Head(backlog)] /\ backlog' = Tail(backlog)
      BY <1>4 DEF Accept
    <2> HIDE DEF low, free
    <2>3. /\ Head(backlog) \in Clients /\ Head(backlog) = backlog[1] /\ 1 \in DOMAIN backlog
          /\ backlog' \in Seq(Clients)
          /\ \A i \in DOMAIN backlog' : i \in Nat \ {0} /\ i + 1 \in DOMAIN backlog /\ backlog'[i] = backlog[i + 1]
      <3>1. backlog \in Seq(Clients)
        BY DEF Typing
      <3>2. QED
        BY <1>2, <2>2, <3>1, HeadTailProperties
    <2>4. \A f \in Fds : conn'[f] = IF f = low THEN backlog[1] ELSE conn[f]
      BY <2>1, <2>2, <2>3 DEF Typing
    <2>5. Typing'
      BY <1>1, <2>1, <2>2, <2>3 DEF Typing, client
    <2>6. backlog[1] # Nobody
      BY <2>3, SocketAssumption
    <2>7. Places'
      <3>1. \A f, g \in Fds : conn'[f] = conn'[g] /\ conn'[f] # Nobody => f = g
        BY <2>3, <2>4, <2>6 DEF Places
      <3>2. \A i, j \in DOMAIN backlog' : backlog'[i] = backlog'[j] => i = j
        <4> SUFFICES ASSUME NEW i \in DOMAIN backlog', NEW j \in DOMAIN backlog', backlog'[i] = backlog'[j]
                     PROVE  i = j
          OBVIOUS
        <4>1. i + 1 = j + 1
          BY <2>3 DEF Places
        <4>2. QED
          BY <2>3, <4>1
      <3>3. \A i \in DOMAIN backlog' : backlog'[i] # backlog[1]
        <4> SUFFICES ASSUME NEW i \in DOMAIN backlog', backlog'[i] = backlog[1] PROVE FALSE
          OBVIOUS
        <4>1. i + 1 = 1
          BY <2>3 DEF Places
        <4>2. QED
          BY <2>3, <4>1
      <3>4. \A i \in DOMAIN backlog', f \in Fds : conn'[f] # backlog'[i]
        BY <2>3, <2>4, <3>3 DEF Places
      <3>5. \A c \in Clients : Unconnected(c) => Unconnected(c)'
        BY <2>3, <2>4 DEF Unconnected
      <3>6. QED
        BY <1>1, <3>1, <3>2, <3>4, <3>5 DEF Places, client
    <2>8. EventsFresh'
      <3> SUFFICES ASSUME NEW i \in DOMAIN event_result', event_result'[i][1] # m_socket
                   PROVE  conn'[event_result'[i][1]] = event_result'[i][2]
        BY DEF EventsFresh
      <3>1. event_result'[i][1] \in Fds
        BY <1>2 DEF Reports, Descriptors
      <3>2. conn[event_result'[i][1]] = event_result'[i][2] /\ event_result'[i][2] # Nobody
        BY <1>2 DEF Events, EventsFresh
      <3>3. QED
        BY <2>1, <2>4, <3>1, <3>2
    <2>9. Events'
      BY <1>2, <2>8 DEF Events, Reports, Descriptors
    <2>10. QED
      BY <2>5, <2>7, <2>9
  <1>5. QED
    BY <1>3, <1>4

(* A handler closes no descriptor but its own.                             *)
LEMMA SocketInvRecv ==
    ASSUME SocketInv, NEW f \in Fds, RecvItem(f) \/ RecvPart(f) \/ RecvEof(f) PROVE SocketInv'
  <1> USE DEF SocketInv
  <1> DEFINE c == conn[f]
  <1>1. /\ event_result # << >> /\ Head(event_result)[1] = f /\ event_result' = Tail(event_result)
        /\ UNCHANGED <<listening, backlog, client>> /\ c # Nobody
    BY DEF RecvItem, RecvPart, RecvEof, Handle
  <1>2. /\ event_result' \in Seq(Reports)
        /\ \A i \in DOMAIN event_result' : i + 1 \in DOMAIN event_result /\ event_result'[i] = event_result[i + 1]
        /\ \A i \in DOMAIN event_result' : event_result'[i][1] # f
        /\ \A i, j \in DOMAIN event_result' : event_result'[i][1] = event_result'[j][1] => i = j
    BY <1>1, EventsLeft
  <1>3. c \in Clients
    BY <1>1 DEF Typing
  <1>4. /\ stream[c] \in Seq(Units) /\ Len(stream[c]) \in Nat /\ arrived[c] \in Nat /\ arrived[c] <= Len(stream[c])
        /\ Len(stream[c]) <= SocketBuffer /\ checked[c] \in Seq(Seq(Units))
    BY <1>3 DEF Typing
  <1>5. \/ conn' = conn /\ dropped' = dropped
        \/ conn' = [conn EXCEPT ![f] = Nobody] /\ \E b \in BOOLEAN : dropped' = [dropped EXCEPT ![c] = b]
    BY DEF RecvItem, RecvPart, RecvEof
  <1>6. Typing'
    <2>1. CASE RecvItem(f)
      <3> DEFINE item == SubSeq(stream[c], 1, ItemSize)
                 rest == SubSeq(stream[c], ItemSize + 1, Len(stream[c]))
      <3>0. arrived[c] >= ItemSize /\ ItemSize \in Nat
        BY <2>1, SocketAssumption DEF RecvItem
      <3>1. item \in Seq(Units)
        <4>1. \A i \in 1 .. ItemSize : stream[c][i] \in Units
          BY <1>4, <3>0
        <4>2. QED
          BY <3>0, <4>1, SubSeqProperties
      <3>2. rest \in Seq(Units) /\ Len(rest) = Len(stream[c]) - ItemSize
        <4>1. \A i \in ItemSize + 1 .. Len(stream[c]) : stream[c][i] \in Units
          BY <1>4, <3>0
        <4>2. QED
          BY <1>4, <3>0, <4>1, SubSeqProperties
      <3> HIDE DEF item, rest
      <3>3. Append(checked[c], item) \in Seq(Seq(Units))
        BY <1>4, <3>1
      <3>4. /\ checked' = [checked EXCEPT ![c] = Append(checked[c], item)]
            /\ stream' = [stream EXCEPT ![c] = rest]
            /\ arrived' = [arrived EXCEPT ![c] = arrived[c] - ItemSize]
        BY <1>3, <2>1 DEF RecvItem, item, rest, Typing
      <3>5. /\ checked' \in [Clients -> Seq(Seq(Units))] /\ stream' \in [Clients -> Seq(Units)]
            /\ arrived' \in [Clients -> Nat]
        <4>1. checked' \in [Clients -> Seq(Seq(Units))]
          BY <3>3, <3>4 DEF Typing
        <4>2. stream' \in [Clients -> Seq(Units)]
          BY <3>2, <3>4 DEF Typing
        <4>3. arrived[c] - ItemSize \in Nat
          BY <1>4, <3>0
        <4>4. arrived' \in [Clients -> Nat]
          BY <3>4, <4>3 DEF Typing
        <4>5. QED
          BY <4>1, <4>2, <4>4
      <3>6. \A d \in Clients : Len(stream'[d]) <= SocketBuffer /\ arrived'[d] <= Len(stream'[d])
        BY <1>4, <3>0, <3>2, <3>4, SocketAssumption DEF Typing
      <3>7. QED
        BY <1>1, <2>1, <3>5, <3>6 DEF RecvItem, Typing, client
    <2>2. CASE RecvPart(f)
      <3>1. << >> \in Seq(Units) /\ Len(<< >>) = 0
        OBVIOUS
      <3>2. stream' = [stream EXCEPT ![c] = << >>] /\ arrived' = [arrived EXCEPT ![c] = 0] /\ checked' = checked
        BY <2>2 DEF RecvPart
      <3>3. stream' \in [Clients -> Seq(Units)] /\ arrived' \in [Clients -> Nat]
        BY <3>1, <3>2 DEF Typing
      <3>4. \A d \in Clients : Len(stream'[d]) <= SocketBuffer /\ arrived'[d] <= Len(stream'[d])
        BY <3>1, <3>2, SocketAssumption DEF Typing
      <3>5. conn' \in [Fds -> Clients \cup {Nobody}] /\ dropped' \in [Clients -> BOOLEAN]
        BY <2>2 DEF RecvPart, Typing
      <3>6. QED
        BY <1>1, <3>2, <3>3, <3>4, <3>5 DEF Typing, client
    <2>3. CASE RecvEof(f)
      <3>1. conn' \in [Fds -> Clients \cup {Nobody}] /\ dropped' \in [Clients -> BOOLEAN]
        BY <1>5 DEF Typing
      <3>2. QED
        BY <1>1, <2>3, <3>1 DEF RecvEof, Typing, client
    <2>4. QED
      BY <2>1, <2>2, <2>3
  <1>7. \A g \in Fds : conn'[g] = conn[g] \/ (g = f /\ conn'[g] = Nobody)
    BY <1>5 DEF Typing
  <1>8. Places'
    <2>1. \A d \in Clients : Unconnected(d) => Unconnected(d)'
      BY <1>1, <1>7, SocketAssumption DEF Unconnected
    <2>2. work[c] # "start" /\ ~dropped[c]
      BY <1>3 DEF Places, Unconnected
    <2>3. \A d \in Clients : dropped'[d] => Unconnected(d)'
      <3> SUFFICES ASSUME NEW d \in Clients, dropped'[d] PROVE Unconnected(d)'
        OBVIOUS
      <3>1. CASE dropped[d]
        BY <2>1, <3>1 DEF Places
      <3>2. CASE ~dropped[d]
        <4>1. d = c /\ conn' = [conn EXCEPT ![f] = Nobody]
          BY <1>3, <1>5, <3>2 DEF Typing
        <4>2. \A g \in Fds : conn'[g] # c
          BY <1>1, <4>1 DEF Places, Typing
        <4>3. \A i \in DOMAIN backlog : backlog[i] # c
          BY DEF Places
        <4>4. QED
          BY <1>1, <4>1, <4>2, <4>3 DEF Unconnected
      <3>3. QED
        BY <3>1, <3>2
    <2>4. \A d \in Clients : work'[d] = "start" => Unconnected(d)' /\ ~dropped'[d]
      <3> SUFFICES ASSUME NEW d \in Clients, work'[d] = "start" PROVE Unconnected(d)' /\ ~dropped'[d]
        OBVIOUS
      <3>1. work[d] = "start" /\ d # c
        BY <1>1, <2>2 DEF client
      <3>2. Unconnected(d) /\ ~dropped[d]
        BY <3>1 DEF Places
      <3>3. dropped'[d] = dropped[d]
        BY <1>3, <1>5, <3>1 DEF Typing
      <3>4. QED
        BY <2>1, <3>2, <3>3
    <2>5. /\ \A g, h \in Fds : conn'[g] = conn'[h] /\ conn'[g] # Nobody => g = h
          /\ \A i \in DOMAIN backlog, g \in Fds : conn'[g] # backlog[i]
      <3>1. \A i \in DOMAIN backlog : backlog[i] # Nobody
        BY SocketAssumption DEF Typing
      <3>2. QED
        BY <1>7, <3>1 DEF Places
    <2>6. QED
      BY <1>1, <2>3, <2>4, <2>5 DEF Places
  <1>9. Events'
    <2>1. EventsFresh'
      <3> SUFFICES ASSUME NEW i \in DOMAIN event_result', event_result'[i][1] # m_socket
                   PROVE  conn'[event_result'[i][1]] = event_result'[i][2]
        BY DEF EventsFresh
      <3>1. event_result'[i][1] \in Fds /\ event_result'[i][1] # f
        BY <1>2 DEF Reports, Descriptors
      <3>2. conn[event_result'[i][1]] = event_result'[i][2]
        BY <1>2 DEF Events, EventsFresh
      <3>3. QED
        BY <1>7, <3>1, <3>2
    <2>2. QED
      BY <1>1, <1>2, <2>1 DEF Events, Reports, Descriptors
  <1>10. QED
    BY <1>6, <1>8, <1>9

(* SocketInv is an inductive invariant.                                    *)
LEMMA SocketInvNext == SocketInv /\ [Next]_vars => SocketInv'
  <1> SUFFICES ASSUME SocketInv, [Next]_vars PROVE SocketInv'
    OBVIOUS
  <1>1. CASE Listen
    BY <1>1 DEF Listen, SocketInv, Typing, Places, Unconnected, Events, EventsFresh, client
  <1>2. CASE UNCHANGED vars
    BY <1>2 DEF vars, SocketInv, Typing, Places, Unconnected, Events, EventsFresh, server, client
  <1>3. QED
    BY <1>1, <1>2, SocketInvClient, SocketInvEpollWait, SocketInvAccept, SocketInvRecv
    DEF Next, ServerStep, Idle

(* The inductive invariant of server and clients holds throughout.         *)
LEMMA SocketInvariant == Spec => []SocketInv
  BY SocketInvInit, SocketInvNext, PTL DEF Spec

(* Every variable has its type, and a client is never behind two           *)
(* descriptors of the server.                                              *)
THEOREM SocketTypeCorrect == Spec => []TypeOK
  <1>1. SocketInv => TypeOK
    BY DEF SocketInv, Typing, Places, Events, TypeOK
  <1>2. QED
    BY <1>1, SocketInvariant, PTL

(* An event is handled for the connection that it was reported for: within *)
(* one batch of epoll_wait no handler closes the descriptor of a later     *)
(* event, and accept takes none of them again (Server::start).             *)
THEOREM EventsStayFresh == Spec => []EventsFresh
  <1>1. SocketInv => EventsFresh
    BY DEF SocketInv, Events
  <1>2. QED
    BY <1>1, SocketInvariant, PTL

-----------------------------------------------------------------------------
(* The boundaries of the items.                                            *)

(* The items of c are framed: those validated are whole items in order,    *)
(* and the stream goes on with the next.                                   *)
Framed(done, cooked, units) ==
    /\ done <= cooked
    /\ Len(units) = (cooked - done) * ItemSize
    /\ \A q \in Nat, k \in 1 .. ItemSize :
          q * ItemSize + k <= Len(units) => units[q * ItemSize + k] = <<done + q, k>>

(* Writing an item leaves the stream framed ...                            *)
LEMMA FramedWrite ==
    ASSUME NEW done \in Nat, NEW cooked \in Nat, NEW units \in Seq(Units), Framed(done, cooked, units)
    PROVE  Framed(done, cooked + 1, units \o Item(cooked))
  <1> DEFINE item == Item(cooked)
             both == units \o item
             m == cooked - done
  <1>1. item \in Seq(Units) /\ Len(item) = ItemSize /\ \A k \in 1 .. ItemSize : item[k] = <<cooked, k>>
    BY ItemType
  <1>2. m \in Nat /\ ItemSize \in Nat \ {0} /\ Len(units) = m * ItemSize /\ Len(units) \in Nat /\ done + m = cooked
    BY SocketAssumption DEF Framed
  <1> HIDE DEF item
  <1>3. /\ Len(both) = Len(units) + ItemSize
        /\ \A i \in 1 .. Len(units) + ItemSize :
              both[i] = IF i <= Len(units) THEN units[i] ELSE item[i - Len(units)]
    BY <1>1, ConcatProperties
  <1> HIDE DEF both, m
  <1>4. Len(both) = (m + 1) * ItemSize
    BY <1>2, <1>3
  <1>5. ASSUME NEW q \in Nat, NEW k \in 1 .. ItemSize, q * ItemSize + k <= Len(both)
        PROVE  both[q * ItemSize + k] = <<done + q, k>>
    <2>1. q * ItemSize \in Nat /\ q * ItemSize + k \in 1 .. Len(units) + ItemSize
      <3>1. q * ItemSize \in Nat
        BY <1>2
      <3>2. /\ Len(both) = Len(units) + ItemSize /\ Len(units) \in Nat
            /\ k \in Nat \ {0} /\ ItemSize \in Nat
        BY <1>2, <1>3
      <3> DEFINE a == q * ItemSize
      <3> HIDE DEF a
      <3>3. a \in Nat /\ a + k <= Len(both)
        BY <1>5, <3>1 DEF a
      <3>4. a + k \in 1 .. Len(units) + ItemSize
        BY <3>2, <3>3
      <3>5. QED
        BY <3>1, <3>4 DEF a
    <2>2. q <= m
      <3>1. q * ItemSize < (m + 1) * ItemSize
        BY <1>2, <1>4, <1>5, <2>1
      <3>2. CASE q >= m + 1
        BY <1>2, <3>1, <3>2
      <3>3. QED
        BY <1>2, <3>2
    <2>3. CASE q = m
      <3>1. q * ItemSize + k > Len(units) /\ q * ItemSize + k - Len(units) = k
        BY <1>2, <2>3
      <3>2. both[q * ItemSize + k] = item[k]
        <4> DEFINE a == q * ItemSize + k
        <4>1. a \in 1 .. Len(units) + ItemSize /\ a > Len(units) /\ a - Len(units) = k /\ a \in Nat /\ Len(units) \in Nat
          BY <1>2, <2>1, <3>1
        <4> HIDE DEF a
        <4>2. ~(a <= Len(units))
          BY <4>1
        <4>3. both[a] = item[k]
          BY <1>3, <4>1, <4>2
        <4>4. QED
          BY <4>3 DEF a
      <3>3. QED
        BY <1>1, <1>2, <2>3, <3>2
    <2>4. CASE q < m
      <3>1. q * ItemSize + ItemSize <= m * ItemSize
        <4>1. PICK d \in Nat : m = q + 1 + d
          <5>1. m - (q + 1) \in Nat /\ m = q + 1 + (m - (q + 1))
            BY <1>2, <2>4
          <5>2. QED
            BY <5>1
        <4>2. m * ItemSize = q * ItemSize + ItemSize + d * ItemSize /\ d * ItemSize \in Nat
          BY <1>2, <4>1
        <4>3. QED
          BY <1>2, <2>1, <4>2
      <3>2. q * ItemSize + k <= Len(units)
        BY <1>2, <2>1, <3>1
      <3>3. both[q * ItemSize + k] = units[q * ItemSize + k]
        BY <1>3, <2>1, <3>2
      <3>4. QED
        BY <3>2, <3>3 DEF Framed
    <2>5. QED
      BY <1>2, <2>2, <2>3, <2>4
  <1>6. done <= cooked + 1 /\ m + 1 = (cooked + 1) - done
    BY <1>2 DEF m
  <1>7. QED
    BY <1>4, <1>5, <1>6 DEF Framed, both, item

(* ... and so does receiving one, which is the next.                       *)
LEMMA FramedRecv ==
    ASSUME NEW done \in Nat, NEW cooked \in Nat, NEW units \in Seq(Units), Framed(done, cooked, units),
           Len(units) >= ItemSize
    PROVE  /\ SubSeq(units, 1, ItemSize) = Item(done)
           /\ Framed(done + 1, cooked, SubSeq(units, ItemSize + 1, Len(units)))
  <1> DEFINE item == SubSeq(units, 1, ItemSize)
             rest == SubSeq(units, ItemSize + 1, Len(units))
             m == cooked - done
  <1>1. m \in Nat /\ ItemSize \in Nat \ {0} /\ Len(units) = m * ItemSize /\ Len(units) \in Nat /\ done + m = cooked
    BY SocketAssumption DEF Framed
  <1>2. /\ item \in Seq(Units) /\ Len(item) = ItemSize
        /\ \A k \in 1 .. ItemSize : item[k] = units[k]
    <2>1. \A i \in 1 .. ItemSize : units[i] \in Units
      BY <1>1
    <2>2. QED
      BY <1>1, <2>1, SubSeqProperties
  <1>3. /\ Len(rest) = Len(units) - ItemSize
        /\ \A i \in 1 .. Len(units) - ItemSize : rest[i] = units[ItemSize + i]
    <2>1. \A i \in ItemSize + 1 .. Len(units) : units[i] \in Units
      BY <1>1
    <2>2. ItemSize + 1 \in Int /\ Len(units) \in Int
      BY <1>1
    <2>3. /\ Len(rest) = IF ItemSize + 1 <= Len(units) THEN Len(units) - (ItemSize + 1) + 1 ELSE 0
          /\ \A i \in 1 .. Len(units) - (ItemSize + 1) + 1 : rest[i] = units[ItemSize + 1 + i - 1]
      BY <2>1, <2>2, SubSeqProperties
    <2> HIDE DEF rest
    <2>4. ItemSize \in Nat /\ Len(units) \in Nat
      BY <1>1
    <2>5. /\ (IF ItemSize + 1 <= Len(units) THEN Len(units) - (ItemSize + 1) + 1 ELSE 0) = Len(units) - ItemSize
          /\ Len(units) - (ItemSize + 1) + 1 = Len(units) - ItemSize
      BY <2>4
    <2>6. \A i \in 1 .. Len(units) - ItemSize : ItemSize + 1 + i - 1 = ItemSize + i
      BY <2>4
    <2>7. QED
      BY <2>3, <2>5, <2>6
  <1>4. item = Item(done)
    <2>1. \A k \in 1 .. ItemSize : item[k] = <<done, k>>
      <3> SUFFICES ASSUME NEW k \in 1 .. ItemSize PROVE item[k] = <<done, k>>
        OBVIOUS
      <3>1. 0 * ItemSize + k = k /\ done + 0 = done /\ k <= Len(units)
        BY <1>1
      <3>2. units[0 * ItemSize + k] = <<done + 0, k>>
        BY <3>1 DEF Framed
      <3>3. QED
        BY <1>2, <3>1, <3>2
    <2>2. Item(done) \in Seq(Units) /\ Len(Item(done)) = ItemSize /\ \A k \in 1 .. ItemSize : Item(done)[k] = <<done, k>>
      BY ItemType
    <2> DEFINE other == Item(done)
    <2> HIDE DEF item, other
    <2>3. other \in Seq(Units) /\ Len(other) = ItemSize /\ \A k \in 1 .. ItemSize : other[k] = item[k]
      BY <2>1, <2>2 DEF other
    <2>4. item = other
      BY <1>2, <2>3, SeqEqual
    <2>5. QED
      BY <2>4 DEF other
  <1> HIDE DEF item, rest, m
  <1>5. m >= 1 /\ Len(rest) = (m - 1) * ItemSize
    <2>1. m >= 1
      BY <1>1
    <2>2. QED
      BY <1>1, <1>3, <2>1
  <1>6. ASSUME NEW q \in Nat, NEW k \in 1 .. ItemSize, q * ItemSize + k <= Len(rest)
        PROVE  rest[q * ItemSize + k] = <<(done + 1) + q, k>>
    <2>1. q * ItemSize \in Nat /\ (q + 1) * ItemSize + k = ItemSize + (q * ItemSize + k)
      BY <1>1
    <2>2. (q + 1) * ItemSize + k <= Len(units) /\ q * ItemSize + k \in 1 .. Len(units) - ItemSize
      BY <1>1, <1>3, <1>6, <2>1
    <2>3. units[(q + 1) * ItemSize + k] = <<done + (q + 1), k>>
      BY <2>2 DEF Framed
    <2>4. rest[q * ItemSize + k] = units[ItemSize + (q * ItemSize + k)]
      BY <1>3, <2>2
    <2>5. QED
      BY <2>1, <2>3, <2>4
  <1>7. done + 1 <= cooked /\ m - 1 = cooked - (done + 1)
    BY <1>1, <1>5 DEF m
  <1>8. QED
    BY <1>4, <1>5, <1>6, <1>7 DEF Framed, item, rest

(* What is in the stream of a client that was not dropped are the items    *)
(* after those validated, whole, up to the last one cooked.                *)
Boundaries ==
    \A c \in Clients : ~dropped[c] => Framed(Len(checked[c]), m_cooked_count[c], stream[c])

(* The items stay framed through every step.                               *)
LEMMA FramingNext ==
    SocketInv /\ Boundaries /\ Framing /\ [Next]_vars => Boundaries' /\ Framing'
  <1> SUFFICES ASSUME SocketInv, Boundaries, Framing, [Next]_vars PROVE Boundaries' /\ Framing'
    OBVIOUS
  <1>0. \A c \in Clients : /\ checked[c] \in Seq(Seq(Units)) /\ Len(checked[c]) \in Nat
                           /\ m_cooked_count[c] \in Nat /\ stream[c] \in Seq(Units)
    BY SocketAssumption DEF SocketInv, Typing
  <1>1. CASE UNCHANGED <<checked, m_cooked_count, stream, dropped>>
    BY <1>1 DEF Boundaries, Framing
  <1>2. ASSUME NEW c \in Clients, CookAndWrite(c) PROVE Boundaries' /\ Framing'
    <2>1. checked' = checked /\ dropped' = dropped
      BY <1>2 DEF CookAndWrite, server
    <2>2. ASSUME NEW d \in Clients, ~dropped[d] PROVE Framed(Len(checked[d]), m_cooked_count'[d], stream'[d])
      <3>1. CASE d = c
        <4>1. m_cooked_count'[c] = m_cooked_count[c] + 1 /\ stream'[c] = stream[c] \o Item(m_cooked_count[c])
          BY <1>2, <2>2, <3>1 DEF CookAndWrite, SocketInv, Typing
        <4>2. QED
          BY <1>0, <2>2, <3>1, <4>1, FramedWrite DEF Boundaries
      <3>2. CASE d # c
        <4>1. m_cooked_count'[d] = m_cooked_count[d] /\ stream'[d] = stream[d]
          BY <1>2, <3>2 DEF CookAndWrite, SocketInv, Typing
        <4>2. QED
          BY <2>2, <4>1 DEF Boundaries
      <3>3. QED
        BY <3>1, <3>2
    <2>3. QED
      BY <2>1, <2>2 DEF Boundaries, Framing
  <1>3. ASSUME NEW f \in Fds, RecvItem(f) PROVE Boundaries' /\ Framing'
    <2> DEFINE c == conn[f]
    <2>1. c \in Clients /\ ~dropped[c]
      BY <1>3 DEF RecvItem, SocketInv, Typing, Places, Unconnected
    <2>2. /\ Len(stream[c]) >= ItemSize
          /\ Framed(Len(checked[c]), m_cooked_count[c], stream[c])
      BY <1>3, <2>1, SocketAssumption DEF RecvItem, SocketInv, Typing, Boundaries
    <2>3. /\ SubSeq(stream[c], 1, ItemSize) = Item(Len(checked[c]))
          /\ Framed(Len(checked[c]) + 1, m_cooked_count[c], SubSeq(stream[c], ItemSize + 1, Len(stream[c])))
      BY <1>0, <2>1, <2>2, FramedRecv
    <2>4. /\ m_cooked_count' = m_cooked_count /\ dropped' = dropped
          /\ checked' = [checked EXCEPT ![c] = Append(checked[c], Item(Len(checked[c])))]
          /\ stream' = [stream EXCEPT ![c] = SubSeq(stream[c], ItemSize + 1, Len(stream[c]))]
      BY <1>3, <2>1, <2>3 DEF RecvItem, Handle, client, SocketInv, Typing
    <2> HIDE DEF c
    <2>5. Item(Len(checked[c])) \in Seq(Units)
      BY <1>0, <2>1, ItemType
    <2>6. /\ Len(checked'[c]) = Len(checked[c]) + 1
          /\ DOMAIN checked'[c] = 1 .. Len(checked[c]) + 1 /\ DOMAIN checked[c] = 1 .. Len(checked[c])
          /\ \A i \in 1 .. Len(checked[c]) : checked'[c][i] = checked[c][i]
          /\ checked'[c][Len(checked[c]) + 1] = Item(Len(checked[c]))
      <3> DEFINE item == Item(Len(checked[c]))
      <3>1. checked'[c] = Append(checked[c], item)
        BY <2>1, <2>4 DEF SocketInv, Typing
      <3>2. item \in Seq(Units) /\ checked[c] \in Seq(Seq(Units))
        BY <1>0, <2>1, <2>5
      <3> HIDE DEF item
      <3>3. QED
        BY <3>1, <3>2, AppendProperties DEF item
    <2>7. \A d \in Clients : d # c => checked'[d] = checked[d] /\ stream'[d] = stream[d]
      BY <2>4 DEF SocketInv, Typing
    <2>8. stream'[c] = SubSeq(stream[c], ItemSize + 1, Len(stream[c]))
      BY <2>1, <2>4 DEF SocketInv, Typing
    <2>9. Boundaries'
      BY <2>3, <2>4, <2>6, <2>7, <2>8 DEF Boundaries
    <2>10. \A i \in DOMAIN checked'[c] : checked'[c][i] = Item(i - 1)
      <3> SUFFICES ASSUME NEW i \in DOMAIN checked'[c] PROVE checked'[c][i] = Item(i - 1)
        OBVIOUS
      <3>1. CASE i = Len(checked[c]) + 1
        <4>1. i - 1 = Len(checked[c])
          BY <1>0, <2>1, <3>1
        <4>2. QED
          BY <2>6, <3>1, <4>1
      <3>2. CASE i # Len(checked[c]) + 1
        <4>1. i \in DOMAIN checked[c] /\ i \in 1 .. Len(checked[c])
          BY <1>0, <2>1, <2>6, <3>2
        <4>2. QED
          BY <2>1, <2>6, <4>1 DEF Framing
      <3>3. QED
        BY <3>1, <3>2
    <2>11. Framing'
      BY <2>7, <2>10 DEF Framing
    <2>12. QED
      BY <2>9, <2>11
  <1>4. ASSUME NEW f \in Fds, RecvPart(f) \/ RecvEof(f) PROVE Boundaries' /\ Framing'
    <2> DEFINE c == conn[f]
    <2>1. c \in Clients /\ ~dropped[c]
      BY <1>4 DEF RecvPart, RecvEof, SocketInv, Typing, Places, Unconnected
    <2>2. checked' = checked /\ m_cooked_count' = m_cooked_count
      BY <1>4 DEF RecvPart, RecvEof, Handle, client
    <2>3. \A d \in Clients : ~dropped'[d] => ~dropped[d] /\ stream'[d] = stream[d]
      BY <1>4, <2>1 DEF RecvPart, RecvEof, SocketInv, Typing
    <2>4. QED
      BY <2>2, <2>3 DEF Boundaries, Framing
  <1>5. ASSUME NEW c \in Clients, Connect(c) \/ Killed(c) \/ Disconnect(c) \/ Arrive(c)
        PROVE  UNCHANGED <<checked, m_cooked_count, stream, dropped>>
    BY <1>5 DEF Connect, Killed, Disconnect, Arrive, server, client
  <1>6. ASSUME Listen \/ EpollWait \/ Accept \/ UNCHANGED vars
        PROVE  UNCHANGED <<checked, m_cooked_count, stream, dropped>>
    BY <1>6 DEF Listen, EpollWait, Accept, vars, server, client
  <1>7. QED
    BY <1>1, <1>2, <1>3, <1>4, <1>5, <1>6 DEF Next, ClientStep, ServerStep, Idle

(* Nothing has been written.                                               *)
LEMMA FramingInit == Init => Boundaries /\ Framing
  <1> SUFFICES ASSUME Init PROVE Boundaries /\ Framing
    OBVIOUS
  <1>1. Framed(0, 0, << >>)
    <2>1. ASSUME NEW q \in Nat, NEW k \in 1 .. ItemSize, q * ItemSize + k <= 0 PROVE FALSE
      <3>1. q * ItemSize \in Nat /\ k \in Nat \ {0}
        BY SocketAssumption
      <3>2. QED
        BY <2>1, <3>1
    <2>2. QED
      BY <2>1, SocketAssumption DEF Framed
  <1>2. QED
    BY <1>1 DEF Init, Boundaries, Framing

(* Whatever pieces the stream arrives in and whichever connections are     *)
(* dropped on the way, what the server validates is always the next whole  *)
(* item of its client (Server::start).                                     *)
THEOREM ItemsStayFramed == Spec => []Framing
  BY FramingInit, FramingNext, SocketInvariant, PTL DEF Spec

(* A connection that is over and was not dropped ended with its stream.    *)
Drained ==
    \A c \in Clients : Unconnected(c) /\ ~dropped[c] => stream[c] = << >> /\ work[c] # "working"

(* Only RecvEof ends a connection without dropping it, at the end of the   *)
(* stream.                                                                 *)
LEMMA DrainedNext == SocketInv /\ Drained /\ [Next]_vars => Drained'
  <1> SUFFICES ASSUME SocketInv, Drained, [Next]_vars, NEW c \in Clients, Unconnected(c)', ~dropped'[c]
               PROVE  stream'[c] = << >> /\ work'[c] # "working"
    BY DEF Drained
  <1> USE DEF SocketInv
  <1>1. ASSUME NEW d \in Clients, ClientStep(d) \/ Arrive(d) PROVE stream'[c] = << >> /\ work'[c] # "working"
    <2>1. CASE Connect(d)
      <3>1. d # c \/ ~listening
        <4> SUFFICES ASSUME d = c, listening PROVE FALSE
          OBVIOUS
        <4>1. backlog' = Append(backlog, c) /\ backlog \in Seq(Clients)
          BY <2>1 DEF Connect, Typing
        <4>2. Len(backlog) + 1 \in DOMAIN backlog' /\ backlog'[Len(backlog) + 1] = c
          BY <4>1, AppendProperties
        <4>3. QED
          BY <4>2 DEF Unconnected
      <3>2. Unconnected(c) /\ ~dropped[c]
        <4>1. backlog \in Seq(Clients) /\ (backlog' = backlog \/ backlog' = Append(backlog, d))
          BY <2>1 DEF Connect, Typing
        <4>2. \A i \in DOMAIN backlog : i \in DOMAIN backlog' /\ backlog'[i] = backlog[i]
          BY <4>1, AppendProperties
        <4>3. QED
          BY <2>1, <4>2 DEF Connect, Unconnected
      <3>3. QED
        BY <2>1, <3>1, <3>2 DEF Connect, Drained, Typing
    <2>2. CASE CookAndWrite(d) \/ Killed(d) \/ Disconnect(d) \/ Arrive(d)
      <3>1. Unconnected(c) /\ ~dropped[c]
        BY <2>2 DEF CookAndWrite, Killed, Disconnect, Arrive, server, Unconnected
      <3>2. QED
        BY <2>2, <3>1 DEF CookAndWrite, Killed, Disconnect, Arrive, client, Drained, Typing
    <2>3. QED
      BY <1>1, <2>1, <2>2 DEF ClientStep
  <1>2. CASE Accept
    <2>1. UNCHANGED <<stream, work, dropped>>
      BY <1>2 DEF Accept, client
    <2>2. Unconnected(c)
      <3> DEFINE free == {f \in Fds : conn[f] = Nobody}
                 low == CHOOSE f \in free : \A g \in free : f <= g
      <3>1. CASE free = {}
        BY <1>2, <3>1 DEF Accept, Unconnected
      <3>2. CASE free # {}
        <4>1. low \in Fds /\ conn[low] = Nobody
          <5>1. \E f \in free : \A g \in free : f <= g
            BY <3>2, LowestExists, SocketAssumption
          <5>2. QED
            BY <5>1
        <4>2. conn' = [conn EXCEPT ![low] = Head(backlog)] /\ backlog' = Tail(backlog)
          BY <1>2, <3>2 DEF Accept
        <4> HIDE DEF low, free
        <4>3. \A f \in Fds : conn[f] # c
          BY <4>1, <4>2, SocketAssumption DEF Unconnected, Typing
        <4>4. Head(backlog) # c
          BY <4>1, <4>2 DEF Unconnected, Typing
        <4>5. backlog \in Seq(Clients) /\ backlog # << >>
          BY <1>2, EventsLeft DEF Accept, Events, Typing
        <4>6. \A i \in DOMAIN backlog : i = 1 \/ (i - 1 \in DOMAIN Tail(backlog) /\ Tail(backlog)[i - 1] = backlog[i])
          BY <4>5, HeadTailProperties
        <4>7. \A i \in DOMAIN backlog : backlog[i] # c
          <5>1. backlog[1] # c
            BY <4>4, <4>5
          <5>2. \A i \in DOMAIN Tail(backlog) : Tail(backlog)[i] # c
            BY <4>2 DEF Unconnected
          <5>3. QED
            BY <4>6, <5>1, <5>2
        <4>8. QED
          BY <4>3, <4>7 DEF Unconnected
      <3>3. QED
        BY <3>1, <3>2
    <2>3. QED
      BY <2>1, <2>2 DEF Drained
  <1>3. ASSUME NEW f \in Fds, RecvItem(f) \/ RecvPart(f) PROVE stream'[c] = << >> /\ work'[c] # "working"
    <2>1. conn[f] \in Clients /\ conn[f] # Nobody /\ UNCHANGED <<work, backlog>>
      BY <1>3 DEF RecvItem, RecvPart, Handle, client, Typing
    <2>2. c # conn[f]
      BY <1>3 DEF RecvItem, RecvPart, Unconnected, Typing
    <2>3. Unconnected(c) /\ ~dropped[c] /\ stream'[c] = stream[c]
      BY <1>3, <2>1, <2>2 DEF RecvItem, RecvPart, Unconnected, Typing
    <2>4. QED
      BY <2>1, <2>3 DEF Drained
  <1>4. ASSUME NEW f \in Fds, RecvEof(f) PROVE stream'[c] = << >> /\ work'[c] # "working"
    <2>1. UNCHANGED <<work, stream, backlog>> /\ conn[f] \in Clients
      BY <1>4 DEF RecvEof, Handle, client, Typing
    <2>2. CASE c = conn[f]
      BY <1>4, <2>1, <2>2 DEF RecvEof, Eof, Typing
    <2>3. CASE c # conn[f]
      <3>1. Unconnected(c) /\ ~dropped[c]
        BY <1>4, <2>1, <2>3 DEF RecvEof, Unconnected, Typing
      <3>2. QED
        BY <2>1, <3>1 DEF Drained
    <2>4. QED
      BY <2>2, <2>3
  <1>5. CASE Listen \/ EpollWait \/ UNCHANGED vars
    <2>1. UNCHANGED <<stream, work, dropped, conn, backlog>>
      BY <1>5 DEF Listen, EpollWait, vars, server, client
    <2>2. QED
      BY <2>1 DEF Drained, Unconnected
  <1>6. QED
    BY <1>1, <1>2, <1>3, <1>4, <1>5 DEF Next, ServerStep, Idle

(* No item of a client is lost unless the server dropped its connection    *)
(* for a part of an item (Server::start).                                  *)
THEOREM LossOnlyByDrop == Spec => []OnlyDroppedLoseItems
  <1>1. Init => Drained
    BY DEF Init, Drained
  <1>2. Spec => []Drained
    BY <1>1, DrainedNext, SocketInvariant, PTL DEF Spec
  <1>3. Spec => []Boundaries
    BY FramingInit, FramingNext, SocketInvariant, PTL DEF Spec
  <1>4. SocketInv /\ Drained /\ Boundaries => OnlyDroppedLoseItems
    <2> SUFFICES ASSUME SocketInv, Drained, Boundaries, NEW c \in Clients, Unconnected(c), ~dropped[c]
                 PROVE  Len(checked[c]) = m_cooked_count[c]
      BY DEF OnlyDroppedLoseItems
    <2>1. stream[c] = << >> /\ Len(stream[c]) = 0
      BY DEF Drained
    <2>2. Len(checked[c]) \in Nat /\ m_cooked_count[c] \in Nat /\ ItemSize \in Nat \ {0}
      BY SocketAssumption DEF SocketInv, Typing
    <2>3. Len(checked[c]) <= m_cooked_count[c] /\ (m_cooked_count[c] - Len(checked[c])) * ItemSize = 0
      BY <2>1 DEF Boundaries, Framed
    <2>4. QED
      BY <2>2, <2>3
  <1>5. QED
    BY <1>2, <1>3, <1>4, SocketInvariant, PTL

=============================================================================
