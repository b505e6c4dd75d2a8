----------------------------- MODULE Lobby_proofs -----------------------------
(***************************************************************************)
(* For any addresses, names, sessions and limit of players: the copy of    *)
(* the names agrees with the clients, the limit is kept, a game starts     *)
(* when everybody is ready, and worms are steered by their owners.         *)
(***************************************************************************)
EXTENDS Lobby, FiniteSetTheorems, FunctionTheorems, TLAPS

-----------------------------------------------------------------------------
(* A map c of clients and a set d of names that agree. *)

Agree(c, d) ==
  /\ c \in [DOMAIN c -> Client]
  /\ d = {c[a].name : a \in DOMAIN c} \ {NoName}
  /\ \A a, b \in DOMAIN c : c[a].name = c[b].name /\ a # b => c[a].name = NoName

LEMMA PutFacts ==
  ASSUME NEW f, NEW x, NEW y
  PROVE  /\ DOMAIN Put(f, x, y) = DOMAIN f \cup {x}
         /\ Put(f, x, y)[x] = y
         /\ \A z \in DOMAIN f \ {x} : Put(f, x, y)[z] = f[z]
  BY DEF Put

LEMMA WithoutFacts ==
  ASSUME NEW f, NEW S
  PROVE  /\ DOMAIN Without(f, S) = DOMAIN f \ S
         /\ \A z \in DOMAIN f \ S : Without(f, S)[z] = f[z]
  BY DEF Without, Restrict

\* Putting a value under x forgets what was there.
LEMMA PutForgets ==
  ASSUME NEW f, NEW x, NEW y
  PROVE  Put(f, x, y) = Put(Without(f, {x}), x, y)
  BY DEF Put, Without, Restrict

\* Clients leave and take their names along.
LEMMA AgreeWithout ==
  ASSUME NEW c, NEW d, Agree(c, d), NEW S \in SUBSET DOMAIN c
  PROVE  Agree(Without(c, S), d \ {c[a].name : a \in S})
<1> DEFINE e == Without(c, S)
<1>1. DOMAIN e = DOMAIN c \ S /\ \A z \in DOMAIN e : e[z] = c[z]
  BY WithoutFacts
<1>2. e \in [DOMAIN e -> Client]
  BY <1>1 DEF Agree, Without, Restrict
<1>3. \A a, b \in DOMAIN e : e[a].name = e[b].name /\ a # b => e[a].name = NoName
  BY <1>1 DEF Agree
<1>4. d \ {c[a].name : a \in S} = {e[a].name : a \in DOMAIN e} \ {NoName}
  <2>1. \A n : n \in d \ {c[a].name : a \in S} =>
                 n # NoName /\ \E a \in DOMAIN e : e[a].name = n
    BY <1>1 DEF Agree
  <2>2. \A a \in DOMAIN e : e[a].name # NoName => e[a].name \in d \ {c[b].name : b \in S}
    BY <1>1 DEF Agree
  <2> QED
    BY <2>1, <2>2
<1> QED
  BY <1>2, <1>3, <1>4 DEF Agree

\* A client comes under a free name, or as an observer.
LEMMA AgreePut ==
  ASSUME NEW c, NEW d, Agree(c, d), NEW x, x \notin DOMAIN c,
         NEW y \in Client, y.name \notin d
  PROVE  Agree(Put(c, x, y), (d \cup {y.name}) \ {NoName})
<1> DEFINE e == Put(c, x, y)
<1>1. /\ DOMAIN e = DOMAIN c \cup {x} /\ e[x] = y
      /\ \A z \in DOMAIN c : e[z] = c[z]
  BY DEF Put
<1>2. e \in [DOMAIN e -> Client]
  BY <1>1 DEF Agree, Put
<1>3. \A a, b \in DOMAIN e : e[a].name = e[b].name /\ a # b => e[a].name = NoName
  BY <1>1 DEF Agree
<1>4. (d \cup {y.name}) \ {NoName} = {e[a].name : a \in DOMAIN e} \ {NoName}
  <2>1. \A n : n \in d => n # NoName /\ \E a \in DOMAIN e : e[a].name = n
    BY <1>1 DEF Agree
  <2>2. \A a \in DOMAIN c : e[a].name # NoName => e[a].name \in d
    BY <1>1 DEF Agree
  <2> QED
    BY <1>1, <2>1, <2>2
<1> QED
  BY <1>2, <1>3, <1>4 DEF Agree

\* A client's record changes, but not its name.
LEMMA AgreeUpdate ==
  ASSUME NEW c, NEW d, Agree(c, d), NEW x \in DOMAIN c,
         NEW y \in Client, y.name = c[x].name
  PROVE  Agree(Put(c, x, y), d)
<1> DEFINE e == Put(c, x, y)
<1>1. DOMAIN e = DOMAIN c /\ \A z \in DOMAIN c : e[z].name = c[z].name
  BY DEF Put
<1>2. e \in [DOMAIN e -> Client]
  BY <1>1 DEF Agree, Put
<1>3. \A a, b \in DOMAIN e : e[a].name = e[b].name /\ a # b => e[a].name = NoName
  BY <1>1 DEF Agree
<1>4. {e[a].name : a \in DOMAIN e} = {c[a].name : a \in DOMAIN c}
  BY <1>1
<1> QED
  BY <1>2, <1>3, <1>4 DEF Agree

-----------------------------------------------------------------------------
(* receive() *)

LEMMA MessageFacts ==
  ASSUME NEW m \in Messages
  PROVE  /\ m.addr \in Addrs /\ m.id \in Ids /\ m.id \in Nat
         /\ m.name \in Names \cup {NoName} /\ m.turn \in TurnValues
         /\ m.turn \in 0..2
  BY SessionsAssumption, TurnsAssumption DEF Messages, Ids

LEMMA ClientFacts ==
  ASSUME NEW y \in Client
  PROVE  y.id \in Nat /\ y.id \in Ids /\ y.name \in Names \cup {NoName} /\ y.late \in BOOLEAN
  BY SessionsAssumption DEF Client, Ids

\* The ways of a message: it comes from a client under its session and name, it
\* brings a new client (maybe instead of the one at its address), it ends the
\* client at its address, or nothing comes of it.
LEMMA ReceiveCases ==
  ASSUME Agree(clients, DOMAIN names), NEW m \in Messages
  PROVE  \/ /\ ~Ignored(m) /\ ~Adds(m) /\ ~Removes(m)
            /\ KnowsAddr(m) /\ Old(m).id = m.id /\ Old(m).name = m.name
         \/ /\ ~Ignored(m) /\ Adds(m) /\ Joins(m) /\ ~Full(m) /\ ~KnowsName(m)
            /\ Removes(m) <=> KnowsAddr(m)
         \/ Ignored(m) /\ ~Adds(m) /\ Removes(m) /\ KnowsAddr(m)
         \/ Ignored(m) /\ ~Adds(m) /\ ~Removes(m)
<1>1. m.id \in Nat
  BY MessageFacts
<1>2. CASE ~KnowsAddr(m)
  BY <1>2 DEF Ignored, Adds, Removes, Joins, Renamed
<1>3. CASE KnowsAddr(m)
  <2>1. Old(m).id \in Nat
    BY <1>3, ClientFacts DEF Agree, KnowsAddr, Old
  <2>2. CASE Old(m).id < m.id
    BY <1>1, <1>3, <2>1, <2>2 DEF Ignored, Adds, Removes, Joins, Renamed
  <2>3. CASE Old(m).id = m.id
    BY <1>1, <1>3, <2>1, <2>3 DEF Ignored, Adds, Removes, Joins, Renamed
  <2>4. CASE Old(m).id > m.id
    BY <1>1, <1>3, <2>1, <2>4 DEF Ignored, Adds, Removes, Joins, Renamed
  <2> QED
    BY <1>1, <2>1, <2>2, <2>3, <2>4
<1> QED
  BY <1>2, <1>3

\* Whoever is known under his name has it in names.
LEMMA KnownNames ==
  ASSUME Agree(clients, DOMAIN names), NEW m \in Messages, ~Ignored(m), ~Adds(m),
         m.name # NoName
  PROVE  m.name \in DOMAIN names
  BY ReceiveCases DEF Agree, KnowsAddr, Old

NewClient(m) == [id |-> m.id, name |-> m.name, late |-> FALSE]

\* After a message clients and names still agree, and there are not too many.
LEMMA ReceiveAgrees ==
  ASSUME Agree(clients, DOMAIN names), NEW m \in Messages
  PROVE  Agree(ClientsAfter(m), DOMAIN NamesAfter(m))
<1> DEFINE y == NewClient(m)
<1>1. y \in Client /\ y.name = m.name
  BY MessageFacts DEF NewClient, Client
<1>2. CASE /\ ~Ignored(m) /\ ~Adds(m) /\ ~Removes(m)
           /\ KnowsAddr(m) /\ Old(m).id = m.id /\ Old(m).name = m.name
  <2>1. ClientsAfter(m) = Put(clients, m.addr, y) /\ NamesAfter(m) = names
    BY <1>2 DEF ClientsAfter, NamesAfter, NamesLeft, NewClient
  <2> QED
    BY <1>1, <1>2, <2>1, AgreeUpdate DEF KnowsAddr, Old
<1>3. CASE ~Ignored(m) /\ Adds(m) /\ ~KnowsName(m) /\ (Removes(m) <=> KnowsAddr(m))
  <2> DEFINE c == Without(clients, {m.addr})
             d == DOMAIN NamesLeft(m)
  <2>1. Agree(c, d) /\ m.name \notin d /\ m.addr \notin DOMAIN c
    <3>1. CASE Removes(m)
      <4>1. d = DOMAIN names \ {clients[a].name : a \in {m.addr}}
        BY <3>1 DEF NamesLeft, Old, Without, Restrict
      <4>2. m.addr \notin DOMAIN c /\ {m.addr} \in SUBSET DOMAIN clients
        BY <1>3, <3>1 DEF KnowsAddr, Without, Restrict
      <4> QED
        BY <1>3, <4>1, <4>2, AgreeWithout DEF KnowsName
    <3>2. CASE ~Removes(m)
      <4>1. d = DOMAIN names \ {clients[a].name : a \in {}}
        BY <3>2 DEF NamesLeft
      <4>2. c = Without(clients, {}) /\ m.addr \notin DOMAIN c
        BY <1>3, <3>2 DEF Without, Restrict, KnowsAddr
      <4> QED
        BY <1>3, <4>1, <4>2, AgreeWithout DEF KnowsName
    <3> QED
      BY <3>1, <3>2
  <2>2. ClientsAfter(m) = Put(c, m.addr, y)
    BY <1>3, PutForgets DEF ClientsAfter, NewClient
  <2>3. DOMAIN NamesAfter(m) = (d \cup {m.name}) \ {NoName}
    <3>1. NoName \notin d
      BY <2>1 DEF Agree
    <3> QED
      BY <1>3, <3>1 DEF NamesAfter, Put
  <2> QED
    BY <1>1, <2>1, <2>2, <2>3, AgreePut
<1>4. CASE Ignored(m) /\ ~Adds(m) /\ Removes(m) /\ KnowsAddr(m)
  <2>1. ClientsAfter(m) = Without(clients, {m.addr})
    BY <1>4 DEF ClientsAfter
  <2>2. DOMAIN NamesAfter(m) = DOMAIN names \ {clients[a].name : a \in {m.addr}}
    BY <1>4 DEF NamesAfter, NamesLeft, Old, Without, Restrict
  <2> QED
    BY <1>4, <2>1, <2>2, AgreeWithout DEF KnowsAddr
<1>5. CASE Ignored(m) /\ ~Adds(m) /\ ~Removes(m)
  BY <1>5 DEF ClientsAfter, NamesAfter, NamesLeft
<1> QED
  BY <1>2, <1>3, <1>4, <1>5, ReceiveCases

LEMMA NamesFinite ==
  ASSUME Agree(clients, DOMAIN names)
  PROVE  /\ DOMAIN names \subseteq Names /\ IsFiniteSet(DOMAIN names)
         /\ Cardinality(DOMAIN names) \in Nat
<1>1. DOMAIN names \subseteq Names
  BY ClientFacts DEF Agree
<1> QED
  BY <1>1, NamesAssumption, FS_Subset, FS_CardinalityType

\* ... and the limit is kept, although it is only compared for equality.
LEMMA ReceiveKeepsLimit ==
  ASSUME Agree(clients, DOMAIN names), AtMostMaxPlayers, NEW m \in Messages
  PROVE  Cardinality(DOMAIN NamesAfter(m)) <= MaxPlayers
<1> DEFINE d == DOMAIN NamesLeft(m)
<1>1. d \in SUBSET DOMAIN names
  BY DEF NamesLeft, Without, Restrict
<1>2. IsFiniteSet(d) /\ Cardinality(d) \in Nat /\ Cardinality(d) <= MaxPlayers
  BY <1>1, NamesFinite, FS_Subset, FS_CardinalityType, LobbyAssumption DEF AtMostMaxPlayers
<1>3. CASE Adds(m) /\ m.name # NoName
  <2>1. Cardinality(d) < MaxPlayers
    BY <1>2, <1>3, LobbyAssumption DEF Adds, Full
  <2>2. DOMAIN NamesAfter(m) = d \cup {m.name}
    BY <1>3 DEF NamesAfter, Put
  <2>3. Cardinality(d \cup {m.name}) \in {Cardinality(d), Cardinality(d) + 1}
    BY <1>2, FS_AddElement
  <2> QED
    BY <1>2, <2>1, <2>2, <2>3, LobbyAssumption
<1>4. CASE ~(Adds(m) /\ m.name # NoName)
  <2>1. NamesAfter(m) = NamesLeft(m)
    BY <1>4 DEF NamesAfter
  <2> QED
    BY <1>2, <2>1
<1> QED
  BY <1>3, <1>4

\* Both loops leave the same names; they only differ in what is under them.
LEMMA SameNames ==
  ASSUME Agree(clients, DOMAIN names), NEW m \in Messages
  PROVE  DOMAIN NamesWaiting(m) = DOMAIN NamesAfter(m)
<1>1. CASE Ignored(m) \/ m.name = NoName
  BY <1>1 DEF NamesWaiting
<1>2. CASE ~Ignored(m) /\ m.name # NoName
  <2>1. DOMAIN NamesWaiting(m) = DOMAIN NamesAfter(m) \cup {m.name}
    BY <1>2 DEF NamesWaiting, Put
  <2>2. m.name \in DOMAIN NamesAfter(m)
    <3>1. CASE Adds(m)
      BY <1>2, <3>1 DEF NamesAfter, Put
    <3>2. CASE ~Adds(m)
      <4>1. ~Removes(m)
        BY <1>2, <3>2, ReceiveCases
      <4> QED
        BY <1>2, <3>2, <4>1, KnownNames DEF NamesAfter, NamesLeft
    <3> QED
      BY <3>1, <3>2
  <2> QED
    BY <2>1, <2>2
<1> QED
  BY <1>1, <1>2

-----------------------------------------------------------------------------
(* Names and clients agree. *)

NamesInv ==
  /\ Agree(clients, DOMAIN names)
  /\ AtMostMaxPlayers

LEMMA NamesInit == LobbyInit => NamesInv
<1> SUFFICES ASSUME LobbyInit PROVE NamesInv
  OBVIOUS
<1>1. DOMAIN clients = {} /\ DOMAIN names = {} /\ clients = [a \in {} |-> clients[a]]
  BY DEF LobbyInit
<1>2. Agree(clients, DOMAIN names)
  BY <1>1 DEF Agree
<1> QED
  BY <1>1, <1>2, FS_EmptySet, LobbyAssumption DEF NamesInv, AtMostMaxPlayers

\* An idle check, in either loop.
LEMMA IdleAgrees ==
  ASSUME NamesInv, CheckForIdleClients
  PROVE  NamesInv'
<1> DEFINE late == {a \in DOMAIN clients : clients[a].late}
           gone == {clients[a].name : a \in late}
<1>1. clients' = Without(clients, late) /\ names' = Without(names, gone)
  BY DEF CheckForIdleClients
<1>2. DOMAIN names' = DOMAIN names \ gone
  BY <1>1 DEF Without, Restrict
<1>3. Agree(clients', DOMAIN names')
  BY <1>1, <1>2, AgreeWithout DEF NamesInv
<1>4. AtMostMaxPlayers'
  <2>1. Cardinality(DOMAIN names') \in Nat
        /\ Cardinality(DOMAIN names') <= Cardinality(DOMAIN names)
    BY <1>2, NamesFinite, FS_Subset, FS_CardinalityType DEF NamesInv
  <2> QED
    BY <2>1, NamesFinite, LobbyAssumption DEF NamesInv, AtMostMaxPlayers
<1> QED
  BY <1>3, <1>4 DEF NamesInv

LEMMA NamesStep == NamesInv /\ [LobbyNext]_lobbyVars => NamesInv'
<1> SUFFICES ASSUME NamesInv, [LobbyNext]_lobbyVars PROVE NamesInv'
  OBVIOUS
<1>1. ASSUME NEW a \in Addrs, Expire(a) PROVE NamesInv'
  <2> DEFINE y == [clients[a] EXCEPT !.late = TRUE]
  <2>1. y \in Client /\ y.name = clients[a].name
    BY <1>1 DEF Expire, NamesInv, Agree, Client
  <2>2. clients' = Put(clients, a, y) /\ names' = names
    BY <1>1 DEF Expire, Put, NamesInv, Agree
  <2>3. a \in DOMAIN clients /\ Agree(clients, DOMAIN names)
    BY <1>1 DEF Expire, NamesInv
  <2> HIDE DEF y
  <2>4. Agree(Put(clients, a, y), DOMAIN names)
    BY <2>1, <2>3, AgreeUpdate
  <2> QED
    BY <2>2, <2>4 DEF NamesInv, AtMostMaxPlayers
<1>2. CASE CheckForIdleClients
  BY <1>2, IdleAgrees
<1>3. ASSUME NEW m \in Messages, WaitReceive(m) \/ RunReceive(m) PROVE NamesInv'
  <2>1. clients' = ClientsAfter(m) /\ DOMAIN names' = DOMAIN NamesAfter(m)
    BY <1>3, SameNames DEF WaitReceive, RunReceive, NamesInv
  <2>2. Agree(clients', DOMAIN names')
    BY <2>1, ReceiveAgrees DEF NamesInv
  <2>3. AtMostMaxPlayers'
    BY <2>1, ReceiveKeepsLimit DEF NamesInv, AtMostMaxPlayers
  <2> QED
    BY <2>2, <2>3 DEF NamesInv
<1>4. CASE UpdateGame \/ NothingReceived \/ GameReady \/ GameOver \/ UNCHANGED lobbyVars
  <2>1. clients' = clients /\ DOMAIN names' = DOMAIN names
    BY <1>4 DEF UpdateGame, NothingReceived, GameReady, GameOver, lobbyVars
  <2> QED
    BY <2>1 DEF NamesInv, AtMostMaxPlayers
<1> QED
  BY <1>1, <1>2, <1>3, <1>4 DEF LobbyNext

LEMMA NamesAlways == LobbySpec => []NamesInv
  BY NamesInit, NamesStep, PTL DEF LobbySpec

\* The map names, kept in step with clients by hand, holds exactly the names
\* of the connected players, and no two of them share one.
THEOREM NamesAgree == LobbySpec => []NamesMatchClients
<1>1. NamesInv => NamesMatchClients
  BY DEF NamesInv, Agree, NamesMatchClients
<1> QED
  BY <1>1, NamesAlways, PTL

\* Whatever is received, there are never more players than the limit.
THEOREM LimitIsKept == LobbySpec => []AtMostMaxPlayers
<1>1. NamesInv => AtMostMaxPlayers
  BY DEF NamesInv
<1> QED
  BY <1>1, NamesAlways, PTL

-----------------------------------------------------------------------------
(* Who is ready. *)

\* The names r of the clients p among c.
ReadyOf(c, p, r) ==
  /\ p \subseteq DOMAIN c
  /\ r = {c[a].name : a \in p} \ {NoName}

LEMMA ReadyWithout ==
  ASSUME NEW c, NEW d, NEW p, NEW r, Agree(c, d), ReadyOf(c, p, r),
         NEW S \in SUBSET DOMAIN c
  PROVE  ReadyOf(Without(c, S), p \ S, r \ {c[a].name : a \in S})
<1> DEFINE e == Without(c, S)
<1>1. DOMAIN e = DOMAIN c \ S /\ \A z \in DOMAIN e : e[z] = c[z]
  BY DEF Without, Restrict
<1>2. p \ S \subseteq DOMAIN e
  BY <1>1 DEF ReadyOf
<1>3. \A n : n \in r \ {c[a].name : a \in S} =>
               n # NoName /\ \E a \in p \ S : e[a].name = n
  BY <1>1, <1>2 DEF ReadyOf
<1>4. \A a \in p \ S : e[a].name # NoName => e[a].name \in r \ {c[b].name : b \in S}
  BY <1>1, <1>2 DEF ReadyOf, Agree
<1>5. r \ {c[a].name : a \in S} = {e[a].name : a \in p \ S} \ {NoName}
  BY <1>3, <1>4
<1> QED
  BY <1>2, <1>5 DEF ReadyOf

LEMMA ReadyPut ==
  ASSUME NEW c, NEW p, NEW r, ReadyOf(c, p, r), NEW x, NEW y,
         x \in p => c[x].name = y.name,
         NEW A \in SUBSET {x}, NEW N, N = IF A = {} THEN {} ELSE {y.name} \ {NoName}
  PROVE  ReadyOf(Put(c, x, y), p \cup A, r \cup N)
<1> DEFINE e == Put(c, x, y)
           P == p \cup A
           R == r \cup N
<1>1. /\ DOMAIN e = DOMAIN c \cup {x} /\ e[x].name = y.name
      /\ \A z \in p : e[z].name = c[z].name
  BY DEF Put, ReadyOf
<1>2. P \subseteq DOMAIN e
  BY <1>1 DEF ReadyOf
<1>3. \A n \in R : n # NoName /\ \E a \in P : e[a].name = n
  BY <1>1 DEF ReadyOf
<1>4. \A a \in P : e[a].name # NoName => e[a].name \in R
  BY <1>1 DEF ReadyOf
<1>5. R = {e[a].name : a \in P} \ {NoName}
  <2>1. \A n \in R : n \in {e[a].name : a \in P} \ {NoName}
    BY <1>3
  <2>2. \A n \in {e[a].name : a \in P} \ {NoName} : n \in R
    BY <1>4
  <2> HIDE DEF R, P, e
  <2> QED
    BY <2>1, <2>2
<1> QED
  BY <1>2, <1>5 DEF ReadyOf

ReadyInv ==
  /\ ReadyOf(clients, pressed, ready)
  /\ phase \in {"wait", "play"}
  /\ phase = "play" => pressed = {}

\* A message in the loop that waits.
LEMMA WaitReceiveReady ==
  ASSUME NamesInv, ReadyInv, NEW m \in Messages, WaitReceive(m)
  PROVE  ReadyOf(clients, pressed, ready)'
<1> DEFINE y == NewClient(m)
           c == Without(clients, {m.addr})
           A == {a \in {m.addr} : ~Ignored(m) /\ m.turn # STRAIGHT}
           N == {s \in {m.name} : ~Ignored(m) /\ s # NoName /\ m.turn # STRAIGHT}
           p == IF Removes(m) THEN pressed \ {m.addr} ELSE pressed
<1>1. /\ y.name = m.name /\ A \in SUBSET {m.addr}
      /\ N = IF A = {} THEN {} ELSE {y.name} \ {NoName}
  BY DEF NewClient
<1>2. /\ clients' = ClientsAfter(m)
      /\ ready' = ReadyLeft(m) \cup N /\ pressed' = p \cup A
  BY DEF WaitReceive
<1>3. KnowsAddr(m) /\ Removes(m) => ReadyOf(c, p, ReadyLeft(m))
  <2> HAVE KnowsAddr(m) /\ Removes(m)
  <2>1. ReadyLeft(m) = ready \ {clients[a].name : a \in {m.addr}} /\ p = pressed \ {m.addr}
    BY DEF ReadyLeft, Old
  <2> QED
    BY <2>1, ReadyWithout DEF NamesInv, ReadyInv, KnowsAddr
<1>4. ~Removes(m) => ReadyLeft(m) = ready /\ p = pressed
  BY DEF ReadyLeft
<1>5. CASE /\ ~Ignored(m) /\ ~Adds(m) /\ ~Removes(m)
           /\ KnowsAddr(m) /\ Old(m).id = m.id /\ Old(m).name = m.name
  <2>1. clients' = Put(clients, m.addr, y)
    BY <1>2, <1>5 DEF ClientsAfter, NewClient
  <2>2. clients[m.addr].name = y.name
    BY <1>1, <1>5 DEF Old
  <2> HIDE DEF y, A, N
  <2>3. ReadyOf(clients, p, ReadyLeft(m))
    BY <1>4, <1>5 DEF ReadyInv
  <2> HIDE DEF p
  <2>4. ReadyOf(Put(clients, m.addr, y), p \cup A, ReadyLeft(m) \cup N)
    BY <1>1, <2>2, <2>3, ReadyPut
  <2> QED
    BY <1>2, <2>1, <2>4
<1>6. CASE ~Ignored(m) /\ Adds(m) /\ ~KnowsName(m) /\ (Removes(m) <=> KnowsAddr(m))
  <2>1. clients' = Put(c, m.addr, y)
    BY <1>2, <1>6, PutForgets DEF ClientsAfter, NewClient
  <2>2. ReadyOf(c, p, ReadyLeft(m)) /\ m.addr \notin p
    <3>1. CASE Removes(m)
      BY <1>3, <1>6, <3>1
    <3>2. CASE ~Removes(m)
      <4>1. c = clients
        BY <1>6, <3>2 DEF Without, Restrict, KnowsAddr, NamesInv, Agree
      <4> QED
        BY <1>4, <1>6, <3>2, <4>1 DEF ReadyInv, ReadyOf, KnowsAddr
    <3> QED
      BY <3>1, <3>2
  <2> HIDE DEF y, A, N, c, p
  <2>3. ReadyOf(Put(c, m.addr, y), p \cup A, ReadyLeft(m) \cup N)
    BY <1>1, <2>2, ReadyPut
  <2> QED
    BY <1>2, <2>1, <2>3
<1>7. CASE Ignored(m)
  <2>1. pressed' = p /\ ready' = ReadyLeft(m)
    BY <1>2, <1>7
  <2>2. CASE Removes(m)
    <3>1. KnowsAddr(m) /\ clients' = c
      BY <1>2, <1>7, <2>2 DEF ClientsAfter, Removes
    <3> QED
      BY <1>3, <2>1, <2>2, <3>1
  <2>3. CASE ~Removes(m)
    BY <1>2, <1>4, <1>7, <2>1, <2>3 DEF ClientsAfter, ReadyInv
  <2> QED
    BY <2>2, <2>3
<1> QED
  BY <1>5, <1>6, <1>7, ReceiveCases DEF NamesInv

LEMMA ReadyInit == LobbyInit => ReadyInv
  BY DEF LobbyInit, ReadyInv, ReadyOf

LEMMA ReadyStep == NamesInv /\ ReadyInv /\ [LobbyNext]_lobbyVars => ReadyInv'
<1> SUFFICES ASSUME NamesInv, ReadyInv, [LobbyNext]_lobbyVars PROVE ReadyInv'
  OBVIOUS
<1>1. ASSUME NEW a \in Addrs, Expire(a) PROVE ReadyInv'
  <2>1. /\ DOMAIN clients' = DOMAIN clients
        /\ \A b \in DOMAIN clients : clients'[b].name = clients[b].name
    BY <1>1 DEF Expire, NamesInv, Agree, Client
  <2>2. pressed' = pressed /\ ready' = ready /\ phase' = phase
    BY <1>1 DEF Expire
  <2>3. {clients'[b].name : b \in pressed} = {clients[b].name : b \in pressed}
    BY <2>1 DEF ReadyInv, ReadyOf
  <2> QED
    BY <2>1, <2>2, <2>3 DEF ReadyInv, ReadyOf
<1>2. CASE CheckForIdleClients
  <2> DEFINE late == {a \in DOMAIN clients : clients[a].late}
  <2>1. /\ clients' = Without(clients, late) /\ pressed' = pressed \ late
        /\ ready' = ready \ {clients[a].name : a \in late} /\ phase' = phase
    BY <1>2 DEF CheckForIdleClients
  <2> HIDE DEF late
  <2>2. late \in SUBSET DOMAIN clients
    BY DEF late
  <2>3. ReadyOf(clients, pressed, ready)'
    BY <2>1, <2>2, ReadyWithout DEF NamesInv, ReadyInv
  <2> QED
    BY <2>1, <2>3 DEF ReadyInv
<1>3. ASSUME NEW m \in Messages, WaitReceive(m) PROVE ReadyInv'
  <2>1. phase' = "wait"
    BY <1>3 DEF WaitReceive
  <2> QED
    BY <1>3, <2>1, WaitReceiveReady DEF ReadyInv
<1>4. ASSUME NEW m \in Messages, RunReceive(m) PROVE ReadyInv'
  BY <1>4 DEF RunReceive, ReadyInv, ReadyOf
<1>5. CASE UpdateGame \/ NothingReceived \/ GameReady \/ GameOver \/ UNCHANGED lobbyVars
  BY <1>5 DEF UpdateGame, NothingReceived, GameReady, GameOver, lobbyVars, ReadyInv, ReadyOf
<1> QED
  BY <1>1, <1>2, <1>3, <1>4, <1>5 DEF LobbyNext

LEMMA ReadyAlways == LobbySpec => []ReadyInv
  BY ReadyInit, ReadyStep, NamesAlways, PTL DEF LobbySpec

\* There are as many players as names.
LEMMA PlayersAreNames ==
  ASSUME NamesInv
  PROVE  Cardinality({a \in DOMAIN clients : clients[a].name # NoName}) =
           Cardinality(DOMAIN names)
<1> DEFINE players == {a \in DOMAIN clients : clients[a].name # NoName}
           f == [a \in players |-> clients[a].name]
<1>1. f \in [players -> DOMAIN names]
  BY DEF NamesInv, Agree
<1>2. \A a, b \in players : f[a] = f[b] => a = b
  BY DEF NamesInv, Agree
<1>3. \A s \in DOMAIN names : \E a \in players : f[a] = s
  BY DEF NamesInv, Agree
<1> HIDE DEF players, f
<1>4. f \in Bijection(players, DOMAIN names)
  BY <1>1, <1>2, <1>3, Fun_IsBij
<1>5. ExistsBijection(DOMAIN names, players)
  BY <1>4, Fun_ExistsBij, Fun_ExistsBijSymmetric
<1>6. Cardinality(players) = Cardinality(DOMAIN names)
  BY <1>5, NamesFinite, FS_Bijection DEF NamesInv
<1> QED
  BY <1>6 DEF players

\* The loop that waits compares two sizes; nevertheless it ends exactly when
\* at least two players are connected and all of them have turned.
THEOREM StartIsRight == LobbySpec => []StartsWhenAllReady
<1>1. NamesInv /\ ReadyInv => StartsWhenAllReady
  <2> SUFFICES ASSUME NamesInv, ReadyInv PROVE StartsWhenAllReady
    OBVIOUS
  <2> DEFINE players == {a \in DOMAIN clients : clients[a].name # NoName}
  <2>1. ready \in SUBSET DOMAIN names
    BY DEF NamesInv, Agree, ReadyInv, ReadyOf
  <2>2. /\ IsFiniteSet(DOMAIN names) /\ Cardinality(DOMAIN names) = Cardinality(players)
        /\ Cardinality(DOMAIN names) = Cardinality(ready) <=> ready = DOMAIN names
    BY <2>1, NamesFinite, PlayersAreNames, FS_Subset DEF NamesInv
  <2>3. ready = DOMAIN names <=> players \subseteq pressed
    <3>1. ASSUME ready = DOMAIN names, NEW a \in players PROVE a \in pressed
      <4>1. clients[a].name \in ready
        BY <3>1 DEF NamesInv, Agree
      <4>2. PICK b \in pressed : clients[b].name = clients[a].name
        BY <4>1 DEF ReadyInv, ReadyOf
      <4> QED
        BY <4>2 DEF NamesInv, Agree, ReadyInv, ReadyOf
    <3>2. ASSUME players \subseteq pressed, NEW s \in DOMAIN names PROVE s \in ready
      <4>1. PICK a \in players : clients[a].name = s
        BY DEF NamesInv, Agree
      <4> QED
        BY <3>2, <4>1 DEF ReadyInv, ReadyOf
    <3> QED
      BY <2>1, <3>1, <3>2
  <2> HIDE DEF players
  <2>4. CanStart <=> Cardinality(players) >= 2 /\ players \subseteq pressed
    BY <2>2, <2>3 DEF CanStart
  <2> QED
    BY <2>4 DEF StartsWhenAllReady, players
<1> QED
  BY <1>1, NamesAlways, ReadyAlways, PTL

-----------------------------------------------------------------------------
(* Who steers which worm. *)

\* Ranks are the indices of worms, one by name.
LEMMA RankFacts ==
  ASSUME NamesInv
  PROVE  /\ \A s \in DOMAIN names : Rank(s) \in 0..(Cardinality(DOMAIN names) - 1)
         /\ \A s \in DOMAIN names : Ranked(Rank(s)) = s
<1> DEFINE below(s) == {t \in DOMAIN names : t < s}
<1>1. /\ IsFiniteSet(DOMAIN names) /\ Cardinality(DOMAIN names) \in Nat
      /\ \A s \in DOMAIN names : s \in Nat
  BY NamesFinite, NamesAssumption DEF NamesInv
<1>2. ASSUME NEW s \in DOMAIN names
      PROVE  /\ IsFiniteSet(below(s)) /\ Rank(s) \in Nat
             /\ Rank(s) <= Cardinality(DOMAIN names) - 1
  <2>1. below(s) \in SUBSET DOMAIN names /\ below(s) # DOMAIN names
    BY <1>1
  <2>2. IsFiniteSet(below(s)) /\ Cardinality(below(s)) \in Nat
        /\ Cardinality(below(s)) <= Cardinality(DOMAIN names)
        /\ Cardinality(below(s)) # Cardinality(DOMAIN names)
    BY <1>1, <2>1, FS_Subset, FS_CardinalityType
  <2>3. Rank(s) = Cardinality(below(s))
    BY DEF Rank
  <2> HIDE DEF below
  <2> QED
    BY <1>1, <2>2, <2>3
<1>3. ASSUME NEW s \in DOMAIN names, NEW t \in DOMAIN names, s < t
      PROVE  Rank(s) # Rank(t)
  <2>1. below(s) \in SUBSET below(t) /\ s \in below(t) /\ s \notin below(s)
    BY <1>1, <1>3
  <2>2. Cardinality(below(s)) # Cardinality(below(t))
    BY <1>2, <2>1, FS_Subset
  <2> QED
    BY <2>2 DEF Rank
<1>4. \A s, t \in DOMAIN names : Rank(s) = Rank(t) => s = t
  <2> SUFFICES ASSUME NEW s \in DOMAIN names, NEW t \in DOMAIN names, s # t
               PROVE  Rank(s) # Rank(t)
    OBVIOUS
  <2>1. s < t \/ t < s
    BY <1>1
  <2> QED
    BY <1>3, <2>1
<1>5. \A s \in DOMAIN names : Ranked(Rank(s)) = s
  BY <1>4 DEF Ranked
<1> HIDE DEF below
<1>6. \A s \in DOMAIN names : Rank(s) \in 0..(Cardinality(DOMAIN names) - 1)
  BY <1>1, <1>2
<1> QED
  BY <1>5, <1>6

LEMMA HolderIs ==
  ASSUME NamesInv, NEW a \in DOMAIN clients, clients[a].name # NoName
  PROVE  Holder(clients[a].name) = a
  BY DEF NamesInv, Agree, Holder

\* After a message a name has the value it had, unless it is a new one.
LEMMA NamesAfterFacts ==
  ASSUME NEW m \in Messages, NEW s \in DOMAIN NamesAfter(m)
  PROVE  \/ NamesAfter(m)[s] = NAMES_DEFAULT
         \/ s \in DOMAIN names /\ NamesAfter(m)[s] = names[s]
<1>1. \A t \in DOMAIN NamesLeft(m) : t \in DOMAIN names /\ NamesLeft(m)[t] = names[t]
  BY DEF NamesLeft, Without, Restrict
<1> QED
  BY <1>1 DEF NamesAfter, Put

\* ... and a client is who it was, or the one that sent the message.
LEMMA ClientsAfterFacts ==
  ASSUME NEW m \in Messages, NEW b \in DOMAIN ClientsAfter(m)
  PROVE  \/ b = m.addr /\ ~Ignored(m) /\ ClientsAfter(m)[b] = NewClient(m)
         \/ b \in DOMAIN clients /\ ClientsAfter(m)[b] = clients[b]
  BY DEF ClientsAfter, NewClient, Put, Without, Restrict

\* A client whose name has a worm held it when the game started.
SeatInv ==
  phase = "play" =>
    \A a \in DOMAIN clients :
      clients[a].name # NoName /\ names[clients[a].name] # NAMES_DEFAULT =>
        seat[names[clients[a].name]] = KeyOf(a)

LEMMA RunReceiveSeats ==
  ASSUME NamesInv, SeatInv, NEW m \in Messages, RunReceive(m)
  PROVE  SeatInv'
<1>1. /\ phase = "play" /\ seat' = seat
      /\ clients' = ClientsAfter(m) /\ names' = NamesAfter(m)
  BY DEF RunReceive
<1> SUFFICES ASSUME NEW b \in DOMAIN clients', clients'[b].name # NoName,
                    names'[clients'[b].name] # NAMES_DEFAULT
             PROVE  seat[names'[clients'[b].name]] = KeyOf(b)'
  BY <1>1 DEF SeatInv
<1> DEFINE n == clients'[b].name
<1>2. n \in DOMAIN NamesAfter(m)
  BY <1>1, ReceiveAgrees DEF NamesInv, Agree
<1>3. n \in DOMAIN names /\ names'[n] = names[n]
  BY <1>1, <1>2, NamesAfterFacts
<1>4. CASE b = m.addr /\ ~Ignored(m) /\ clients'[b] = NewClient(m)
  <2>1. n = m.name /\ KnowsName(m) /\ ~Adds(m)
    BY <1>3, <1>4 DEF NewClient, KnowsName, Adds, Joins
  <2>2. KnowsAddr(m) /\ Old(m).id = m.id /\ Old(m).name = m.name
    BY <1>4, <2>1, ReceiveCases DEF NamesInv
  <2>3. seat[names[n]] = KeyOf(b)
    BY <1>1, <1>3, <1>4, <2>1, <2>2 DEF SeatInv, KnowsAddr, Old
  <2>4. KeyOf(b)' = KeyOf(b)
    BY <1>4, <2>2 DEF KeyOf, NewClient, Old
  <2> QED
    BY <1>3, <2>3, <2>4
<1>5. CASE b \in DOMAIN clients /\ clients'[b] = clients[b]
  <2>1. KeyOf(b)' = KeyOf(b)
    BY <1>5 DEF KeyOf
  <2> QED
    BY <1>1, <1>3, <1>5, <2>1 DEF SeatInv
<1> QED
  BY <1>1, <1>4, <1>5, ClientsAfterFacts

LEMMA SeatStep ==
  NamesInv /\ NamesInv' /\ SeatInv /\ [LobbyNext]_lobbyVars => SeatInv'
<1> SUFFICES ASSUME NamesInv, NamesInv', SeatInv, [LobbyNext]_lobbyVars
             PROVE  SeatInv'
  OBVIOUS
<1>1. ASSUME NEW a \in Addrs, Expire(a) PROVE SeatInv'
  <2>1. /\ DOMAIN clients' = DOMAIN clients
        /\ \A b \in DOMAIN clients :
             clients'[b].name = clients[b].name /\ clients'[b].id = clients[b].id
    BY <1>1 DEF Expire, NamesInv, Agree, Client
  <2>2. names' = names /\ seat' = seat /\ phase' = phase
    BY <1>1 DEF Expire
  <2> QED
    BY <2>1, <2>2 DEF SeatInv, KeyOf
<1>2. CASE CheckForIdleClients
  <2> DEFINE late == {a \in DOMAIN clients : clients[a].late}
             gone == {clients[a].name : a \in late}
  <2>1. /\ clients' = Without(clients, late) /\ names' = Without(names, gone)
        /\ seat' = seat /\ phase' = phase
    BY <1>2 DEF CheckForIdleClients
  <2> HIDE DEF late, gone
  <2>2. ASSUME NEW b \in DOMAIN clients'
        PROVE  b \in DOMAIN clients /\ clients'[b] = clients[b]
    BY <2>1 DEF Without, Restrict
  <2>3. ASSUME NEW b \in DOMAIN clients', clients'[b].name # NoName
        PROVE  names'[clients'[b].name] = names[clients'[b].name]
    <3>1. clients'[b].name \in DOMAIN names'
      BY <2>3 DEF NamesInv, Agree
    <3> QED
      BY <2>1, <3>1 DEF Without, Restrict
  <2> QED
    BY <2>1, <2>2, <2>3 DEF SeatInv, KeyOf
<1>3. ASSUME NEW m \in Messages, RunReceive(m) PROVE SeatInv'
  BY <1>3, RunReceiveSeats
<1>4. CASE GameReady
  <2> DEFINE indices == 0..(Cardinality(DOMAIN names) - 1)
  <2>1. /\ names' = [s \in DOMAIN names |-> Rank(s)] /\ clients' = clients
        /\ seat' = [k \in indices |-> KeyOf(Holder(Ranked(k)))]
    BY <1>4 DEF GameReady
  <2> HIDE DEF indices
  <2>2. ASSUME NEW a \in DOMAIN clients, clients[a].name # NoName
        PROVE  seat'[names'[clients[a].name]] = KeyOf(a)
    <3>1. clients[a].name \in DOMAIN names
      BY <2>2 DEF NamesInv, Agree
    <3>2. Rank(clients[a].name) \in indices /\ Ranked(Rank(clients[a].name)) = clients[a].name
      BY <3>1, RankFacts DEF indices
    <3>3. seat'[names'[clients[a].name]] = KeyOf(Holder(clients[a].name))
      BY <2>1, <3>1, <3>2
    <3> QED
      BY <2>2, <3>3, HolderIs
  <2>3. \A a \in DOMAIN clients : KeyOf(a)' = KeyOf(a)
    BY <2>1 DEF KeyOf
  <2> QED
    BY <2>1, <2>2, <2>3 DEF SeatInv
<1>5. ASSUME NEW m \in Messages, WaitReceive(m) PROVE SeatInv'
  BY <1>5 DEF WaitReceive, SeatInv
<1>6. CASE GameOver
  BY <1>6 DEF GameOver, SeatInv
<1>7. CASE UpdateGame \/ NothingReceived \/ UNCHANGED lobbyVars
  <2>1. /\ clients' = clients /\ names' = names /\ seat' = seat /\ phase' = phase
    BY <1>7 DEF UpdateGame, NothingReceived, lobbyVars
  <2> QED
    BY <2>1 DEF SeatInv, KeyOf
<1> QED
  BY <1>1, <1>2, <1>3, <1>4, <1>5, <1>6, <1>7 DEF LobbyNext

\* During a game a worm turns only by a message of the client that held its
\* name when the game started.
THEOREM OwnersSteer == LobbySpec => OnlyOwnerSteers
<1> DEFINE Owned ==
      phase = "play" /\ phase' = "play" =>
        \A k \in DOMAIN turns : turns'[k] # turns[k] =>
          \E m \in Messages : RunReceive(m) /\ Sender(m) = seat[k]
<1>1. LobbyInit => SeatInv
  BY DEF LobbyInit, SeatInv
<1>2. NamesInv /\ SeatInv /\ [LobbyNext]_lobbyVars => [Owned]_lobbyVars
  <2> SUFFICES ASSUME NamesInv, SeatInv, LobbyNext, phase = "play", phase' = "play",
                      NEW k \in DOMAIN turns, turns'[k] # turns[k]
               PROVE  \E m \in Messages : RunReceive(m) /\ Sender(m) = seat[k]
    BY DEF lobbyVars
  <2>1. PICK m \in Messages : RunReceive(m)
    BY DEF LobbyNext, Expire, CheckForIdleClients, UpdateGame, NothingReceived,
           WaitReceive, GameReady, GameOver
  <2>2. Steers(m) /\ k = names[m.name]
    BY <2>1 DEF RunReceive
  <2>3. KnowsAddr(m) /\ Old(m).id = m.id /\ Old(m).name = m.name
    BY <2>2, ReceiveCases DEF NamesInv, Steers
  <2>4. m.name # NoName /\ names[m.name] # NAMES_DEFAULT
    BY <2>2 DEF Steers, NamesInv, Agree
  <2>5. seat[k] = KeyOf(m.addr)
    BY <2>2, <2>3, <2>4 DEF SeatInv, KnowsAddr, Old
  <2> QED
    BY <2>1, <2>3, <2>5 DEF KeyOf, Sender, Old
<1> QED
  BY <1>1, <1>2, SeatStep, NamesAlways, PTL DEF LobbySpec, OnlyOwnerSteers

-----------------------------------------------------------------------------
(* Whose messages change what is recorded. *)

\* A client whose name is not in a message keeps the value under its name.
LEMMA OtherNames ==
  ASSUME NEW m \in Messages, NEW s \in DOMAIN names, s # m.name,
         Removes(m) => s # Old(m).name
  PROVE  NamesAfter(m)[s] = names[s] /\ NamesWaiting(m)[s] = names[s]
<1>1. s \in DOMAIN NamesLeft(m) /\ NamesLeft(m)[s] = names[s]
  BY DEF NamesLeft, Without, Restrict
<1>2. s \in DOMAIN NamesAfter(m) /\ NamesAfter(m)[s] = names[s]
  BY <1>1 DEF NamesAfter, Put
<1> QED
  BY <1>2 DEF NamesWaiting, Put

LEMMA OthersKeep ==
  ASSUME NamesInv, NamesInv', ReadyInv, ReadyInv', NEW m \in Messages,
         WaitReceive(m) \/ RunReceive(m), NEW b \in DOMAIN clients, b # m.addr
  PROVE  b \in DOMAIN clients' /\ Recorded(b)' = Recorded(b)
<1> DEFINE n == clients[b].name
<1>1. clients' = ClientsAfter(m) /\ (names' = NamesAfter(m) \/ names' = NamesWaiting(m))
  BY DEF WaitReceive, RunReceive
<1>2. b \in DOMAIN clients' /\ clients'[b] = clients[b]
  BY <1>1 DEF ClientsAfter, Put, Without, Restrict
<1>3. CASE n = NoName
  <2>1. n \notin ready /\ n \notin ready'
    BY <1>3 DEF ReadyInv, ReadyOf
  <2> QED
    BY <1>2, <1>3, <2>1 DEF Recorded
<1>4. CASE n # NoName
  <2>1. Removes(m) => n # Old(m).name
    BY <1>4, ReceiveCases DEF NamesInv, Agree, KnowsAddr, Old
  <2>2. ~Ignored(m) => n # m.name
    <3>1. ~Ignored(m) => m.addr \in DOMAIN clients' /\ clients'[m.addr].name = m.name
      BY <1>1 DEF ClientsAfter, Put
    <3> QED
      BY <1>2, <1>4, <3>1 DEF NamesInv, Agree
  <2>3. n \in ready' <=> n \in ready
    BY <2>1, <2>2 DEF WaitReceive, RunReceive, ReadyLeft
  <2>4. names'[n] = names[n]
    <3>1. n \in DOMAIN names
      BY <1>4 DEF NamesInv, Agree
    <3>2. CASE n # m.name
      BY <1>1, <2>1, <3>1, <3>2, OtherNames
    <3>3. CASE n = m.name
      <4>1. Ignored(m) /\ ~Adds(m)
        BY <2>2, <3>1, <3>3 DEF Adds, Joins, KnowsName
      <4>2. names' = NamesLeft(m)
        BY <1>1, <4>1 DEF NamesAfter, NamesWaiting
      <4> QED
        BY <2>1, <3>1, <4>2 DEF NamesLeft, Without, Restrict
    <3> QED
      BY <3>2, <3>3
  <2> QED
    BY <1>2, <1>4, <2>3, <2>4 DEF Recorded
<1> QED
  BY <1>3, <1>4

\* Timers apart, nothing recorded of a client changes within a loop but by a
\* message from its own address.
THEOREM NobodyInterferes == LobbySpec => NoInterference
<1> DEFINE OwnDoing ==
      phase' = phase /\ stage' # "idle" =>
        \A b \in DOMAIN clients :
          (b \in DOMAIN clients' => Recorded(b)' # Recorded(b)) =>
            \/ Expire(b)
            \/ \E m \in Messages : m.addr = b /\ (WaitReceive(m) \/ RunReceive(m))
<1>1. NamesInv /\ NamesInv' /\ ReadyInv /\ ReadyInv' /\ [LobbyNext]_lobbyVars
        => [OwnDoing]_lobbyVars
  <2> SUFFICES ASSUME NamesInv, NamesInv', ReadyInv, ReadyInv', LobbyNext,
                      phase' = phase, stage' # "idle", NEW b \in DOMAIN clients,
                      ~Expire(b),
                      \A m \in Messages : m.addr = b => ~(WaitReceive(m) \/ RunReceive(m))
               PROVE  b \in DOMAIN clients' /\ Recorded(b)' = Recorded(b)
    BY DEF lobbyVars
  <2>1. ASSUME NEW a \in Addrs, Expire(a)
        PROVE  b \in DOMAIN clients' /\ Recorded(b)' = Recorded(b)
    <3>1. a # b /\ names' = names /\ ready' = ready
      BY <2>1 DEF Expire
    <3>2. b \in DOMAIN clients' /\ clients'[b] = clients[b]
      BY <2>1, <3>1 DEF Expire, NamesInv, Agree
    <3> QED
      BY <3>1, <3>2 DEF Recorded
  <2>2. ASSUME NEW m \in Messages, WaitReceive(m) \/ RunReceive(m)
        PROVE  b \in DOMAIN clients' /\ Recorded(b)' = Recorded(b)
    BY <2>2, OthersKeep
  <2>3. CASE UpdateGame \/ NothingReceived
    <3>1. clients' = clients /\ names' = names /\ ready' = ready
      BY <2>3 DEF UpdateGame, NothingReceived
    <3> QED
      BY <3>1 DEF Recorded
  <2>4. ~CheckForIdleClients /\ ~GameReady /\ ~GameOver
    BY DEF CheckForIdleClients, GameReady, GameOver
  <2> QED
    BY <2>1, <2>2, <2>3, <2>4 DEF LobbyNext
<1> QED
  BY <1>1, NamesAlways, ReadyAlways, PTL DEF LobbySpec, NoInterference

-----------------------------------------------------------------------------
(* Types; above all, what the values under the names are at the start. *)

ValuesInv ==
  /\ DOMAIN clients \subseteq Addrs
  /\ \A s \in DOMAIN names : names[s] \in Int
  /\ phase = "wait" => \A s \in ready : names[s] \in TurnValues
  /\ stage \in {"test", "idle", "round"} /\ over \in BOOLEAN
  /\ \A k \in DOMAIN turns : turns[k] \in TurnValues
  /\ \A k \in DOMAIN seat : seat[k] \in Key

\* Every index is some name's rank.
LEMMA EveryIndexIsARank ==
  ASSUME NamesInv, NEW k \in 0..(Cardinality(DOMAIN names) - 1)
  PROVE  Ranked(k) \in DOMAIN names
<1> DEFINE n == Cardinality(DOMAIN names)
           indices == 0..(n - 1)
           f == [s \in DOMAIN names |-> Rank(s)]
<1>1. IsFiniteSet(DOMAIN names) /\ n \in Nat
  BY NamesFinite DEF NamesInv
<1>2. IsFiniteSet(indices) /\ Cardinality(indices) = n
  <2>1. n - 1 \in Int
    BY <1>1
  <2> HIDE DEF n
  <2>2. /\ IsFiniteSet(0..(n - 1))
        /\ Cardinality(0..(n - 1)) = IF 0 > n - 1 THEN 0 ELSE (n - 1) - 0 + 1
    BY <2>1, FS_Interval
  <2> QED
    BY <1>1, <2>2
<1>3. f \in [DOMAIN names -> indices]
  BY RankFacts
<1>4. \A s, t \in DOMAIN names : f[s] = f[t] => s = t
  BY RankFacts
<1> HIDE DEF indices, f
<1>5. f \in Injection(DOMAIN names, indices)
  BY <1>3, <1>4, Fun_IsInj
<1>6. f \in Surjection(DOMAIN names, indices)
  BY <1>2, <1>5, FS_Injection
<1>7. PICK s \in DOMAIN names : f[s] = k
  BY <1>6 DEF indices, Surjection
<1>8. Rank(s) = k
  BY <1>7 DEF f
<1> QED
  BY <1>8, RankFacts

LEMMA HolderFacts ==
  ASSUME NamesInv, NEW s \in DOMAIN names
  PROVE  Holder(s) \in DOMAIN clients
<1>1. PICK a \in DOMAIN clients : clients[a].name = s /\ s # NoName
  BY DEF NamesInv, Agree
<1> QED
  BY <1>1, HolderIs

LEMMA GameReadyValues ==
  ASSUME NamesInv, ReadyInv, ValuesInv, GameReady
  PROVE  ValuesInv'
<1> DEFINE indices == 0..(Cardinality(DOMAIN names) - 1)
<1>1. /\ phase = "wait" /\ phase' = "play" /\ CanStart /\ stage' = stage /\ over' \in BOOLEAN
      /\ clients' = clients
      /\ names' = [s \in DOMAIN names |-> Rank(s)]
      /\ turns' = [k \in indices |-> names[Ranked(k)]]
      /\ seat' = [k \in indices |-> KeyOf(Holder(Ranked(k)))]
  BY DEF GameReady
<1>2. ready = DOMAIN names
  <2>1. ready \in SUBSET DOMAIN names
    BY DEF NamesInv, Agree, ReadyInv, ReadyOf
  <2> QED
    BY <1>1, <2>1, NamesFinite, FS_Subset DEF NamesInv, CanStart
<1>3. \A k \in indices : Ranked(k) \in DOMAIN names
  BY EveryIndexIsARank
<1>4. \A k \in indices : names[Ranked(k)] \in TurnValues
  BY <1>1, <1>2, <1>3 DEF ValuesInv
<1>5. \A a \in DOMAIN clients : KeyOf(a) \in Key
  BY ClientFacts DEF NamesInv, Agree, ValuesInv, KeyOf, Key
<1>6. \A k \in indices : KeyOf(Holder(Ranked(k))) \in Key
  BY <1>3, <1>5, HolderFacts
<1>7. \A s \in DOMAIN names : Rank(s) \in Int
  BY RankFacts
<1> HIDE DEF indices
<1> QED
  BY <1>1, <1>4, <1>6, <1>7 DEF ValuesInv

LEMMA ReceiveValues ==
  ASSUME NamesInv, ReadyInv, ValuesInv, NEW m \in Messages,
         WaitReceive(m) \/ RunReceive(m)
  PROVE  ValuesInv'
<1>1. m.addr \in Addrs /\ m.turn \in TurnValues /\ m.turn \in Int
  BY MessageFacts
<1>2. DOMAIN clients' \subseteq Addrs
  <2>1. clients' = ClientsAfter(m)
    BY DEF WaitReceive, RunReceive
  <2> QED
    BY <1>1, <2>1, ClientsAfterFacts DEF ValuesInv
<1>3. \A s \in DOMAIN NamesAfter(m) : NamesAfter(m)[s] \in Int
  BY NamesAfterFacts DEF ValuesInv, NAMES_DEFAULT
<1>4. CASE WaitReceive(m)
  <2>1. \A s \in DOMAIN names' : names'[s] \in Int
    BY <1>1, <1>3, <1>4 DEF WaitReceive, NamesWaiting, Put
  <2>2. ASSUME NEW s \in ready', ~(s = m.name /\ ~Ignored(m)) PROVE names'[s] \in TurnValues
    <3>1. s \in ready /\ (Removes(m) => s # Old(m).name)
      BY <1>4, <2>2 DEF WaitReceive, ReadyLeft
    <3>2. s \in DOMAIN names /\ names[s] \in TurnValues
      BY <1>4, <3>1 DEF NamesInv, Agree, ReadyInv, ReadyOf, ValuesInv, WaitReceive
    <3>3. CASE s # m.name
      BY <1>4, <3>1, <3>2, <3>3, OtherNames DEF WaitReceive
    <3>4. CASE s = m.name
      <4>1. Ignored(m) /\ ~Adds(m)
        BY <2>2, <3>2, <3>4 DEF Adds, Joins, KnowsName
      <4>2. names' = NamesLeft(m)
        BY <1>4, <4>1 DEF WaitReceive, NamesAfter, NamesWaiting
      <4> QED
        BY <3>1, <3>2, <4>2 DEF NamesLeft, Without, Restrict
    <3> QED
      BY <3>3, <3>4
  <2>3. ASSUME NEW s \in ready', s = m.name, ~Ignored(m) PROVE names'[s] \in TurnValues
    <3>1. s # NoName
      BY <1>4, <2>3 DEF WaitReceive, ReadyLeft, ReadyInv, ReadyOf
    <3> QED
      BY <1>1, <1>4, <2>3, <3>1 DEF WaitReceive, NamesWaiting, Put
  <2>4. stage' = "test" /\ over' = over /\ turns' = turns /\ seat' = seat
    BY <1>4 DEF WaitReceive
  <2> QED
    BY <1>2, <2>1, <2>2, <2>3, <2>4 DEF ValuesInv
<1>5. CASE RunReceive(m)
  <2>1. \A k \in DOMAIN turns' : turns'[k] \in TurnValues
    BY <1>1, <1>5 DEF RunReceive, ValuesInv
  <2>2. /\ phase' = "play" /\ stage' = "test" /\ over' = over /\ seat' = seat
        /\ names' = NamesAfter(m)
    BY <1>5 DEF RunReceive
  <2> QED
    BY <1>2, <1>3, <2>1, <2>2 DEF ValuesInv
<1> QED
  BY <1>4, <1>5

LEMMA ValuesStep ==
  NamesInv /\ ReadyInv /\ ReadyInv' /\ ValuesInv /\ [LobbyNext]_lobbyVars => ValuesInv'
<1> SUFFICES ASSUME NamesInv, ReadyInv, ReadyInv', ValuesInv, [LobbyNext]_lobbyVars
             PROVE  ValuesInv'
  OBVIOUS
<1>1. ASSUME NEW a \in Addrs, Expire(a) PROVE ValuesInv'
  BY <1>1 DEF Expire, ValuesInv
<1>2. CASE CheckForIdleClients
  <2> DEFINE late == {a \in DOMAIN clients : clients[a].late}
             gone == {clients[a].name : a \in late}
  <2>1. /\ clients' = Without(clients, late) /\ names' = Without(names, gone)
        /\ ready' = ready \ gone /\ phase' = phase /\ stage' = "idle"
        /\ over' = over /\ turns' = turns /\ seat' = seat
    BY <1>2 DEF CheckForIdleClients
  <2>2. ready \subseteq DOMAIN names
    BY DEF NamesInv, Agree, ReadyInv, ReadyOf
  <2> HIDE DEF late, gone
  <2> QED
    BY <2>1, <2>2 DEF ValuesInv, Without, Restrict
<1>3. ASSUME NEW m \in Messages, WaitReceive(m) \/ RunReceive(m) PROVE ValuesInv'
  BY <1>3, ReceiveValues
<1>4. CASE GameReady
  BY <1>4, GameReadyValues
<1>5. CASE GameOver
  <2>1. ready' = {}
    BY <1>5 DEF GameOver, ReadyInv, ReadyOf
  <2> QED
    BY <1>5, <2>1 DEF GameOver, ValuesInv, NAMES_DEFAULT
<1>6. CASE UpdateGame \/ NothingReceived \/ UNCHANGED lobbyVars
  BY <1>6 DEF UpdateGame, NothingReceived, lobbyVars, ValuesInv
<1> QED
  BY <1>1, <1>2, <1>3, <1>4, <1>5, <1>6 DEF LobbyNext

\* Every variable keeps its type; in particular a game starts with a turn
\* direction for every worm, whatever names held before.
THEOREM LobbyTypeCorrect == LobbySpec => []LobbyTypeOK
<1>1. LobbyInit => ValuesInv
  <2> SUFFICES ASSUME LobbyInit PROVE ValuesInv
    OBVIOUS
  <2>1. DOMAIN clients = {} /\ DOMAIN names = {} /\ DOMAIN turns = {} /\ DOMAIN seat = {}
    BY DEF LobbyInit
  <2> QED
    BY <2>1 DEF LobbyInit, ValuesInv
<1>2. NamesInv /\ ReadyInv /\ ValuesInv => LobbyTypeOK
  <2> SUFFICES ASSUME NamesInv, ReadyInv, ValuesInv PROVE LobbyTypeOK
    OBVIOUS
  <2>1. DOMAIN names \subseteq Names
    BY NamesFinite DEF NamesInv
  <2>2. ready \subseteq DOMAIN names /\ pressed \subseteq DOMAIN clients
    BY DEF NamesInv, Agree, ReadyInv, ReadyOf
  <2> QED
    BY <2>1, <2>2 DEF LobbyTypeOK, NamesInv, Agree, ReadyInv, ValuesInv
<1> QED
  BY <1>1, <1>2, ValuesStep, NamesAlways, ReadyAlways, PTL DEF LobbySpec

-----------------------------------------------------------------------------
(* Sizes. *)

\* Finitely many clients, and worms as a game may have.
CrowdInv ==
  /\ IsFiniteSet(DOMAIN clients)
  /\ \E n \in 0..MaxPlayers : DOMAIN turns = 0..(n - 1)

LEMMA CrowdInit == LobbyInit => CrowdInv
<1> SUFFICES ASSUME LobbyInit PROVE CrowdInv
  OBVIOUS
<1>1. DOMAIN clients = {} /\ DOMAIN turns = {}
  BY DEF LobbyInit
<1>2. 0 \in 0..MaxPlayers /\ 0..(0 - 1) = {}
  BY LobbyAssumption
<1> QED
  BY <1>1, <1>2, FS_EmptySet DEF CrowdInv

LEMMA CrowdStep == NamesInv /\ CrowdInv /\ [LobbyNext]_lobbyVars => CrowdInv'
<1> SUFFICES ASSUME NamesInv, CrowdInv, [LobbyNext]_lobbyVars PROVE CrowdInv'
  OBVIOUS
<1>1. ASSUME DOMAIN clients' \subseteq DOMAIN clients PROVE IsFiniteSet(DOMAIN clients')
  BY <1>1, FS_Subset DEF CrowdInv
<1>2. ASSUME NEW a \in Addrs, Expire(a) PROVE CrowdInv'
  <2>1. DOMAIN clients' = DOMAIN clients /\ turns' = turns
    BY <1>2 DEF Expire
  <2> QED
    BY <2>1 DEF CrowdInv
<1>3. CASE CheckForIdleClients
  <2>1. DOMAIN clients' \subseteq DOMAIN clients /\ turns' = turns
    BY <1>3 DEF CheckForIdleClients, Without, Restrict
  <2> QED
    BY <1>1, <2>1 DEF CrowdInv
<1>4. ASSUME NEW m \in Messages, WaitReceive(m) \/ RunReceive(m) PROVE CrowdInv'
  <2>1. clients' = ClientsAfter(m) /\ DOMAIN turns' = DOMAIN turns
    BY <1>4 DEF WaitReceive, RunReceive
  <2>2. DOMAIN clients' \in SUBSET (DOMAIN clients \cup {m.addr})
    BY <2>1, ClientsAfterFacts
  <2>3. IsFiniteSet(DOMAIN clients \cup {m.addr})
    BY FS_AddElement DEF CrowdInv
  <2> QED
    BY <2>1, <2>2, <2>3, FS_Subset DEF CrowdInv
<1>5. CASE GameReady
  <2>1. UNCHANGED clients /\ DOMAIN turns' = 0..(Cardinality(DOMAIN names) - 1)
    BY <1>5 DEF GameReady
  <2>2. Cardinality(DOMAIN names) \in 0..MaxPlayers
    BY NamesFinite, LobbyAssumption DEF NamesInv, AtMostMaxPlayers
  <2> QED
    BY <2>1, <2>2 DEF CrowdInv
<1>6. CASE GameOver
  <2>1. UNCHANGED clients /\ DOMAIN turns' = {}
    BY <1>6 DEF GameOver
  <2>2. 0 \in 0..MaxPlayers /\ 0..(0 - 1) = {}
    BY LobbyAssumption
  <2> QED
    BY <2>1, <2>2 DEF CrowdInv
<1>7. CASE UpdateGame \/ NothingReceived \/ UNCHANGED lobbyVars
  BY <1>7 DEF UpdateGame, NothingReceived, lobbyVars, CrowdInv
<1> QED
  BY <1>2, <1>3, <1>4, <1>5, <1>6, <1>7 DEF LobbyNext

LEMMA CrowdAlways == LobbySpec => []CrowdInv
  BY CrowdInit, CrowdStep, NamesAlways, PTL DEF LobbySpec
=============================================================================
