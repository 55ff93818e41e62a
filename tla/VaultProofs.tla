---------------------------- MODULE VaultProofs ----------------------------
(***************************************************************************)
(* Vault, for any set of daemons, clients, names and values, whenever      *)
(* daemons are started: the types, no client is given a value that had     *)
(* not arrived whole, and no call that waits is dropped.  When a daemon is *)
(* only started after the other is gone: that it starts, that it is        *)
(* reachable, and that the daemons together keep the promise of            *)
(* VaultStore.                                                             *)
(***************************************************************************)
EXTENDS Vault, SequenceTheorems, TLAPS

Asked == {"connected", "half", "sent"}

(* A client is in one place: waiting at one daemon, or served by one.      *)
Places ==
    /\ \A d \in Daemon : \A i, j \in DOMAIN queue[d] : queue[d][i] = queue[d][j] => i = j
    /\ \A d, e \in Daemon : d # e => Waiting(d) \cap Waiting(e) = {}
    /\ \A d, e \in Daemon : serving[d] \notin Waiting(e)
    /\ \A d, e \in Daemon : serving[d] = serving[e] /\ serving[d] # None => d = e

(* It has asked, and until it is served it has no reply.                   *)
Unanswered ==
    /\ \A d \in Daemon : \A c \in Waiting(d) : phase[c] \in Asked /\ reply[c] = None
    /\ \A d \in Daemon : serving[d] # None => phase[serving[d]] \in Asked
    /\ \A d \in Daemon : at[d] = "read" => reply[serving[d]] = None

(* A client that has asked has a request; only a set comes in two parts.   *)
Requests ==
    \A c \in Client :
       /\ phase[c] \in Asked => request[c] \in Request
       /\ phase[c] = "half" => request[c].op = "set"
       /\ phase[c] \in {"idle", "refused"} => request[c] = None /\ reply[c] = None

(* A secret was set whole by a client that still says so.                  *)
Genuine ==
    \A d \in Daemon, n \in Name :
       store[d][n] # None =>
          \E b \in Client : phase[b] = "sent" /\ request[b] = [op |-> "set", name |-> n, value |-> store[d][n]]

IInv == TypeOK /\ Places /\ Unanswered /\ Requests /\ Genuine /\ NoTornSecret

-----------------------------------------------------------------------------
(* Queues: joining at the end and leaving at the head.                     *)
Members(s) == {s[i] : i \in DOMAIN s}
Distinct(s) == \A i, j \in DOMAIN s : s[i] = s[j] => i = j

LEMMA Join ==
    ASSUME NEW S, NEW s \in Seq(S), NEW e \in S
    PROVE  /\ Append(s, e) \in Seq(S) /\ Append(s, e) # <<>>
           /\ Members(Append(s, e)) = Members(s) \cup {e}
           /\ Distinct(s) /\ e \notin Members(s) => Distinct(Append(s, e))
<1>1. /\ Append(s, e) \in Seq(S) /\ Append(s, e) # <<>>
      /\ DOMAIN s = 1..Len(s) /\ DOMAIN Append(s, e) = 1..(Len(s) + 1)
      /\ Len(s) \in Nat
  BY AppendProperties, LenProperties
<1>2. \A i \in 1..Len(s) : Append(s, e)[i] = s[i]
  BY AppendProperties
<1>3. Append(s, e)[Len(s) + 1] = e
  BY AppendProperties
<1>4. Members(Append(s, e)) = Members(s) \cup {e}
  <2>1. ASSUME NEW x \in Members(Append(s, e)) PROVE x \in Members(s) \cup {e}
    BY <1>1, <1>2, <1>3, <2>1 DEF Members
  <2>2. ASSUME NEW x \in Members(s) PROVE x \in Members(Append(s, e))
    BY <1>1, <1>2, <2>2 DEF Members
  <2>3. e \in Members(Append(s, e))
    BY <1>1, <1>3 DEF Members
  <2> QED
    BY <2>1, <2>2, <2>3
<1>5. ASSUME Distinct(s), e \notin Members(s) PROVE Distinct(Append(s, e))
  BY <1>1, <1>2, <1>3, <1>5 DEF Distinct, Members
<1> QED
  BY <1>1, <1>4, <1>5

LEMMA Leave ==
    ASSUME NEW S, NEW s \in Seq(S), s # <<>>
    PROVE  /\ Head(s) \in S /\ Head(s) \in Members(s)
           /\ Tail(s) \in Seq(S) /\ Members(Tail(s)) \subseteq Members(s)
           /\ Distinct(s) => Distinct(Tail(s)) /\ Head(s) \notin Members(Tail(s))
<1>1. /\ Tail(s) \in Seq(S) /\ Head(s) \in S
      /\ DOMAIN s = 1..Len(s) /\ DOMAIN Tail(s) = 1..(Len(s) - 1)
      /\ Len(s) \in Nat \ {0}
  BY HeadTailProperties, LenProperties, EmptySeq
<1>2. Head(s) = s[1]
  OBVIOUS
<1>3. \A i \in 1..(Len(s) - 1) : Tail(s)[i] = s[i + 1] /\ i + 1 \in 1..Len(s)
  BY <1>1, HeadTailProperties
<1>4. Head(s) \in Members(s)
  BY <1>1, <1>2 DEF Members
<1>5. Members(Tail(s)) \subseteq Members(s)
  BY <1>1, <1>3 DEF Members
<1>6. ASSUME Distinct(s) PROVE Distinct(Tail(s)) /\ Head(s) \notin Members(Tail(s))
  BY <1>1, <1>2, <1>3, <1>6 DEF Distinct, Members
<1> QED
  BY <1>1, <1>4, <1>5, <1>6

-----------------------------------------------------------------------------
LEMMA Types == Spec => []TypeOK
<1> USE NoneAssumption DEF Listening
<1>1. Init => TypeOK
  BY DEF Init, TypeOK, Empty
<1>2. TypeOK /\ [Next]_vars => TypeOK'
  <2> SUFFICES ASSUME TypeOK, [Next]_vars PROVE TypeOK'
    OBVIOUS
  <2> USE DEF TypeOK, process, socket, client
  <2>1. ASSUME NEW d \in Daemon, Start(d) \/ Bind(d) \/ Listen(d) PROVE TypeOK'
    BY <2>1 DEF Start, Bind, Listen
  <2>2. ASSUME NEW cs, CutOff(cs) PROVE reply' \in [Client -> Reply \cup {None}]
    BY <2>2 DEF CutOff, Reply
  <2>3. ASSUME NEW d \in Daemon, CloseListener(d) PROVE TypeOK'
    <3>1. reply' \in [Client -> Reply \cup {None}]
      BY <2>2, <2>3 DEF CloseListener
    <3>2. <<>> \in Seq(Client)
      BY EmptySeq
    <3> QED
      BY <2>3, <3>1, <3>2 DEF CloseListener
  <2>4. ASSUME NEW d \in Daemon, Exit(d) PROVE TypeOK'
    BY <2>4 DEF Exit, Empty
  <2>5. ASSUME NEW d \in Daemon, Killed(d) PROVE TypeOK'
    <3>1. reply' \in [Client -> Reply \cup {None}]
      BY <2>2, <2>5 DEF Killed
    <3>2. <<>> \in Seq(Client) /\ Empty \in [Name -> Value \cup {None}]
      BY EmptySeq DEF Empty
    <3>3. /\ path' = path /\ phase' = phase /\ request' = request /\ gone' = gone
          /\ at' = [at EXCEPT ![d] = "dead"] /\ store' = [store EXCEPT ![d] = Empty]
          /\ queue' = [queue EXCEPT ![d] = <<>>] /\ serving' = [serving EXCEPT ![d] = None]
      BY <2>5 DEF Killed
    <3>4. /\ at' \in [Daemon -> {"new", "unlinked", "bound", "accept", "read", "answered",
                                 "leaving", "closed", "failed", "dead"}]
          /\ store' \in [Daemon -> [Name -> Value \cup {None}]]
          /\ queue' \in [Daemon -> Seq(Client)] /\ serving' \in [Daemon -> Client \cup {None}]
      BY <3>2, <3>3
    <3>5. \A e \in Daemon : /\ serving'[e] # None <=> at'[e] \in {"read", "answered"}
                            /\ queue'[e] # <<>> => at'[e] \in Listening
      BY <3>3
    <3> QED
      BY <3>1, <3>3, <3>4, <3>5
  <2>6. ASSUME NEW d \in Daemon, Accept(d) PROVE TypeOK'
    <3>1. Head(queue[d]) \in Client /\ Tail(queue[d]) \in Seq(Client)
      BY <2>6, Leave DEF Accept
    <3> QED
      BY <2>6, <3>1 DEF Accept
  <2>7. ASSUME NEW d \in Daemon, NEW r \in Request, Serve(d, r) PROVE TypeOK'
    <3>1. ASSUME NEW a \in Reply, Answer(d, r, a), store' \in [Daemon -> [Name -> Value \cup {None}]]
          PROVE  TypeOK'
      BY <3>1 DEF Answer
    <3>2. CASE ServeSet(d, r)
      <4>1. r.name \in Name /\ r.value \in Value
        BY <3>2 DEF ServeSet, Request
      <4>2. store' \in [Daemon -> [Name -> Value \cup {None}]]
        <5>1. CASE store' = store
          BY <5>1
        <5>2. CASE store' = [store EXCEPT ![d][r.name] = r.value]
          <6>1. [store[d] EXCEPT ![r.name] = r.value] \in [Name -> Value \cup {None}]
            BY <4>1
          <6> QED
            BY <5>2, <6>1
        <5> QED
          BY <3>2, <5>1, <5>2 DEF ServeSet
      <4>3. Answer(d, r, <<"OK">>) \/ Answer(d, r, <<"ERR">>)
        BY <3>2 DEF ServeSet
      <4> QED
        BY <3>1, <4>2, <4>3 DEF Reply
    <3>3. CASE ServeGet(d, r)
      <4>1. r.name \in Name
        BY <3>3 DEF ServeGet, Request
      <4>2. (IF store[d][r.name] = None THEN <<"ERR">> ELSE <<"VAL", store[d][r.name]>>) \in Reply
        BY <4>1 DEF Reply
      <4> QED
        BY <3>1, <3>3, <4>2 DEF ServeGet
    <3>4. CASE ServeDel(d, r)
      <4>1. r.name \in Name
        BY <3>4 DEF ServeDel, Request
      <4> QED
        BY <3>1, <3>4, <4>1 DEF ServeDel, Reply
    <3>5. CASE ServeList(d, r)
      <4>1. <<"LIST", {n \in Name : store[d][n] # None}>> \in Reply
        BY DEF Reply
      <4>2. \E a \in Reply : Answer(d, r, a)
        BY <3>5, <4>1, Zenon DEF ServeList
      <4>3. store' = store
        BY <3>5 DEF ServeList
      <4> QED
        BY <3>1, <4>2, <4>3
    <3>6. CASE ServeClear(d, r)
      BY <3>1, <3>6 DEF ServeClear, Reply, Empty
    <3>7. CASE ServeShutdown(d, r)
      BY <3>1, <3>7 DEF ServeShutdown, Reply
    <3> QED
      BY <2>7, <3>2, <3>3, <3>4, <3>5, <3>6, <3>7 DEF Serve
  <2>8. ASSUME NEW d \in Daemon, ShortRead(d) \/ HangUp(d) PROVE TypeOK'
    <3>1. CASE ShortRead(d)
      BY <3>1 DEF ShortRead, Reply
    <3>2. CASE HangUp(d)
      BY <3>2 DEF HangUp
    <3> QED
      BY <2>8, <3>1, <3>2
  <2>9. ASSUME NEW c \in Client, NEW r \in Request, Connect(c, r) PROVE TypeOK'
    <3>1. CASE path # None /\ at[path] \in Listening
      <4>1. Append(queue[path], c) \in Seq(Client)
        BY <3>1, Join
      <4>2. queue' = [queue EXCEPT ![path] = Append(queue[path], c)]
        BY <2>9, <3>1 DEF Connect
      <4>3. /\ queue' \in [Daemon -> Seq(Client)]
            /\ \A d \in Daemon : queue'[d] # <<>> => at[d] \in Listening
        BY <3>1, <4>1, <4>2
      <4>4. /\ phase' = [phase EXCEPT ![c] = "connected"]
            /\ request' = [request EXCEPT ![c] = r]
            /\ path' = path /\ at' = at /\ store' = store /\ serving' = serving
            /\ reply' = reply /\ gone' = gone
        BY <2>9, <3>1 DEF Connect
      <4> QED
        BY <4>3, <4>4
    <3>2. CASE ~(path # None /\ at[path] \in Listening)
      BY <2>9, <3>2 DEF Connect
    <3> QED
      BY <3>1, <3>2
  <2>10. ASSUME NEW c \in Client, Call(c) \/ ClientKilled(c) PROVE TypeOK'
    BY <2>10 DEF Call, Send, Receive, ClientKilled
  <2>11. CASE UNCHANGED vars
    BY <2>11 DEF vars
  <2> QED
    BY <2>1, <2>3, <2>4, <2>5, <2>6, <2>7, <2>8, <2>9, <2>10, <2>11 DEF Next, Live
<1> QED
  BY <1>1, <1>2, PTL DEF Spec
-----------------------------------------------------------------------------
LEMMA WaitingClients ==
    ASSUME TypeOK, NEW d \in Daemon
    PROVE  Waiting(d) = Members(queue[d]) /\ Waiting(d) \subseteq Client
<1>1. queue[d] \in Seq(Client)
  BY DEF TypeOK
<1> QED
  BY <1>1, ElementOfSeq, LenProperties DEF Waiting, Members

(* Most actions leave the queues and the served clients alone, or empty    *)
(* some of them.                                                           *)
LEMMA FewerPlaces ==
    ASSUME TypeOK, Places,
           \A d \in Daemon : queue'[d] \in {queue[d], <<>>} /\ serving'[d] \in {serving[d], None}
    PROVE  Places'
<1>1. \A d \in Daemon : Waiting(d)' \subseteq Waiting(d) /\ Waiting(d) \subseteq Client
  BY WaitingClients DEF Waiting
<1>2. None \notin Client
  BY NoneAssumption
<1>3. (\A d \in Daemon : \A i, j \in DOMAIN queue[d] : queue[d][i] = queue[d][j] => i = j)'
  BY DEF Places
<1>4. (\A d, e \in Daemon : d # e => Waiting(d) \cap Waiting(e) = {})'
  BY <1>1 DEF Places
<1>5. (\A d, e \in Daemon : serving[d] \notin Waiting(e))'
  BY <1>1, <1>2 DEF Places
<1>6. (\A d, e \in Daemon : serving[d] = serving[e] /\ serving[d] # None => d = e)'
  BY DEF Places
<1> QED
  BY <1>3, <1>4, <1>5, <1>6 DEF Places

LEMMA StepPlaces ==
    ASSUME TypeOK, Places, Unanswered, [Next]_vars
    PROVE  Places'
<1> USE DEF process, socket, client
<1>1. ASSUME NEW d \in Daemon, Accept(d) PROVE Places'
  <2> DEFINE q == queue[d]
  <2>1. q \in Seq(Client) /\ q # <<>>
    BY <1>1 DEF TypeOK, Accept
  <2>2. /\ queue' = [queue EXCEPT ![d] = Tail(q)] /\ serving' = [serving EXCEPT ![d] = Head(q)]
        /\ serving[d] = None
    BY <1>1 DEF TypeOK, Accept
  <2>3. Distinct(q)
    BY DEF Places, Distinct
  <2>4. /\ Head(q) \in Waiting(d) /\ Distinct(Tail(q))
        /\ Head(q) \notin Members(Tail(q)) /\ Members(Tail(q)) \subseteq Waiting(d)
    BY <2>1, <2>3, Leave, WaitingClients
  <2>5. /\ queue'[d] = Tail(q) /\ Waiting(d)' = Members(Tail(q))
        /\ \A e \in Daemon \ {d} : queue'[e] = queue[e] /\ Waiting(e)' = Waiting(e)
    BY <2>2 DEF TypeOK, Waiting, Members
  <2>6. serving'[d] = Head(q) /\ \A e \in Daemon \ {d} : serving'[e] = serving[e]
    BY <2>2 DEF TypeOK
  <2>7. (\A e \in Daemon : \A i, j \in DOMAIN queue[e] : queue[e][i] = queue[e][j] => i = j)'
    BY <2>4, <2>5 DEF Places, Distinct
  <2>8. (\A e, f \in Daemon : e # f => Waiting(e) \cap Waiting(f) = {})'
    BY <2>4, <2>5 DEF Places
  <2>9. (\A e, f \in Daemon : serving[e] \notin Waiting(f))'
    <3>1. ASSUME NEW f \in Daemon PROVE Head(q) \notin Waiting(f)'
      BY <2>4, <2>5 DEF Places
    <3>2. ASSUME NEW e \in Daemon \ {d}, NEW f \in Daemon PROVE serving[e] \notin Waiting(f)'
      BY <2>4, <2>5 DEF Places
    <3> QED
      BY <2>6, <3>1, <3>2
  <2>10. (\A e, f \in Daemon : serving[e] = serving[f] /\ serving[e] # None => e = f)'
    <3>1. \A e \in Daemon : serving[e] # Head(q)
      BY <2>4 DEF Places
    <3> QED
      BY <2>6, <3>1 DEF Places
  <2> QED
    BY <2>7, <2>8, <2>9, <2>10 DEF Places
<1>2. ASSUME NEW c \in Client, NEW r \in Request, Connect(c, r) PROVE Places'
  <2>1. CASE ~(path # None /\ at[path] \in Listening)
    BY <1>2, <2>1, FewerPlaces DEF Connect
  <2>2. CASE path # None /\ at[path] \in Listening
    <3>0. PICK p \in Daemon : p = path
      BY <2>2 DEF TypeOK
    <3>1. /\ queue[p] \in Seq(Client)
          /\ queue' = [queue EXCEPT ![p] = Append(queue[p], c)] /\ serving' = serving
      BY <1>2, <2>2, <3>0 DEF TypeOK, Connect
    <3>2. \A d \in Daemon : c \notin Waiting(d) /\ serving[d] # c
      BY <1>2, NoneAssumption DEF Connect, Unanswered, Asked
    <3>3. /\ Waiting(p)' = Members(Append(queue[p], c))
          /\ \A d \in Daemon \ {p} : queue'[d] = queue[d] /\ Waiting(d)' = Waiting(d)
          /\ queue'[p] = Append(queue[p], c)
      BY <3>1 DEF TypeOK, Waiting, Members
    <3>4. Waiting(p)' = Waiting(p) \cup {c} /\ Distinct(queue'[p])
      <4>1. Distinct(queue[p]) /\ c \notin Members(queue[p])
        BY <3>1, <3>2, WaitingClients DEF Places, Distinct
      <4> QED
        BY <3>1, <3>3, <4>1, Join, WaitingClients
    <3>5. (\A d \in Daemon : \A i, j \in DOMAIN queue[d] : queue[d][i] = queue[d][j] => i = j)'
      BY <3>3, <3>4 DEF Places, Distinct
    <3>6. (\A d, e \in Daemon : d # e => Waiting(d) \cap Waiting(e) = {})'
      BY <3>2, <3>3, <3>4 DEF Places
    <3>7. (\A d, e \in Daemon : serving[d] \notin Waiting(e))'
      BY <3>1, <3>2, <3>3, <3>4 DEF Places
    <3> QED
      BY <3>1, <3>5, <3>6, <3>7 DEF Places
  <2> QED
    BY <2>1, <2>2
<1>3. ASSUME NEW d \in Daemon, Start(d) \/ Bind(d) \/ Listen(d) \/ CloseListener(d) \/ Exit(d)
      PROVE Places'
  BY <1>3, FewerPlaces DEF TypeOK, Start, Bind, Listen, CloseListener, Exit
<1>4. ASSUME NEW d \in Daemon, Killed(d) PROVE Places'
  BY <1>4, FewerPlaces DEF TypeOK, Killed
<1>5. ASSUME NEW d \in Daemon, NEW r \in Request, Serve(d, r) PROVE Places'
  <2>1. PICK a : Answer(d, r, a)
    BY <1>5 DEF Serve, ServeSet, ServeGet, ServeDel, ServeList, ServeClear, ServeShutdown
  <2> QED
    BY <2>1, FewerPlaces DEF TypeOK, Answer
<1>6. ASSUME NEW d \in Daemon, ShortRead(d) \/ HangUp(d) PROVE Places'
  BY <1>6, FewerPlaces DEF TypeOK, ShortRead, HangUp
<1>7. ASSUME NEW c \in Client, Call(c) \/ ClientKilled(c) PROVE Places'
  BY <1>7, FewerPlaces DEF Call, Send, Receive, ClientKilled
<1>8. CASE UNCHANGED vars
  BY <1>8, FewerPlaces DEF vars
<1> QED
  BY <1>1, <1>2, <1>3, <1>4, <1>5, <1>6, <1>7, <1>8 DEF Next, Live
-----------------------------------------------------------------------------
LEMMA StillUnanswered ==
    ASSUME TypeOK, Unanswered,
           \A d \in Daemon : queue'[d] \in {queue[d], <<>>} /\ serving'[d] \in {serving[d], None},
           \A c \in Client : phase[c] \in Asked => phase'[c] \in Asked,
           \A d \in Daemon : \A c \in Waiting(d)' : reply'[c] = None,
           \A d \in Daemon : at'[d] = "read" => reply'[serving'[d]] = None
    PROVE  Unanswered'
<1>1. \A d \in Daemon : Waiting(d)' \subseteq Waiting(d) /\ Waiting(d) \subseteq Client
  BY WaitingClients DEF Waiting
<1>2. (\A d \in Daemon : \A c \in Waiting(d) : phase[c] \in Asked /\ reply[c] = None)'
  BY <1>1 DEF Unanswered
<1>3. (\A d \in Daemon : serving[d] # None => phase[serving[d]] \in Asked)'
  BY DEF Unanswered, TypeOK
<1>4. (\A d \in Daemon : at[d] = "read" => reply[serving[d]] = None)'
  OBVIOUS
<1> QED
  BY <1>2, <1>3, <1>4 DEF Unanswered

LEMMA StepUnanswered ==
    ASSUME TypeOK, Places, Unanswered, Requests, [Next]_vars
    PROVE  Unanswered'
<1> USE DEF process, socket, client
<1>1. ASSUME NEW d \in Daemon, Start(d) \/ Bind(d) \/ Listen(d) \/ Exit(d) PROVE Unanswered'
  <2>1. UNCHANGED <<socket, client>> /\ \A e \in Daemon : at'[e] = "read" => at[e] = "read"
    BY <1>1 DEF TypeOK, Start, Bind, Listen, Exit
  <2> QED
    BY <2>1 DEF Unanswered, Waiting
<1>2. ASSUME NEW d \in Daemon, CloseListener(d) PROVE Unanswered'
  <2>1. /\ queue' = [queue EXCEPT ![d] = <<>>] /\ serving' = serving /\ phase' = phase
        /\ at' = [at EXCEPT ![d] = "closed"]
        /\ CutOff(Waiting(d))
    BY <1>2 DEF CloseListener
  <2>2. Waiting(d)' = {} /\ \A e \in Daemon \ {d} : Waiting(e)' = Waiting(e) /\ Waiting(e) \subseteq Client
    BY <2>1, WaitingClients DEF TypeOK, Waiting
  <2>3. \A c \in Client \ Waiting(d) : reply'[c] = reply[c]
    BY <2>1 DEF CutOff, TypeOK
  <2>4. \A e \in Daemon : \A c \in Waiting(e)' : reply'[c] = None
    BY <2>2, <2>3 DEF Unanswered, Places
  <2>5. \A e \in Daemon : at'[e] = "read" => reply'[serving'[e]] = None
    <3> SUFFICES ASSUME NEW e \in Daemon, at'[e] = "read" PROVE reply'[serving[e]] = None
      BY <2>1
    <3>1. at[e] = "read" /\ serving[e] \in Client /\ serving[e] \notin Waiting(d)
      BY <2>1 DEF TypeOK, Places
    <3> QED
      BY <2>3, <3>1 DEF Unanswered
  <2> QED
    BY <2>1, <2>4, <2>5, StillUnanswered DEF TypeOK
<1>3. ASSUME NEW d \in Daemon, Killed(d) PROVE Unanswered'
  <2> DEFINE cut == Waiting(d) \cup ({serving[d]} \ {None})
  <2>1. /\ queue' = [queue EXCEPT ![d] = <<>>] /\ serving' = [serving EXCEPT ![d] = None]
        /\ phase' = phase /\ at' = [at EXCEPT ![d] = "dead"]
        /\ CutOff(cut)
    BY <1>3 DEF Killed
  <2>2. Waiting(d)' = {} /\ \A e \in Daemon \ {d} : Waiting(e)' = Waiting(e) /\ Waiting(e) \subseteq Client
    BY <2>1, WaitingClients DEF TypeOK, Waiting
  <2>3. \A c \in Client \ cut : reply'[c] = reply[c]
    BY <2>1 DEF CutOff, TypeOK
  <2>4. \A e \in Daemon : \A c \in Waiting(e)' : reply'[c] = None
    BY <2>2, <2>3 DEF Unanswered, Places
  <2>5. \A e \in Daemon : at'[e] = "read" => reply'[serving'[e]] = None
    <3> SUFFICES ASSUME NEW e \in Daemon, at'[e] = "read" PROVE reply'[serving'[e]] = None
      OBVIOUS
    <3>1. e # d /\ at[e] = "read" /\ serving[e] \in Client /\ serving'[e] = serving[e]
      BY <2>1 DEF TypeOK
    <3>2. serving[e] \notin cut
      BY <3>1, NoneAssumption DEF Places
    <3> QED
      BY <2>3, <3>1, <3>2 DEF Unanswered
  <2> QED
    BY <2>1, <2>4, <2>5, StillUnanswered DEF TypeOK
<1>4. ASSUME NEW d \in Daemon, Accept(d) PROVE Unanswered'
  <2>1. /\ queue[d] \in Seq(Client) /\ queue[d] # <<>>
        /\ queue' = [queue EXCEPT ![d] = Tail(queue[d])]
        /\ serving' = [serving EXCEPT ![d] = Head(queue[d])]
        /\ at' = [at EXCEPT ![d] = "read"] /\ phase' = phase /\ reply' = reply
    BY <1>4 DEF TypeOK, Accept
  <2>2. Head(queue[d]) \in Waiting(d) /\ Members(Tail(queue[d])) \subseteq Waiting(d)
    BY <2>1, Leave, WaitingClients
  <2>3. \A e \in Daemon : Waiting(e)' \subseteq Waiting(e)
    BY <2>1, <2>2 DEF TypeOK, Waiting, Members
  <2>4. \A e \in Daemon \ {d} : serving'[e] = serving[e] /\ at'[e] = at[e]
    BY <2>1 DEF TypeOK
  <2>5. serving'[d] = Head(queue[d])
    BY <2>1 DEF TypeOK
  <2> QED
    BY <2>1, <2>2, <2>3, <2>4, <2>5 DEF Unanswered
<1>5. ASSUME NEW d \in Daemon, NEW a, at[d] = "read", reply' = [reply EXCEPT ![serving[d]] = a],
             queue' = queue, phase' = phase, serving'[d] \in {serving[d], None},
             \A e \in Daemon \ {d} : serving'[e] = serving[e] /\ at'[e] = at[e], at'[d] # "read"
      PROVE  Unanswered'
  <2>1. serving[d] \in Client
    BY <1>5 DEF TypeOK
  <2>2. \A c \in Client \ {serving[d]} : reply'[c] = reply[c]
    BY <1>5 DEF TypeOK
  <2>3. \A e \in Daemon : Waiting(e)' = Waiting(e) /\ Waiting(e) \subseteq Client
    BY <1>5, WaitingClients DEF Waiting
  <2>4. \A e \in Daemon : \A c \in Waiting(e)' : reply'[c] = None
    BY <2>2, <2>3 DEF Unanswered, Places
  <2>5. \A e \in Daemon : at'[e] = "read" => reply'[serving'[e]] = None
    <3> SUFFICES ASSUME NEW e \in Daemon, at'[e] = "read" PROVE reply'[serving'[e]] = None
      OBVIOUS
    <3>1. e # d /\ at[e] = "read" /\ serving[e] \in Client /\ serving'[e] = serving[e]
      BY <1>5 DEF TypeOK
    <3>2. serving[e] # serving[d]
      BY <2>1, <3>1, NoneAssumption DEF Places
    <3> QED
      BY <2>2, <3>1, <3>2 DEF Unanswered
  <2> QED
    BY <1>5, <2>4, <2>5, StillUnanswered
<1>6. ASSUME NEW d \in Daemon, NEW r \in Request, Serve(d, r) PROVE Unanswered'
  <2>1. PICK a : Answer(d, r, a)
    BY <1>6 DEF Serve, ServeSet, ServeGet, ServeDel, ServeList, ServeClear, ServeShutdown
  <2> QED
    BY <1>5, <2>1 DEF TypeOK, Answer
<1>7. ASSUME NEW d \in Daemon, ShortRead(d) PROVE Unanswered'
  BY <1>5, <1>7 DEF TypeOK, ShortRead
<1>8. ASSUME NEW d \in Daemon, HangUp(d) PROVE Unanswered'
  <2>1. /\ serving' = [serving EXCEPT ![d] = None] /\ at' = [at EXCEPT ![d] = "accept"]
        /\ queue' = queue /\ phase' = phase /\ reply' = reply
    BY <1>8 DEF HangUp
  <2> QED
    BY <2>1 DEF TypeOK, Unanswered, Waiting
<1>9. ASSUME NEW c \in Client, NEW r \in Request, Connect(c, r) PROVE Unanswered'
  <2>1. CASE ~(path # None /\ at[path] \in Listening)
    <3>1. /\ UNCHANGED <<at, queue, serving, reply>> /\ phase[c] = "idle"
          /\ phase' = [phase EXCEPT ![c] = "refused"]
      BY <1>9, <2>1 DEF Connect
    <3>2. \A b \in Client : phase[b] \in Asked => phase'[b] \in Asked
      BY <3>1 DEF TypeOK, Asked
    <3>3. \A d \in Daemon : Waiting(d)' = Waiting(d)
      BY <3>1 DEF Waiting
    <3> QED
      BY <3>1, <3>2, <3>3, StillUnanswered DEF Unanswered
  <2>2. CASE path # None /\ at[path] \in Listening
    <3>0. PICK p \in Daemon : p = path
      BY <2>2 DEF TypeOK
    <3>1. /\ queue[p] \in Seq(Client)
          /\ queue' = [queue EXCEPT ![p] = Append(queue[p], c)] /\ serving' = serving
          /\ phase' = [phase EXCEPT ![c] = "connected"] /\ reply' = reply /\ at' = at
      BY <1>9, <2>2, <3>0 DEF TypeOK, Connect
    <3>2. Waiting(p)' = Waiting(p) \cup {c}
      <4>1. Waiting(p)' = Members(Append(queue[p], c))
        BY <3>1 DEF TypeOK, Waiting, Members
      <4> QED
        BY <3>1, <4>1, Join, WaitingClients
    <3>3. \A d \in Daemon \ {p} : Waiting(d)' = Waiting(d)
      BY <3>1 DEF TypeOK, Waiting
    <3>4. reply[c] = None /\ phase'[c] \in Asked
          /\ \A b \in Client : phase[b] \in Asked => phase'[b] \in Asked
      BY <1>9, <3>1 DEF Connect, Requests, Asked, TypeOK
    <3>5. \A d \in Daemon : Waiting(d) \subseteq Client
      BY WaitingClients
    <3>6. (\A d \in Daemon : \A b \in Waiting(d) : phase[b] \in Asked /\ reply[b] = None)'
      BY <3>1, <3>2, <3>3, <3>4, <3>5 DEF Unanswered
    <3>7. (\A d \in Daemon : serving[d] # None => phase[serving[d]] \in Asked)'
      BY <3>1, <3>4 DEF TypeOK, Unanswered
    <3> QED
      BY <3>1, <3>6, <3>7 DEF Unanswered
  <2> QED
    BY <2>1, <2>2
<1>10. ASSUME NEW c \in Client, Call(c) \/ ClientKilled(c) PROVE Unanswered'
  <2>1. UNCHANGED <<at, queue, serving, reply>>
    BY <1>10 DEF Call, Send, Receive, ClientKilled
  <2>2. \A b \in Client : phase[b] \in Asked => phase'[b] \in Asked
    <3>1. CASE Send(c)
      <4>1. phase' = [phase EXCEPT ![c] = "half"] \/ phase' = [phase EXCEPT ![c] = "sent"]
        BY <3>1 DEF Send
      <4> QED
        BY <4>1 DEF TypeOK, Asked
    <3>2. CASE Receive(c) \/ ClientKilled(c)
      BY <3>2 DEF Receive, ClientKilled
    <3> QED
      BY <1>10, <3>1, <3>2 DEF Call
  <2>3. \A d \in Daemon : Waiting(d)' = Waiting(d)
    BY <2>1 DEF Waiting
  <2> QED
    BY <2>1, <2>2, <2>3, StillUnanswered DEF Unanswered
<1>11. CASE UNCHANGED vars
  BY <1>11 DEF vars, Unanswered, Waiting
<1> QED
  BY <1>1, <1>2, <1>3, <1>4, <1>6, <1>7, <1>8, <1>9, <1>10, <1>11 DEF Next, Live
-----------------------------------------------------------------------------
(* A call keeps its request, and what has been sent stays sent.            *)
LEMMA CallsStay ==
    ASSUME TypeOK, [Next]_vars
    PROVE  \A b \in Client :
              /\ phase[b] # "idle" => request'[b] = request[b]
              /\ phase[b] = "sent" => phase'[b] = "sent"
<1> USE DEF process, socket, client
<1>1. ASSUME NEW d \in Daemon, Start(d) \/ Bind(d) \/ Listen(d) \/ CloseListener(d) \/ Exit(d) \/ Killed(d)
      PROVE phase' = phase /\ request' = request
  BY <1>1 DEF Start, Bind, Listen, CloseListener, Exit, Killed
<1>2. ASSUME NEW d \in Daemon, NEW r \in Request, Serve(d, r)
      PROVE phase' = phase /\ request' = request
  BY <1>2 DEF Serve, ServeSet, ServeGet, ServeDel, ServeList, ServeClear, ServeShutdown, Answer
<1>3. ASSUME NEW d \in Daemon, Accept(d) \/ ShortRead(d) \/ HangUp(d)
      PROVE phase' = phase /\ request' = request
  BY <1>3 DEF Accept, ShortRead, HangUp
<1>4. ASSUME NEW c \in Client, NEW r \in Request, Connect(c, r)
      PROVE \A b \in Client : phase[b] # "idle" => request'[b] = request[b] /\ phase'[b] = phase[b]
  BY <1>4 DEF Connect, TypeOK
<1>5. ASSUME NEW c \in Client, Call(c) \/ ClientKilled(c)
      PROVE request' = request /\ \A b \in Client : phase[b] = "sent" => phase'[b] = "sent"
  BY <1>5 DEF Call, Send, Receive, ClientKilled, TypeOK
<1>6. CASE UNCHANGED vars
  BY <1>6 DEF vars
<1> QED
  BY <1>1, <1>2, <1>3, <1>4, <1>5, <1>6 DEF Next, Live

LEMMA StepRequests ==
    ASSUME TypeOK, Unanswered, Requests, [Next]_vars
    PROVE  Requests'
<1> USE DEF process, socket, client
<1>1. ASSUME NEW cs, cs \subseteq Client, \A c \in cs : phase[c] \in Asked,
             \A c \in Client \ cs : reply'[c] = reply[c], phase' = phase, request' = request
      PROVE Requests'
  BY <1>1 DEF Requests, Asked
<1>2. ASSUME NEW d \in Daemon, NEW cs, CutOff(cs), cs \subseteq Waiting(d) \cup ({serving[d]} \ {None}),
             phase' = phase, request' = request
      PROVE Requests'
  <2>1. cs \subseteq Client /\ \A c \in cs : phase[c] \in Asked
    BY <1>2, WaitingClients DEF Unanswered, TypeOK
  <2>2. \A c \in Client \ cs : reply'[c] = reply[c]
    BY <1>2 DEF CutOff
  <2> QED
    BY <1>1, <1>2, <2>1, <2>2
<1>3. ASSUME NEW d \in Daemon, CloseListener(d) \/ Killed(d) PROVE Requests'
  BY <1>2, <1>3 DEF CloseListener, Killed
<1>4. ASSUME NEW d \in Daemon, NEW a, serving[d] # None, reply' = [reply EXCEPT ![serving[d]] = a],
             phase' = phase, request' = request
      PROVE Requests'
  <2> DEFINE cs == {serving[d]}
  <2>1. cs \subseteq Client /\ \A c \in cs : phase[c] \in Asked
    BY <1>4 DEF TypeOK, Unanswered
  <2>2. \A c \in Client \ cs : reply'[c] = reply[c]
    BY <1>4 DEF TypeOK
  <2> HIDE DEF cs
  <2> QED
    BY <1>1, <1>4, <2>1, <2>2
<1>5. ASSUME NEW d \in Daemon, NEW r \in Request, Serve(d, r) PROVE Requests'
  <2>1. PICK a : Answer(d, r, a)
    BY <1>5 DEF Serve, ServeSet, ServeGet, ServeDel, ServeList, ServeClear, ServeShutdown
  <2> QED
    BY <1>4, <2>1 DEF Answer
<1>6. ASSUME NEW d \in Daemon, ShortRead(d) PROVE Requests'
  BY <1>4, <1>6 DEF TypeOK, ShortRead
<1>7. ASSUME NEW d \in Daemon, Start(d) \/ Bind(d) \/ Listen(d) \/ Exit(d) \/ Accept(d) \/ HangUp(d)
      PROVE Requests'
  BY <1>7 DEF Start, Bind, Listen, Exit, Accept, HangUp, Requests
<1>8. ASSUME NEW c \in Client, NEW r \in Request, Connect(c, r) PROVE Requests'
  <2>1. /\ reply' = reply /\ phase[c] = "idle"
        /\ \A b \in Client \ {c} : phase'[b] = phase[b] /\ request'[b] = request[b]
        /\ \/ phase'[c] = "connected" /\ request'[c] = r
           \/ phase'[c] = "refused" /\ request'[c] = request[c]
    BY <1>8 DEF Connect, TypeOK
  <2> QED
    BY <2>1 DEF Requests, Asked
<1>9. ASSUME NEW c \in Client, Call(c) \/ ClientKilled(c) PROVE Requests'
  <2>1. CASE Send(c)
    <3>1. /\ reply' = reply /\ request' = request /\ phase[c] \in Asked /\ phase'[c] \in Asked
          /\ phase'[c] = "half" => request[c].op = "set"
          /\ \A b \in Client \ {c} : phase'[b] = phase[b]
      BY <2>1 DEF Send, TypeOK, Asked
    <3> QED
      BY <3>1 DEF Requests, Asked
  <2>2. CASE Receive(c) \/ ClientKilled(c)
    BY <2>2 DEF Receive, ClientKilled, Requests
  <2> QED
    BY <1>9, <2>1, <2>2 DEF Call
<1>10. CASE UNCHANGED vars
  BY <1>10 DEF vars, Requests
<1> QED
  BY <1>3, <1>5, <1>6, <1>7, <1>8, <1>9, <1>10 DEF Next, Live

-----------------------------------------------------------------------------
(* SetBy(n, v): some call has sent all of v for the name n.                *)
SetBy(n, v) ==
    \E b \in Client : phase[b] = "sent" /\ request[b] = [op |-> "set", name |-> n, value |-> v]

LEMMA SetStays == ASSUME TypeOK, [Next]_vars, NEW n, NEW v, SetBy(n, v) PROVE SetBy(n, v)'
  BY CallsStay DEF SetBy

LEMMA StepGenuine ==
    ASSUME TypeOK, Genuine, [Next]_vars
    PROVE  Genuine'
<1> USE DEF process, socket, client
<1>1. SUFFICES ASSUME NEW d \in Daemon, NEW n \in Name, NEW v, v = store'[d][n], v # None
               PROVE  SetBy(n, v)'
  BY DEF Genuine, SetBy
<1>2. CASE v = store[d][n]
  BY <1>1, <1>2, SetStays DEF Genuine, SetBy
<1>3. ASSUME NEW e \in Daemon, NEW r \in Request, Serve(e, r), v # store[d][n]
      PROVE  SetBy(n, v)'
  <2>1. ServeSet(e, r) /\ store' = [store EXCEPT ![e][r.name] = r.value]
    <3>1. CASE ServeDel(e, r)
      BY <1>1, <1>3, <3>1 DEF ServeDel, TypeOK
    <3>2. CASE ServeClear(e, r)
      BY <1>1, <1>3, <3>2 DEF ServeClear, TypeOK, Empty
    <3> QED
      BY <1>1, <1>3, <3>1, <3>2 DEF Serve, ServeSet, ServeGet, ServeList, ServeShutdown
  <2>2. e = d /\ r.name = n /\ v = r.value
    BY <1>1, <1>3, <2>1 DEF TypeOK
  <2>3. r = [op |-> "set", name |-> n, value |-> v]
    BY <2>1, <2>2 DEF ServeSet, Request
  <2>4. serving[e] \in Client /\ phase[serving[e]] = "sent" /\ request[serving[e]] = r
    BY <2>1 DEF ServeSet, Answer, TypeOK
  <2>5. phase' = phase /\ request' = request
    BY <2>1 DEF ServeSet, Answer
  <2> QED
    BY <2>3, <2>4, <2>5 DEF SetBy
<1>4. ASSUME NEW e \in Daemon, Exit(e) \/ Killed(e), v # store[d][n] PROVE FALSE
  <2>1. store' = [store EXCEPT ![e] = Empty]
    BY <1>4 DEF Exit, Killed
  <2> QED
    BY <1>1, <1>4, <2>1 DEF TypeOK, Empty
<1>5. ASSUME NEW e \in Daemon, Start(e) \/ Bind(e) \/ Listen(e) \/ CloseListener(e) \/ Accept(e)
                               \/ ShortRead(e) \/ HangUp(e)
      PROVE store' = store
  BY <1>5 DEF Start, Bind, Listen, CloseListener, Accept, ShortRead, HangUp
<1>6. ASSUME NEW c \in Client, Call(c) \/ ClientKilled(c) \/ \E r \in Request : Connect(c, r)
      PROVE store' = store
  BY <1>6 DEF Call, Send, Receive, ClientKilled, Connect
<1>7. CASE UNCHANGED vars
  BY <1>1, <1>2, <1>7 DEF vars
<1> QED
  BY <1>1, <1>2, <1>3, <1>4, <1>5, <1>6, <1>7 DEF Next, Live
LEMMA StepTorn ==
    ASSUME TypeOK, Requests, Genuine, NoTornSecret, [Next]_vars
    PROVE  NoTornSecret'
<1> USE DEF process, socket, client
<1>1. ASSUME NEW c \in Client, reply'[c] = reply[c], reply[c] # None, reply[c][1] = "VAL"
      PROVE  request'[c] = request[c] /\ SetBy(request[c].name, reply[c][2])'
  <2>1. SetBy(request[c].name, reply[c][2])
    BY <1>1 DEF NoTornSecret, SetBy
  <2>2. request'[c] = request[c]
    BY <1>1, CallsStay DEF Requests
  <2>3. PICK n, v : n = request[c].name /\ v = reply[c][2]
    OBVIOUS
  <2>4. PICK b \in Client : phase[b] = "sent" /\ request[b] = [op |-> "set", name |-> n, value |-> v]
    BY <2>1, <2>3 DEF SetBy
  <2>5. phase'[b] = "sent" /\ request'[b] = [op |-> "set", name |-> n, value |-> v]
    BY <2>4, CallsStay
  <2>6. reply'[c][2] = v /\ request'[c].name = n
    BY <1>1, <2>2, <2>3
  <2> QED
    BY <2>2, <2>5, <2>6 DEF SetBy
<1>2. ASSUME \A c \in Client : reply'[c] = reply[c] \/ reply'[c][1] # "VAL"
      PROVE  NoTornSecret'
  BY <1>1, <1>2 DEF NoTornSecret, SetBy
<1>3. ASSUME NEW cs, CutOff(cs) PROVE NoTornSecret'
  BY <1>2, <1>3 DEF CutOff
<1>4. ASSUME NEW d \in Daemon, CloseListener(d) \/ Killed(d) PROVE NoTornSecret'
  BY <1>3, <1>4 DEF CloseListener, Killed
<1>5. ASSUME NEW d \in Daemon, NEW a, a[1] # "VAL", reply' = [reply EXCEPT ![serving[d]] = a]
      PROVE  NoTornSecret'
  BY <1>2, <1>5 DEF TypeOK
<1> DEFINE Plain(d) == \/ reply' = [reply EXCEPT ![serving[d]] = <<"OK">>]
                       \/ reply' = [reply EXCEPT ![serving[d]] = <<"ERR">>]
<1>plain. ASSUME NEW d \in Daemon, Plain(d) PROVE NoTornSecret'
  <2>1. <<"OK">>[1] # "VAL" /\ <<"ERR">>[1] # "VAL"
    OBVIOUS
  <2> QED
    BY <1>5, <1>plain, <2>1
<1>6. ASSUME NEW d \in Daemon, NEW r \in Request, Serve(d, r) PROVE NoTornSecret'
  <2>1. CASE ServeGet(d, r)
    <3>1. /\ r.name \in Name /\ serving[d] \in Client /\ request[serving[d]] = r
          /\ phase' = phase /\ request' = request
      BY <2>1 DEF ServeGet, Answer, Request, TypeOK
    <3>2. CASE store[d][r.name] = None
      BY <1>plain, <2>1, <3>2 DEF ServeGet, Answer
    <3>3. CASE store[d][r.name] # None
      <4>1. reply' = [reply EXCEPT ![serving[d]] = <<"VAL", store[d][r.name]>>]
        BY <2>1, <3>3 DEF ServeGet, Answer
      <4>2. SetBy(r.name, store[d][r.name])
        BY <3>1, <3>3 DEF Genuine, SetBy
      <4>3. \A c \in Client \ {serving[d]} : reply'[c] = reply[c]
        BY <4>1 DEF TypeOK
      <4>4. reply'[serving[d]] = <<"VAL", store[d][r.name]>>
        BY <3>1, <4>1 DEF TypeOK
      <4>5. SUFFICES ASSUME NEW c \in Client, reply'[c] # None, reply'[c][1] = "VAL"
                     PROVE  \E b \in Client :
                               /\ request'[b] = [op |-> "set", name |-> request'[c].name, value |-> reply'[c][2]]
                               /\ phase'[b] = "sent"
        BY DEF NoTornSecret
      <4>6. CASE c = serving[d]
        BY <3>1, <4>2, <4>4, <4>6 DEF SetBy
      <4>7. CASE c # serving[d]
        BY <3>1, <4>3, <4>5, <4>7 DEF NoTornSecret
      <4> QED
        BY <4>6, <4>7
    <3> QED
      BY <3>2, <3>3
  <2>2. CASE ServeSet(d, r)
    BY <1>plain, <2>2 DEF ServeSet, Answer
  <2>3. CASE ServeDel(d, r)
    BY <1>plain, <2>3 DEF ServeDel, Answer
  <2>4. CASE ServeList(d, r)
    <3> DEFINE a == <<"LIST", {n \in Name : store[d][n] # None}>>
    <3>1. a[1] # "VAL" /\ reply' = [reply EXCEPT ![serving[d]] = a]
      BY <2>4 DEF ServeList, Answer
    <3> HIDE DEF a
    <3> QED
      BY <1>5, <3>1
  <2>5. CASE ServeClear(d, r) \/ ServeShutdown(d, r)
    BY <1>plain, <2>5 DEF ServeClear, ServeShutdown, Answer
  <2> QED
    BY <1>6, <2>1, <2>2, <2>3, <2>4, <2>5 DEF Serve
<1>7. ASSUME NEW d \in Daemon, ShortRead(d) PROVE NoTornSecret'
  BY <1>plain, <1>7 DEF ShortRead
<1>8. ASSUME NEW d \in Daemon, Start(d) \/ Bind(d) \/ Listen(d) \/ Exit(d) \/ Accept(d) \/ HangUp(d)
      PROVE NoTornSecret'
  BY <1>2, <1>8 DEF Start, Bind, Listen, Exit, Accept, HangUp
<1>9. ASSUME NEW c \in Client, Call(c) \/ ClientKilled(c) \/ \E r \in Request : Connect(c, r)
      PROVE NoTornSecret'
  BY <1>2, <1>9 DEF Call, Send, Receive, ClientKilled, Connect
<1>10. CASE UNCHANGED vars
  BY <1>2, <1>10 DEF vars
<1> QED
  BY <1>4, <1>6, <1>7, <1>8, <1>9, <1>10 DEF Next, Live

-----------------------------------------------------------------------------
(* The invariant holds in every reachable state, whenever daemons are      *)
(* started.                                                                *)
THEOREM Inductive == Spec => []IInv
<1>1. Init => Places /\ Unanswered /\ Requests /\ Genuine /\ NoTornSecret
  BY DEF Init, Places, Unanswered, Requests, Genuine, NoTornSecret, Waiting, Asked, Empty
<1>2. IInv /\ [Next]_vars => Places' /\ Unanswered' /\ Requests' /\ Genuine' /\ NoTornSecret'
  BY StepPlaces, StepUnanswered, StepRequests, StepGenuine, StepTorn DEF IInv
<1> QED
  BY <1>1, <1>2, Types, PTL DEF Spec, IInv

(* Every variable keeps its type; a daemon serves a client exactly while   *)
(* it reads or has answered.                                               *)
THEOREM TypeCorrect == Spec => []TypeOK
  BY Types

(* No client is ever given a value whose set had not arrived whole.        *)
THEOREM NoSecretIsTorn == Spec => []NoTornSecret
  BY Inductive, PTL DEF IInv

-----------------------------------------------------------------------------
(* What EveryCallReturns rests on: a call that has reached a daemon and is *)
(* still waiting for its answer is in the hands of a daemon that listens:  *)
(* in its queue, or the one it serves.                                     *)
Held(c) == \E d \in Daemon : at[d] \in Listening /\ (c \in Waiting(d) \/ serving[d] = c)
NobodyIsDropped ==
    \A c \in Client : phase[c] \in Asked /\ reply[c] = None /\ c \notin gone => Held(c)

(* Who holds a client goes on holding it while its queue and its client    *)
(* stay what they are.                                                     *)
LEMMA StillHeld ==
    ASSUME TypeOK, TypeOK', NEW c \in Client, Held(c),
           \A d \in Daemon : c \in Waiting(d) => c \in Waiting(d)' \/ serving'[d] = c,
           \A d \in Daemon : serving[d] = c => serving'[d] = c
    PROVE  Held(c)'
<1>1. PICK d \in Daemon : c \in Waiting(d) \/ serving[d] = c
  BY DEF Held
<1>2. c # None
  BY NoneAssumption
<1>3. c \in Waiting(d)' \/ serving'[d] = c
  BY <1>1
<1>4. at'[d] \in Listening
  <2>1. c \in Waiting(d)' => queue'[d] # <<>>
    BY DEF Waiting
  <2>2. /\ queue'[d] # <<>> => at'[d] \in Listening
        /\ serving'[d] # None => at'[d] \in {"read", "answered"}
    BY DEF TypeOK
  <2> QED
    BY <1>2, <1>3, <2>1, <2>2 DEF Listening
<1> QED
  BY <1>3, <1>4 DEF Held

LEMMA LeavesOne ==
    ASSUME NEW S, NEW s \in Seq(S), s # <<>>
    PROVE  Members(s) = Members(Tail(s)) \cup {Head(s)}
<1>1. /\ DOMAIN s = 1..Len(s) /\ DOMAIN Tail(s) = 1..(Len(s) - 1)
      /\ Len(s) \in Nat \ {0} /\ Head(s) = s[1]
      /\ \A i \in 1..(Len(s) - 1) : Tail(s)[i] = s[i + 1]
  BY HeadTailProperties, LenProperties, EmptySeq
<1>2. ASSUME NEW i \in 1..Len(s) PROVE s[i] \in Members(Tail(s)) \cup {Head(s)}
  <2>1. i = 1 \/ (i - 1 \in 1..(Len(s) - 1) /\ (i - 1) + 1 = i)
    BY <1>1
  <2>2. i # 1 => Tail(s)[i - 1] = s[i]
    BY <1>1, <2>1
  <2> QED
    BY <1>1, <2>1, <2>2 DEF Members
<1> QED
  BY <1>1, <1>2, Leave DEF Members

(* A daemon answers with a reply.                                          *)
LEMMA ServeReplies ==
    ASSUME TypeOK, NEW d \in Daemon, NEW r \in Request, Serve(d, r)
    PROVE  reply'[serving[d]] # None /\ serving[d] \in Client
<1>1. serving[d] \in Client /\ reply \in [Client -> Reply \cup {None}]
  BY DEF TypeOK, Serve, ServeSet, ServeGet, ServeDel, ServeList, ServeClear, ServeShutdown, Answer
<1>2. store[d] \in [Name -> Value \cup {None}]
  BY DEF TypeOK
<1>3. r.op \in {"get", "del", "set"} => r.name \in Name
  BY DEF Request
<1>4. PICK a \in Reply : Answer(d, r, a)
  <2>1. {n \in Name : store[d][n] # None} \in SUBSET Name
    OBVIOUS
  <2>2. CASE ServeGet(d, r)
    <3>1. r.name \in Name
      BY <1>3, <2>2 DEF ServeGet
    <3>2. store[d][r.name] # None => store[d][r.name] \in Value
      BY <1>2, <3>1
    <3> QED
      BY <2>2, <3>2 DEF ServeGet, Reply
  <2> QED
    BY <2>1, <2>2 DEF Serve, ServeSet, ServeDel, ServeList, ServeClear, ServeShutdown, Reply
<1>5. None \notin Reply
  BY NoneAssumption
<1> QED
  BY <1>1, <1>4, <1>5 DEF Answer

(* A client joins the queue of a daemon, and only so does it ask.          *)
LEMMA ConnectJoins ==
    ASSUME TypeOK, NEW c \in Client, NEW r \in Request, Connect(c, r)
    PROVE  /\ \A d \in Daemon : Waiting(d) \subseteq Waiting(d)'
           /\ phase'[c] = "connected" => \E p \in Daemon : at[p] \in Listening /\ c \in Waiting(p)'
<1>1. CASE path # None /\ at[path] \in Listening
  <2>0. PICK p \in Daemon : p = path
    BY <1>1 DEF TypeOK
  <2>1. queue[p] \in Seq(Client) /\ queue' = [queue EXCEPT ![p] = Append(queue[p], c)]
    BY <1>1, <2>0 DEF Connect, TypeOK
  <2>2. Members(Append(queue[p], c)) = Members(queue[p]) \cup {c}
    BY <2>1, Join
  <2>3. /\ Waiting(p)' = Members(Append(queue[p], c))
        /\ \A d \in Daemon \ {p} : Waiting(d)' = Waiting(d)
    BY <2>1 DEF TypeOK, Waiting, Members
  <2> QED
    BY <1>1, <2>0, <2>2, <2>3, WaitingClients
<1>2. CASE ~(path # None /\ at[path] \in Listening)
  BY <1>2 DEF Connect, TypeOK, Waiting
<1> QED
  BY <1>1, <1>2

LEMMA OnlyConnectAsks ==
    ASSUME TypeOK, [Next]_vars, NEW c \in Client, phase'[c] \in Asked, reply'[c] = None, c \notin gone',
           ~(phase[c] \in Asked /\ reply[c] = None /\ c \notin gone)
    PROVE  \E r \in Request : Connect(c, r) /\ phase'[c] = "connected"
<1> USE DEF process, socket, client
<1>1. c \notin gone
  <2>1. ASSUME NEW d \in Daemon, NEW r \in Request, Serve(d, r) PROVE gone' = gone
    BY <2>1 DEF Serve, ServeSet, ServeGet, ServeDel, ServeList, ServeClear, ServeShutdown, Answer
  <2>2. ASSUME NEW d \in Daemon, Start(d) \/ Live(d) \/ Killed(d) PROVE gone' = gone
    BY <2>1, <2>2
       DEF Live, Start, Bind, Listen, CloseListener, Exit, Accept, ShortRead, HangUp, Killed
  <2>3. ASSUME NEW b \in Client, Call(b) \/ ClientKilled(b) PROVE gone \subseteq gone'
    BY <2>3 DEF Call, Send, Receive, ClientKilled
  <2>4. ASSUME NEW b \in Client, NEW r \in Request, Connect(b, r) PROVE gone' = gone
    BY <2>4 DEF Connect
  <2> QED
    BY <2>2, <2>3, <2>4 DEF Next, vars
<1>2. reply[c] = None
  <2>1. ASSUME NEW cs, CutOff(cs) PROVE reply[c] # None => reply'[c] = reply[c]
    BY <2>1 DEF CutOff
  <2>2. ASSUME NEW d \in Daemon, NEW r \in Request, Serve(d, r) PROVE reply[c] # None => reply'[c] # None
    <3>1. reply'[serving[d]] # None
      BY <2>2, ServeReplies
    <3>2. \A b \in Client : b # serving[d] => reply'[b] = reply[b]
      BY <2>2 DEF Serve, ServeSet, ServeGet, ServeDel, ServeList, ServeClear, ServeShutdown, Answer, TypeOK
    <3> QED
      BY <3>1, <3>2
  <2>3. ASSUME NEW d \in Daemon, ShortRead(d) PROVE reply[c] # None => reply'[c] # None
    BY <2>3, NoneAssumption DEF ShortRead, TypeOK, Reply
  <2> QED
    BY <2>1, <2>2, <2>3
       DEF Next, Live, Start, Bind, Listen, CloseListener, Exit, Accept, HangUp, Killed, Call, Send, Receive,
           ClientKilled, Connect, vars
<1>3. phase[c] \notin Asked
  BY <1>1, <1>2
<1>4. ASSUME NEW d \in Daemon, Start(d) \/ Live(d) \/ Killed(d) PROVE phase' = phase
  <2>1. ASSUME NEW r \in Request, Serve(d, r) PROVE phase' = phase
    BY <2>1 DEF Serve, ServeSet, ServeGet, ServeDel, ServeList, ServeClear, ServeShutdown, Answer
  <2> QED
    BY <1>4, <2>1
       DEF Live, Start, Bind, Listen, CloseListener, Exit, Accept, ShortRead, HangUp, Killed
<1>5. CASE \E b \in Client : Call(b) \/ ClientKilled(b)
  BY <1>3, <1>5 DEF Call, Send, Receive, ClientKilled, Asked, TypeOK
<1>6. ASSUME NEW b \in Client, NEW r \in Request, Connect(b, r)
      PROVE  b = c /\ phase'[c] = "connected"
  BY <1>3, <1>6 DEF Connect, Asked, TypeOK
<1> QED
  BY <1>3, <1>4, <1>5, <1>6 DEF Next, vars

LEMMA StepHeld ==
    ASSUME TypeOK, TypeOK', NobodyIsDropped, [Next]_vars
    PROVE  NobodyIsDropped'
<1> USE DEF process, socket, client
<1> SUFFICES ASSUME NEW c \in Client, phase'[c] \in Asked, reply'[c] = None, c \notin gone'
             PROVE  Held(c)'
  BY DEF NobodyIsDropped
<1>1. CASE phase[c] \in Asked /\ reply[c] = None /\ c \notin gone /\ c # None
  <2>1. Held(c)
    BY <1>1 DEF NobodyIsDropped
  <2>2. CASE UNCHANGED <<queue, serving>>
    BY <2>1, <2>2, StillHeld DEF Waiting
  <2>3. ASSUME NEW d \in Daemon, Accept(d) PROVE Held(c)'
    <3>1. queue[d] \in Seq(Client) /\ queue[d] # <<>>
      BY <2>3 DEF Accept, TypeOK
    <3>2. Waiting(d) = Members(Tail(queue[d])) \cup {Head(queue[d])}
      BY <3>1, LeavesOne, WaitingClients
    <3>3. /\ serving'[d] = Head(queue[d]) /\ Waiting(d)' = Members(Tail(queue[d]))
          /\ \A e \in Daemon \ {d} : Waiting(e)' = Waiting(e) /\ serving'[e] = serving[e]
      BY <2>3 DEF Accept, TypeOK, Waiting, Members
    <3>4. serving[d] = None
      BY <2>3 DEF Accept, TypeOK
    <3> QED
      BY <1>1, <2>1, <3>2, <3>3, <3>4, StillHeld
  <2>4. ASSUME NEW d \in Daemon, CloseListener(d) PROVE Held(c)'
    <3>1. c \notin Waiting(d)
      BY <1>1, <2>4, NoneAssumption DEF CloseListener, CutOff, Reply
    <3>2. serving' = serving /\ \A e \in Daemon \ {d} : Waiting(e)' = Waiting(e)
      BY <2>4 DEF CloseListener, Waiting, TypeOK
    <3> QED
      BY <2>1, <3>1, <3>2, StillHeld
  <2>5. ASSUME NEW d \in Daemon, Killed(d) PROVE Held(c)'
    <3>1. c \notin Waiting(d) /\ serving[d] # c
      BY <1>1, <2>5, NoneAssumption DEF Killed, CutOff, Reply
    <3>2. \A e \in Daemon \ {d} : Waiting(e)' = Waiting(e) /\ serving'[e] = serving[e]
      BY <2>5 DEF Killed, Waiting, TypeOK
    <3> QED
      BY <2>1, <3>1, <3>2, StillHeld
  <2>6. ASSUME NEW d \in Daemon, NEW r \in Request, Serve(d, r) PROVE Held(c)'
    <3>1. serving[d] # c
      BY <2>6, ServeReplies
    <3>2. queue' = queue /\ \A e \in Daemon \ {d} : serving'[e] = serving[e]
      BY <2>6 DEF Serve, ServeSet, ServeGet, ServeDel, ServeList, ServeClear, ServeShutdown, Answer, TypeOK
    <3> QED
      BY <2>1, <3>1, <3>2, StillHeld DEF Waiting
  <2>7. ASSUME NEW d \in Daemon, HangUp(d) PROVE Held(c)'
    <3>1. serving[d] # c
      BY <1>1, <2>7 DEF HangUp
    <3>2. queue' = queue /\ \A e \in Daemon \ {d} : serving'[e] = serving[e]
      BY <2>7 DEF HangUp, TypeOK
    <3> QED
      BY <2>1, <3>1, <3>2, StillHeld DEF Waiting
  <2>8. ASSUME NEW b \in Client, NEW r \in Request, Connect(b, r) PROVE Held(c)'
    <3>1. \A d \in Daemon : Waiting(d) \subseteq Waiting(d)'
      BY <2>8, ConnectJoins
    <3> QED
      BY <2>1, <2>8, <3>1, StillHeld DEF Connect
  <2> QED
    BY <2>2, <2>3, <2>4, <2>5, <2>6, <2>7, <2>8
       DEF Next, Live, Call, Start, Bind, Listen, Exit, ShortRead, Send, Receive, ClientKilled, vars
<1>2. CASE ~(phase[c] \in Asked /\ reply[c] = None /\ c \notin gone)
  <2>1. PICK r \in Request : Connect(c, r) /\ phase'[c] = "connected"
    BY <1>2, OnlyConnectAsks
  <2>2. PICK p \in Daemon : at'[p] \in Listening /\ c \in Waiting(p)'
    BY <2>1, ConnectJoins DEF Connect
  <2> QED
    BY <2>2 DEF Held
<1> QED
  BY <1>1, <1>2, NoneAssumption

(* No call is lost between daemons that stop, are killed and start again.  *)
THEOREM NoCallIsDropped == Spec => []NobodyIsDropped
<1>1. Init => NobodyIsDropped
  BY DEF Init, NobodyIsDropped, Asked
<1>2. IInv /\ IInv' /\ NobodyIsDropped /\ [Next]_vars => NobodyIsDropped'
  BY StepHeld DEF IInv
<1> QED
  BY <1>1, <1>2, Inductive, PTL DEF Spec

-----------------------------------------------------------------------------
(* When a daemon is only started after the other is gone.                  *)
Alive == {d \in Daemon : at[d] \notin {"new", "failed", "dead"}}

(* One daemon at a time: the path is its own from bind to exit, and only   *)
(* it holds secrets.                                                       *)
Alone ==
    /\ \A d, e \in Alive : d = e
    /\ \A d \in Alive : path = IF at[d] = "unlinked" THEN None ELSE d
    /\ \A d \in Daemon : at[d] # "failed"
    /\ \A d \in Daemon : at[d] \notin Listening \cup {"closed"} => store[d] = Empty

-----------------------------------------------------------------------------
LEMMA InitAlone == Init => Alone
  BY DEF Init, Alone, Alive

LEMMA StepAlone ==
    ASSUME StartRule = "gone", TypeOK, Alone, [Next]_vars
    PROVE  Alone'
<1> USE DEF process, socket, client
<1>1. ASSUME NEW d \in Daemon, Start(d) PROVE Alone'
  <2>1. at[d] = "new" /\ \A e \in Daemon \ {d} : at[e] \in {"new", "failed", "dead"}
    BY <1>1 DEF Start, MayStart
  <2>2. at' = [at EXCEPT ![d] = "unlinked"] /\ path' = None /\ store' = store
    BY <1>1 DEF Start
  <2>3. at'[d] = "unlinked" /\ \A e \in Daemon \ {d} : at'[e] = at[e]
    BY <2>2 DEF TypeOK
  <2>4. Alive' = {d}
    BY <2>1, <2>3 DEF Alive
  <2>5. store[d] = Empty
    BY <2>1 DEF Alone, Listening
  <2> QED
    BY <2>2, <2>3, <2>4, <2>5 DEF Alone
<1>2. ASSUME NEW d \in Daemon, NEW a \in {"bound", "accept", "read", "answered", "leaving", "closed"},
             d \in Alive, at' = [at EXCEPT ![d] = a], path' = d,
             \A e \in Daemon \ {d} : store'[e] = store[e],
             store'[d] = store[d] \/ a \in Listening \cup {"closed"},
             a = "bound" => at[d] = "unlinked"
      PROVE  Alone'
  <2>1. at'[d] = a /\ \A e \in Daemon \ {d} : at'[e] = at[e]
    BY <1>2 DEF TypeOK
  <2>2. Alive' = Alive /\ Alive = {d}
    BY <1>2, <2>1 DEF Alive, Alone
  <2>3. a = "bound" => store[d] = Empty
    BY <1>2 DEF Alone, Listening
  <2> QED
    BY <1>2, <2>1, <2>2, <2>3 DEF Alone, Listening
<1>3. ASSUME NEW d \in Daemon, Bind(d) PROVE Alone'
  <2>1. d \in Alive /\ path = None
    BY <1>3 DEF Bind, Alive, Alone
  <2> QED
    BY <1>2, <1>3, <2>1 DEF Bind
<1>4. ASSUME NEW d \in Daemon, Listen(d) \/ CloseListener(d) \/ Accept(d) \/ ShortRead(d) \/ HangUp(d)
      PROVE  Alone'
  <2>1. at[d] \in {"bound", "accept", "read", "answered", "leaving"}
    <3>1. CASE Listen(d) \/ CloseListener(d) \/ Accept(d) \/ ShortRead(d)
      BY <3>1 DEF Listen, CloseListener, Accept, ShortRead
    <3>2. CASE HangUp(d)
      BY <3>2 DEF HangUp
    <3> QED
      BY <1>4, <3>1, <3>2
  <2>2. d \in Alive /\ path = d
    BY <2>1 DEF Alive, Alone
  <2>3. PICK a \in {"accept", "read", "answered", "closed"} : at' = [at EXCEPT ![d] = a]
    BY <1>4 DEF Listen, CloseListener, Accept, ShortRead, HangUp
  <2>4. store' = store /\ path' = path
    BY <1>4 DEF Listen, CloseListener, Accept, ShortRead, HangUp
  <2> QED
    BY <1>2, <2>2, <2>3, <2>4
<1>5. ASSUME NEW d \in Daemon, NEW r \in Request, Serve(d, r) PROVE Alone'
  <2>1. PICK a : Answer(d, r, a)
    BY <1>5 DEF Serve, ServeSet, ServeGet, ServeDel, ServeList, ServeClear, ServeShutdown
  <2>2. d \in Alive /\ path = d /\ path' = path
    BY <2>1 DEF Answer, Alive, Alone
  <2>3. PICK b \in {"answered", "leaving"} : at' = [at EXCEPT ![d] = b]
    BY <2>1 DEF Answer
  <2>4. \A e \in Daemon \ {d} : store'[e] = store[e]
    BY <1>5 DEF Serve, ServeSet, ServeGet, ServeDel, ServeList, ServeClear, ServeShutdown, TypeOK
  <2> QED
    BY <1>2, <2>2, <2>3, <2>4 DEF Listening
<1>6. ASSUME NEW d \in Daemon, Exit(d) \/ Killed(d) PROVE Alone'
  <2>1. at[d] \notin {"new", "failed", "dead"}
    BY <1>6 DEF Exit, Killed
  <2>2. at' = [at EXCEPT ![d] = "dead"] /\ store' = [store EXCEPT ![d] = Empty]
    BY <1>6 DEF Exit, Killed
  <2>3. at'[d] = "dead" /\ \A e \in Daemon \ {d} : at'[e] = at[e]
    BY <2>2 DEF TypeOK
  <2>4. Alive = {d} /\ Alive' = {}
    BY <2>1, <2>3 DEF Alive, Alone
  <2>5. store'[d] = Empty /\ \A e \in Daemon \ {d} : store'[e] = store[e]
    BY <2>2 DEF TypeOK
  <2> QED
    BY <2>3, <2>4, <2>5 DEF Alone
<1>7. ASSUME NEW c \in Client, Call(c) \/ ClientKilled(c) \/ \E r \in Request : Connect(c, r)
      PROVE  Alone'
  <2>1. path' = path /\ at' = at /\ store' = store
    BY <1>7 DEF Call, Send, Receive, ClientKilled, Connect
  <2> QED
    BY <2>1 DEF Alone, Alive
<1>8. CASE UNCHANGED vars
  BY <1>8 DEF vars, Alone, Alive
<1> QED
  BY <1>1, <1>3, <1>4, <1>5, <1>6, <1>7, <1>8 DEF Next, Live

(* One daemon at a time, in every reachable state.                         *)
THEOREM AlwaysAlone == ASSUME StartRule = "gone" PROVE Spec => []Alone
  BY InitAlone, StepAlone, Types, PTL DEF Spec

(* A daemon that waits for clients is the one they reach.                  *)
THEOREM AlwaysReachable == ASSUME StartRule = "gone" PROVE Spec => []ReachableWhileAlive
<1>1. Alone => ReachableWhileAlive
  BY DEF Alone, Alive, ReachableWhileAlive
<1> QED
  BY <1>1, AlwaysAlone, PTL

(* What an earlier daemon left behind keeps no other from starting.        *)
THEOREM AlwaysStarts == ASSUME StartRule = "gone" PROVE Spec => []StartSucceeds
<1>1. Alone => StartSucceeds
  BY DEF Alone, StartSucceeds
<1> QED
  BY <1>1, AlwaysAlone, PTL
-----------------------------------------------------------------------------
(* The mapping to VaultStore: only the daemon that is alive holds secrets. *)
LEMMA TheStore ==
    ASSUME TypeOK, Alone
    PROVE  /\ \A d \in Alive : kv = store[d] /\ \A e \in Daemon \ {d} : store[e] = Empty
           /\ Alive = {} => kv = Empty
<1>1. \A d \in Daemon \ Alive : store[d] = Empty
  BY DEF Alone, Alive, Listening
<1>2. ASSUME NEW d \in Alive PROVE kv = store[d] /\ \A e \in Daemon \ {d} : store[e] = Empty
  <2>1. \A e \in Daemon \ {d} : store[e] = Empty
    BY <1>1, <1>2 DEF Alone
  <2>2. CASE store[d] = Empty
    BY <2>1, <2>2 DEF kv, Stores
  <2>3. CASE store[d] # Empty
    <3>1. d \in Daemon
      BY <1>2 DEF Alive
    <3>2. Stores = {d}
      BY <2>1, <2>3, <3>1 DEF Stores
    <3>3. (CHOOSE e \in Stores : TRUE) = d
      BY <3>2
    <3> QED
      BY <2>1, <3>2, <3>3 DEF kv
  <2> QED
    BY <2>1, <2>2, <2>3
<1>3. Alive = {} => kv = Empty
  BY <1>1 DEF kv, Stores
<1> QED
  BY <1>2, <1>3

(* Emptying the one store that is alive empties the abstract one.          *)
LEMMA Forgotten ==
    ASSUME TypeOK, Alone, NEW d \in Daemon, d \in Alive, store' = [store EXCEPT ![d] = Empty]
    PROVE  kv' = Empty
<1>1. \A e \in Daemon : store'[e] = Empty
  BY TheStore DEF TypeOK
<1> QED
  BY <1>1 DEF kv, Stores

LEMMA Stored ==
    ASSUME TypeOK, Alone, NEW d \in Daemon, d \in Alive, NEW s, store' = [store EXCEPT ![d] = s]
    PROVE  kv = store[d] /\ kv' = s
<1>1. kv = store[d] /\ \A e \in Daemon \ {d} : store[e] = Empty
  BY TheStore
<1>2. store'[d] = s /\ \A e \in Daemon \ {d} : store'[e] = Empty
  BY <1>1 DEF TypeOK
<1>3. CASE s = Empty
  BY <1>1, <1>2, <1>3 DEF kv, Stores
<1>4. CASE s # Empty
  <2>1. Stores' = {d}
    BY <1>2, <1>4 DEF Stores
  <2> QED
    BY <1>1, <1>2, <2>1 DEF kv
<1> QED
  BY <1>1, <1>3, <1>4

LEMMA SameAbstractly ==
    ASSUME store' = store, phase' = phase, reply' = reply, request' = request
    PROVE  UNCHANGED Promised!vars
  BY DEF Promised!vars, kv, Stores, status

(* Answering the client being served is the abstract step of its call.     *)
LEMMA Answered ==
    ASSUME IInv, NEW d \in Daemon, NEW a, a # None, at[d] = "read",
           phase' = phase, request' = request, reply' = [reply EXCEPT ![serving[d]] = a]
    PROVE  /\ serving[d] \in Client /\ status[serving[d]] = "open"
           /\ status' = [status EXCEPT ![serving[d]] = "answered"]
<1>1. /\ serving[d] \in Client /\ phase[serving[d]] \in Asked /\ reply[serving[d]] = None
  BY DEF IInv, TypeOK, Unanswered
<1>2. status[serving[d]] = "open"
  BY <1>1 DEF status, Asked
<1>3. \A c \in Client : reply'[c] = IF c = serving[d] THEN a ELSE reply[c]
  BY DEF IInv, TypeOK
<1>4. \A c \in Client : status'[c] = IF c = serving[d] THEN "answered" ELSE status[c]
  BY <1>1, <1>3 DEF status, Asked
<1>5. status' = [status EXCEPT ![serving[d]] = "answered"]
  BY <1>1, <1>4 DEF status
<1> QED
  BY <1>1, <1>2, <1>5

(* Cutting clients off fails their calls.                                  *)
LEMMA Failed ==
    ASSUME TypeOK, NEW cs, cs \subseteq Client, \A c \in cs : phase[c] \in Asked, CutOff(cs),
           phase' = phase, request' = request, kv' \in {kv, Empty}
    PROVE  Promised!Next
<1> DEFINE open == {c \in cs : reply[c] = None}
<1>1. open \subseteq Client /\ \A c \in open : status[c] = "open"
  BY DEF status, Asked
<1>2. reply' = [c \in Client |-> IF c \in open THEN <<"ERR">> ELSE reply[c]]
  BY DEF CutOff
<1>3. status' = [c \in Client |-> IF c \in open THEN "answered" ELSE status[c]]
  <2>1. None \notin {<<"ERR">>}
    BY NoneAssumption DEF Reply
  <2> QED
    BY <1>1, <1>2, <2>1 DEF status, Asked
<1>4. kv' \in {kv, Promised!Empty}
  BY DEF Empty, Promised!Empty
<1> HIDE DEF open
<1>5. Promised!Fail(open)
  BY <1>1, <1>2, <1>3, <1>4 DEF Promised!Fail
<1> QED
  BY <1>1, <1>5 DEF Promised!Next
-----------------------------------------------------------------------------
LEMMA InitPromise == Init => Promised!Init
<1> SUFFICES ASSUME Init PROVE Promised!Init
  OBVIOUS
<1>1. kv = Empty
  BY DEF Init, kv, Stores
<1>2. status = [c \in Client |-> "idle"]
  BY DEF Init, status
<1> QED
  BY <1>1, <1>2 DEF Init, Promised!Init, Promised!Empty, Empty

LEMMA ServePromise ==
    ASSUME IInv, Alone, NEW d \in Daemon, NEW r \in Request, Serve(d, r)
    PROVE  Promised!Next
<1> USE DEF process, socket, client, IInv
<1> DEFINE c == serving[d]
<1>1. PICK a : Answer(d, r, a)
  BY DEF Serve, ServeSet, ServeGet, ServeDel, ServeList, ServeClear, ServeShutdown
<1>2. d \in Alive /\ at[d] = "read" /\ phase' = phase /\ request' = request /\ request[c] = r /\ c # None
  BY <1>1 DEF Answer, Alive
<1>3. kv = store[d] /\ c \in Client /\ store[d] \in [Name -> Value \cup {None}]
  BY <1>2, TheStore DEF TypeOK
<1>4. ASSUME NEW b, b # None, reply' = [reply EXCEPT ![c] = b],
             b = Promised!Reply(kv, r), kv' = Promised!Effect(kv, r)
      PROVE  Promised!Next
  <2>1. status[c] = "open" /\ status' = [status EXCEPT ![c] = "answered"]
    BY <1>2, <1>4, Answered
  <2>2. Promised!Perform(c)
    BY <1>2, <1>4, <2>1 DEF Promised!Perform
  <2> QED
    BY <1>3, <2>2 DEF Promised!Next
<1>5. <<"OK">> # None /\ <<"ERR">> # None
  BY NoneAssumption DEF Reply
<1>6. store' = store => kv' = kv
  BY DEF kv, Stores
<1>7. CASE ServeSet(d, r)
  <2>1. r.op = "set"
    BY <1>7 DEF ServeSet
  <2>2. CASE Answer(d, r, <<"OK">>) /\ store' = [store EXCEPT ![d][r.name] = r.value]
    <3>1. store' = [store EXCEPT ![d] = [store[d] EXCEPT ![r.name] = r.value]]
      BY <2>2
    <3>2. kv' = [store[d] EXCEPT ![r.name] = r.value]
      BY <1>2, <3>1, Stored
    <3>3. kv' = Promised!Effect(kv, r) /\ <<"OK">> = Promised!Reply(kv, r)
      BY <1>3, <2>1, <3>2 DEF Promised!Effect, Promised!Reply
    <3>4. reply' = [reply EXCEPT ![c] = <<"OK">>]
      BY <2>2 DEF Answer
    <3> QED
      BY <1>4, <1>5, <3>3, <3>4
  <2>3. CASE Answer(d, r, <<"ERR">>) /\ store' = store
    <3>1. reply' = [reply EXCEPT ![c] = <<"ERR">>]
      BY <2>3 DEF Answer
    <3>2. CutOff({c})
      BY <1>2, <1>3, <3>1 DEF CutOff, Unanswered, TypeOK
    <3>3. kv' = kv /\ \A b \in {c} : phase[b] \in Asked
      BY <1>2, <1>6, <2>3 DEF Unanswered
    <3> QED
      BY <1>2, <1>3, <3>2, <3>3, Failed
  <2> QED
    BY <1>7, <2>2, <2>3 DEF ServeSet
<1>8. CASE ServeGet(d, r)
  <2>1. r.op = "get" /\ r.name \in Name /\ kv' = kv
    BY <1>6, <1>8 DEF ServeGet, Request
  <2>2. kv' = Promised!Effect(kv, r)
    BY <2>1 DEF Promised!Effect
  <2>3. CASE store[d][r.name] = None
    <3>1. reply' = [reply EXCEPT ![c] = <<"ERR">>]
      BY <1>8, <2>3 DEF ServeGet, Answer
    <3>2. <<"ERR">> = Promised!Reply(kv, r)
      BY <1>3, <2>1, <2>3 DEF Promised!Reply
    <3> QED
      BY <1>4, <1>5, <2>2, <3>1, <3>2
  <2>4. CASE store[d][r.name] # None
    <3>1. reply' = [reply EXCEPT ![c] = <<"VAL", store[d][r.name]>>]
      BY <1>8, <2>4 DEF ServeGet, Answer
    <3>2. <<"VAL", store[d][r.name]>> = Promised!Reply(kv, r)
      BY <1>3, <2>1, <2>4 DEF Promised!Reply
    <3>3. store[d][r.name] \in Value
      BY <1>3, <2>1, <2>4
    <3>4. <<"VAL", store[d][r.name]>> # None
      BY <3>3, NoneAssumption DEF Reply
    <3> QED
      BY <1>4, <2>2, <3>1, <3>2, <3>4
  <2> QED
    BY <2>3, <2>4
<1>9. CASE ServeDel(d, r)
  <2>1. r.op = "del" /\ r.name \in Name
    BY <1>9 DEF ServeDel, Request
  <2>2. store' = [store EXCEPT ![d] = [store[d] EXCEPT ![r.name] = None]]
    BY <1>9 DEF ServeDel
  <2>3. kv' = Promised!Effect(kv, r)
    BY <1>2, <1>3, <2>1, <2>2, Stored DEF Promised!Effect
  <2>4. CASE store[d][r.name] = None
    <3>1. reply' = [reply EXCEPT ![c] = <<"ERR">>]
      BY <1>9, <2>4 DEF ServeDel, Answer
    <3>2. <<"ERR">> = Promised!Reply(kv, r)
      BY <1>3, <2>1, <2>4 DEF Promised!Reply
    <3> QED
      BY <1>4, <1>5, <2>3, <3>1, <3>2
  <2>5. CASE store[d][r.name] # None
    <3>1. reply' = [reply EXCEPT ![c] = <<"OK">>]
      BY <1>9, <2>5 DEF ServeDel, Answer
    <3>2. <<"OK">> = Promised!Reply(kv, r)
      BY <1>3, <2>1, <2>5 DEF Promised!Reply
    <3> QED
      BY <1>4, <1>5, <2>3, <3>1, <3>2
  <2> QED
    BY <2>4, <2>5
<1>10. CASE ServeList(d, r)
  <2> DEFINE l == <<"LIST", Promised!Names(kv)>>
  <2>1. r.op = "list" /\ kv' = Promised!Effect(kv, r) /\ l = Promised!Reply(kv, r)
    BY <1>6, <1>10 DEF ServeList, Promised!Effect, Promised!Reply
  <2>2. Promised!Names(kv) = {n \in Name : store[d][n] # None}
    BY <1>3 DEF Promised!Names
  <2>3. reply' = [reply EXCEPT ![c] = l]
    BY <1>10, <2>2, Zenon DEF ServeList, Answer
  <2>4. Promised!Names(kv) \in SUBSET Name
    BY <2>2
  <2>5. l # None
    BY <2>4, NoneAssumption DEF Reply
  <2> HIDE DEF l
  <2> QED
    BY <1>4, <2>1, <2>3, <2>5
<1>11. CASE ServeClear(d, r)
  <2>1. r.op = "clear" /\ store' = [store EXCEPT ![d] = Empty] /\ reply' = [reply EXCEPT ![c] = <<"OK">>]
    BY <1>11 DEF ServeClear, Answer
  <2>2. kv' = Promised!Effect(kv, r) /\ <<"OK">> = Promised!Reply(kv, r)
    BY <1>2, <2>1, Forgotten DEF Promised!Effect, Promised!Reply, Promised!Empty, Empty
  <2> QED
    BY <1>4, <1>5, <2>1, <2>2
<1>12. CASE ServeShutdown(d, r)
  <2>1. r.op = "stop" /\ store' = store /\ reply' = [reply EXCEPT ![c] = <<"OK">>]
    BY <1>12 DEF ServeShutdown, Answer
  <2>2. kv' = Promised!Effect(kv, r) /\ <<"OK">> = Promised!Reply(kv, r)
    BY <1>6, <2>1 DEF Promised!Effect, Promised!Reply
  <2> QED
    BY <1>4, <1>5, <2>1, <2>2
<1> QED
  BY <1>7, <1>8, <1>9, <1>10, <1>11, <1>12 DEF Serve
LEMMA StepPromise ==
    ASSUME IInv, Alone, [Next]_vars
    PROVE  [Promised!Next]_(Promised!vars)
<1> USE DEF process, socket, client, IInv
<1>1. ASSUME NEW d \in Daemon, Start(d) \/ Bind(d) \/ Listen(d) \/ Accept(d) \/ HangUp(d)
      PROVE  UNCHANGED Promised!vars
  BY <1>1, SameAbstractly DEF Start, Bind, Listen, Accept, HangUp
<1>2. ASSUME NEW c \in Client, Receive(c) \/ ClientKilled(c) PROVE UNCHANGED Promised!vars
  BY <1>2, SameAbstractly DEF Receive, ClientKilled
<1>3. ASSUME NEW c \in Client, Send(c) PROVE UNCHANGED Promised!vars
  <2>1. /\ store' = store /\ reply' = reply /\ request' = request
        /\ phase[c] \in Asked /\ phase'[c] \in Asked
        /\ \A b \in Client \ {c} : phase'[b] = phase[b]
    BY <1>3 DEF Send, Asked, TypeOK
  <2>2. status' = status
    BY <2>1 DEF status, Asked
  <2> QED
    BY <2>1, <2>2 DEF Promised!vars, kv, Stores
<1>4. ASSUME NEW c \in Client, NEW r \in Request, Connect(c, r)
      PROVE  [Promised!Next]_(Promised!vars)
  <2>1. /\ store' = store /\ reply' = reply /\ phase[c] = "idle" /\ reply[c] = None
        /\ \A b \in Client \ {c} : phase'[b] = phase[b]
    BY <1>4 DEF Connect, TypeOK, Requests
  <2>2. kv' = kv
    BY <2>1 DEF kv, Stores
  <2>3. CASE path # None /\ at[path] \in Listening
    <3>1. phase'[c] = "connected" /\ request' = [request EXCEPT ![c] = r]
      BY <1>4, <2>3 DEF Connect, TypeOK
    <3>2. status[c] = "idle" /\ status' = [status EXCEPT ![c] = "open"]
      BY <2>1, <3>1 DEF status
    <3>3. r \in Promised!Request
      BY DEF Request, Promised!Request
    <3> QED
      BY <2>1, <2>2, <3>1, <3>2, <3>3 DEF Promised!Next, Promised!Ask
  <2>4. CASE ~(path # None /\ at[path] \in Listening)
    <3>1. phase'[c] = "refused" /\ request' = request
      BY <1>4, <2>4 DEF Connect, TypeOK
    <3>2. status' = status
      BY <2>1, <3>1 DEF status
    <3> QED
      BY <2>1, <2>2, <3>1, <3>2 DEF Promised!vars
  <2> QED
    BY <2>3, <2>4
<1>5. ASSUME NEW d \in Daemon, CloseListener(d) PROVE Promised!Next
  <2>1. Waiting(d) \subseteq Client /\ \A c \in Waiting(d) : phase[c] \in Asked
    BY WaitingClients DEF Unanswered
  <2>2. kv' = kv /\ CutOff(Waiting(d)) /\ phase' = phase /\ request' = request
    BY <1>5 DEF CloseListener, kv, Stores
  <2> QED
    BY <2>1, <2>2, Failed
<1>6. ASSUME NEW d \in Daemon, Killed(d) PROVE Promised!Next
  <2> DEFINE cut == Waiting(d) \cup ({serving[d]} \ {None})
  <2>1. cut \subseteq Client /\ \A c \in cut : phase[c] \in Asked
    BY WaitingClients DEF Unanswered, TypeOK
  <2>2. store' = [store EXCEPT ![d] = Empty] /\ CutOff(cut) /\ phase' = phase /\ request' = request
    BY <1>6 DEF Killed
  <2>3. d \in Alive
    BY <1>6 DEF Killed, Alive
  <2>4. kv' = Empty
    BY <2>2, <2>3, Forgotten
  <2> HIDE DEF cut
  <2> QED
    BY <2>1, <2>2, <2>4, Failed
<1>7. ASSUME NEW d \in Daemon, Exit(d) PROVE Promised!Next
  <2>1. d \in Alive /\ store' = [store EXCEPT ![d] = Empty] /\ reply' = reply
        /\ phase' = phase /\ request' = request
    BY <1>7 DEF Exit, Alive
  <2>2. kv' = Empty
    BY <2>1, Forgotten
  <2>3. CutOff({})
    BY <2>1 DEF CutOff, TypeOK
  <2> QED
    BY <2>1, <2>2, <2>3, Failed
<1>8. ASSUME NEW d \in Daemon, ShortRead(d) PROVE Promised!Next
  <2>1. /\ at[d] = "read" /\ store' = store /\ reply' = [reply EXCEPT ![serving[d]] = <<"ERR">>]
        /\ phase' = phase /\ request' = request
    BY <1>8 DEF ShortRead
  <2>2. serving[d] \in Client /\ reply[serving[d]] = None /\ phase[serving[d]] \in Asked
    BY <2>1 DEF TypeOK, Unanswered
  <2>3. kv' = kv
    BY <2>1 DEF kv, Stores
  <2>4. CutOff({serving[d]})
    BY <2>1, <2>2 DEF CutOff, TypeOK
  <2>5. {serving[d]} \subseteq Client /\ \A c \in {serving[d]} : phase[c] \in Asked
    BY <2>2
  <2> QED
    BY <2>1, <2>3, <2>4, <2>5, Failed
<1>9. CASE UNCHANGED vars
  BY <1>9, SameAbstractly DEF vars
<1> QED
  BY <1>1, <1>2, <1>3, <1>4, <1>5, <1>6, <1>7, <1>8, <1>9, ServePromise DEF Next, Live, Call

(* When a daemon is only started after the other is gone, the daemons      *)
(* together implement one store: every call takes effect once, or fails    *)
(* without effect.                                                         *)
THEOREM KeepsThePromise == ASSUME StartRule = "gone" PROVE Spec => Promise
<1>1. Init => Promised!Init
  BY InitPromise
<1>2. IInv /\ Alone /\ [Next]_vars => [Promised!Next]_(Promised!vars)
  BY StepPromise
<1> QED
  BY <1>1, <1>2, Inductive, AlwaysAlone, PTL DEF Spec, Promise, Promised!Spec
=============================================================================
