------------------------------- MODULE Vault -------------------------------
(***************************************************************************)
(* fox-vault: a daemon that keeps secrets in memory and answers one client *)
(* at a time on the Unix socket at socket_path(), and the CLI calls that   *)
(* connect to it.  Daemons may be killed, and another may be started.      *)
(*                                                                         *)
(* Names are single words and values fit the 1 MiB cap, so that a call is  *)
(* one command.  A value travels whole or, when its client is killed, cut. *)
(***************************************************************************)
EXTENDS Sequences

CONSTANTS Daemon, Client,          \* processes; each runs once
          Name, Value, None,
          StartRule                \* when a daemon may be started: see MayStart

ASSUME RuleAssumption == StartRule \in {"any", "stopped", "gone"}

VARIABLES
    path,      \* the daemon whose socket is at socket_path(), alive or not
    at,        \* per daemon: where run_daemon is
    store,     \* per daemon: the vault
    queue,     \* per daemon: connected clients it has not accepted
    serving,   \* per daemon: the client it has accepted
    phase,     \* per client: "idle", "connected", "half", "sent" or "refused"
    request,   \* per client: its command
    reply,     \* per client: what its socket holds for it
    gone       \* clients that have closed their socket: finished, or killed

process == <<path, at, store>>
socket == <<queue, serving>>
client == <<phase, request, reply, gone>>
vars == <<process, socket, client>>

Request ==
    [op : {"set"}, name : Name, value : Value] \cup [op : {"get", "del"}, name : Name]
    \cup [op : {"list", "clear", "stop"}]
Reply == {<<"OK">>, <<"ERR">>} \cup {<<"VAL", v>> : v \in Value} \cup {<<"LIST", s>> : s \in SUBSET Name}

ASSUME NoneAssumption == None \notin Daemon \cup Client \cup Value \cup Reply

Listening == {"accept", "read", "answered", "leaving"}

TypeOK ==
    /\ path \in Daemon \cup {None}
    /\ at \in [Daemon -> {"new", "unlinked", "bound", "accept", "read", "answered",
                          "leaving", "closed", "failed", "dead"}]
    /\ store \in [Daemon -> [Name -> Value \cup {None}]]
    /\ queue \in [Daemon -> Seq(Client)] /\ serving \in [Daemon -> Client \cup {None}]
    /\ phase \in [Client -> {"idle", "connected", "half", "sent", "refused"}]
    /\ request \in [Client -> Request \cup {None}] /\ reply \in [Client -> Reply \cup {None}]
    /\ gone \subseteq Client
    /\ \A d \in Daemon :
          /\ serving[d] # None <=> at[d] \in {"read", "answered"}
          /\ queue[d] # <<>> => at[d] \in Listening

Empty == [n \in Name |-> None]

Init ==
    /\ path = None
    /\ at = [d \in Daemon |-> "new"] /\ store = [d \in Daemon |-> Empty]
    /\ queue = [d \in Daemon |-> <<>>] /\ serving = [d \in Daemon |-> None]
    /\ phase = [c \in Client |-> "idle"] /\ request = [c \in Client |-> None]
    /\ reply = [c \in Client |-> None] /\ gone = {}

-----------------------------------------------------------------------------
(***************************************************************************)
(* The daemon's life.                                                      *)
(***************************************************************************)
(* The service manager starts one once the other is gone; a user may start *)
(* one as soon as stop has returned, or at any time.                       *)
MayStart(d) ==
    \A e \in Daemon \ {d} :
       CASE StartRule = "any" -> TRUE
         [] StartRule = "stopped" -> at[e] \in {"new", "leaving", "closed", "failed", "dead"}
         [] StartRule = "gone" -> at[e] \in {"new", "failed", "dead"}

Start(d) ==
    /\ at[d] = "new" /\ MayStart(d)
    /\ at' = [at EXCEPT ![d] = "unlinked"]
    /\ path' = None
    /\ UNCHANGED <<store, socket, client>>

(* Fault: the old socket is removed after the bind.                        *)
BindThenUnlink(d) ==
    /\ at[d] = "unlinked"
    /\ at' = [at EXCEPT ![d] = "bound"] /\ path' = None
    /\ UNCHANGED <<store, socket, client>>

(* bind refuses a path that exists again.                                  *)
Bind(d) ==
    /\ at[d] = "unlinked"
    /\ IF path = None
         THEN at' = [at EXCEPT ![d] = "bound"] /\ path' = d
         ELSE at' = [at EXCEPT ![d] = "failed"] /\ UNCHANGED path
    /\ UNCHANGED <<store, socket, client>>

Listen(d) ==
    /\ at[d] = "bound"
    /\ at' = [at EXCEPT ![d] = "accept"]
    /\ UNCHANGED <<path, store, socket, client>>

(* Closing a listening socket cuts off whoever still waits in its queue.   *)
CutOff(cs) ==
    reply' = [c \in Client |-> IF c \in cs /\ reply[c] = None THEN <<"ERR">> ELSE reply[c]]
Waiting(d) == {queue[d][i] : i \in DOMAIN queue[d]}

CloseListener(d) ==
    /\ at[d] = "leaving"
    /\ at' = [at EXCEPT ![d] = "closed"]
    /\ queue' = [queue EXCEPT ![d] = <<>>]
    /\ CutOff(Waiting(d))
    /\ UNCHANGED <<path, store, serving, phase, request, gone>>

(* The path is removed, whoever's it is, and the vault wiped.              *)
Exit(d) ==
    /\ at[d] = "closed"
    /\ at' = [at EXCEPT ![d] = "dead"]
    /\ path' = None
    /\ store' = [store EXCEPT ![d] = Empty]
    /\ UNCHANGED <<socket, client>>

Killed(d) ==
    /\ at[d] \notin {"new", "failed", "dead"}
    /\ at' = [at EXCEPT ![d] = "dead"]
    /\ store' = [store EXCEPT ![d] = Empty]
    /\ queue' = [queue EXCEPT ![d] = <<>>] /\ serving' = [serving EXCEPT ![d] = None]
    /\ CutOff(Waiting(d) \cup ({serving[d]} \ {None}))
    /\ UNCHANGED <<path, phase, request, gone>>

-----------------------------------------------------------------------------
(***************************************************************************)
(* The daemon's loop: accept, read a command, answer, wait for the client  *)
(* to close.                                                               *)
(***************************************************************************)
Accept(d) ==
    /\ at[d] = "accept" /\ queue[d] # <<>>
    /\ at' = [at EXCEPT ![d] = "read"]
    /\ serving' = [serving EXCEPT ![d] = Head(queue[d])]
    /\ queue' = [queue EXCEPT ![d] = Tail(queue[d])]
    /\ UNCHANGED <<path, store, client>>

(* The client of d has sent the whole of r; d answers it.                  *)
Answer(d, r, a) ==
    /\ at[d] = "read" /\ serving[d] # None
    /\ phase[serving[d]] = "sent" /\ request[serving[d]] = r
    /\ at' = [at EXCEPT ![d] = IF r.op = "stop" THEN "leaving" ELSE "answered"]
    /\ serving' = IF r.op = "stop" THEN [serving EXCEPT ![d] = None] ELSE serving
    /\ reply' = [reply EXCEPT ![serving[d]] = a]
    /\ UNCHANGED <<path, queue, phase, request, gone>>

ServeSet(d, r) ==
    /\ r.op = "set"
    /\ \/ Answer(d, r, <<"OK">>) /\ store' = [store EXCEPT ![d][r.name] = r.value]
       \/ Answer(d, r, <<"ERR">>) /\ UNCHANGED store        \* no memory

ServeGet(d, r) ==
    /\ r.op = "get"
    /\ Answer(d, r, IF store[d][r.name] = None THEN <<"ERR">> ELSE <<"VAL", store[d][r.name]>>)
    /\ UNCHANGED store

ServeDel(d, r) ==
    /\ r.op = "del"
    /\ Answer(d, r, IF store[d][r.name] = None THEN <<"ERR">> ELSE <<"OK">>)
    /\ store' = [store EXCEPT ![d][r.name] = None]

ServeList(d, r) ==
    /\ r.op = "list"
    /\ Answer(d, r, <<"LIST", {n \in Name : store[d][n] # None}>>)
    /\ UNCHANGED store

ServeClear(d, r) ==
    /\ r.op = "clear"
    /\ Answer(d, r, <<"OK">>) /\ store' = [store EXCEPT ![d] = Empty]

ServeShutdown(d, r) ==
    /\ r.op = "stop"
    /\ Answer(d, r, <<"OK">>) /\ UNCHANGED store

Serve(d, r) ==
    \/ ServeSet(d, r) \/ ServeGet(d, r) \/ ServeDel(d, r)
    \/ ServeList(d, r) \/ ServeClear(d, r) \/ ServeShutdown(d, r)

(* Fault: what has arrived of a value is stored.                           *)
ShortReadStored(d) ==
    /\ at[d] = "read" /\ serving[d] \in gone /\ phase[serving[d]] = "half"
    /\ at' = [at EXCEPT ![d] = "answered"]
    /\ store' = [store EXCEPT ![d][request[serving[d]].name] = CHOOSE v \in Value : TRUE]
    /\ reply' = [reply EXCEPT ![serving[d]] = <<"ERR">>]
    /\ UNCHANGED <<path, socket, phase, request, gone>>

(* The client was killed before the whole value had arrived.               *)
ShortRead(d) ==
    /\ at[d] = "read" /\ serving[d] \in gone /\ phase[serving[d]] = "half"
    /\ at' = [at EXCEPT ![d] = "answered"]
    /\ reply' = [reply EXCEPT ![serving[d]] = <<"ERR">>]
    /\ UNCHANGED <<path, store, socket, phase, request, gone>>

(* Fault: only a client that has been answered is hung up.                 *)
HangUpAnswered(d) ==
    /\ at[d] = "answered" /\ serving[d] \in gone
    /\ at' = [at EXCEPT ![d] = "accept"]
    /\ serving' = [serving EXCEPT ![d] = None]
    /\ UNCHANGED <<path, store, queue, client>>

(* read_line finds the end of the stream.                                  *)
HangUp(d) ==
    /\ serving[d] \in gone
    /\ at[d] = "answered" \/ (at[d] = "read" /\ phase[serving[d]] = "connected")
    /\ at' = [at EXCEPT ![d] = "accept"]
    /\ serving' = [serving EXCEPT ![d] = None]
    /\ UNCHANGED <<path, store, queue, client>>
-----------------------------------------------------------------------------
(***************************************************************************)
(* The CLI.                                                                *)
(***************************************************************************)
Connect(c, r) ==
    /\ phase[c] = "idle"
    /\ IF path # None /\ at[path] \in Listening
         THEN /\ phase' = [phase EXCEPT ![c] = "connected"]
              /\ request' = [request EXCEPT ![c] = r]
              /\ queue' = [queue EXCEPT ![path] = Append(@, c)]
         ELSE phase' = [phase EXCEPT ![c] = "refused"] /\ UNCHANGED <<request, queue>>
    /\ UNCHANGED <<process, serving, reply, gone>>

(* cmd_set writes its header and its value, the others one line.           *)
Send(c) ==
    /\ c \notin gone
    /\ \/ phase[c] = "connected"
          /\ phase' = [phase EXCEPT ![c] = IF request[c].op = "set" THEN "half" ELSE "sent"]
       \/ phase[c] = "half" /\ phase' = [phase EXCEPT ![c] = "sent"]
    /\ UNCHANGED <<process, socket, request, reply, gone>>

(* The reply is read, or the end of the stream where there is none.        *)
Receive(c) ==
    /\ reply[c] # None /\ c \notin gone /\ gone' = gone \cup {c}
    /\ UNCHANGED <<process, socket, phase, request, reply>>

ClientKilled(c) ==
    /\ phase[c] \in {"connected", "half", "sent"} /\ c \notin gone
    /\ gone' = gone \cup {c}
    /\ UNCHANGED <<process, socket, phase, request, reply>>

Live(d) ==
    \/ Bind(d) \/ Listen(d) \/ CloseListener(d) \/ Exit(d)
    \/ Accept(d) \/ (\E r \in Request : Serve(d, r)) \/ ShortRead(d) \/ HangUp(d)
Call(c) == Send(c) \/ Receive(c)

Next ==
    \/ \E d \in Daemon : Start(d) \/ Live(d) \/ Killed(d)
    \/ \E c \in Client : Call(c) \/ ClientKilled(c) \/ \E r \in Request : Connect(c, r)

Spec == Init /\ [][Next]_vars

(* The kernel schedules the daemons and the CLI calls.                     *)
FairSpec == Spec /\ (\A d \in Daemon : WF_vars(Live(d))) /\ (\A c \in Client : WF_vars(Call(c)))

-----------------------------------------------------------------------------
(***************************************************************************)
(* What must hold.                                                         *)
(***************************************************************************)
(* The header of fox-vault.cpp: start's socket is at socket_path(): a      *)
(* daemon that waits for clients can be reached, through kills, stops and  *)
(* starts.                                                                 *)
ReachableWhileAlive ==
    \A d \in Daemon : at[d] \in {"accept", "read", "answered"} => path = d

(* A socket left behind by a daemon that was killed does not keep the next *)
(* one from starting (unlink before bind).                                 *)
StartSucceeds == \A d \in Daemon : at[d] # "failed"

(* A value that is given out was set, and had arrived whole.               *)
NoTornSecret ==
    \A c \in Client :
       reply[c] # None /\ reply[c][1] = "VAL" =>
          \E b \in Client :
             /\ request[b] = [op |-> "set", name |-> request[c].name, value |-> reply[c][2]]
             /\ phase[b] = "sent"

(* Every call that has reached a daemon returns, although a daemon serves  *)
(* one client at a time and clients and daemons are killed.                *)
EveryCallReturns ==
    \A c \in Client : phase[c] \in {"connected", "half", "sent"} ~> c \in gone

(* One daemon at a time is one store: VaultStore.                          *)
Stores == {d \in Daemon : store[d] # Empty}
kv == IF Stores = {} THEN Empty ELSE store[CHOOSE d \in Stores : TRUE]
status == [c \in Client |-> IF phase[c] \in {"idle", "refused"} THEN "idle"
                           ELSE IF reply[c] = None THEN "open" ELSE "answered"]
Promised == INSTANCE VaultStore WITH answer <- reply
Promise == Promised!Spec
=============================================================================
