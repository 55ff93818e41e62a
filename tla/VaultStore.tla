----------------------------- MODULE VaultStore -----------------------------
(***************************************************************************)
(* What fox-vault promises its clients: one store of named secrets.  A     *)
(* call takes effect once, between its request and its answer, or fails    *)
(* without effect; the secrets may be forgotten all at once.               *)
(***************************************************************************)
CONSTANTS Client, Name, Value, None

VARIABLES
    kv,        \* the secrets
    status,    \* per call: "idle", "open" or "answered"
    request, answer

vars == <<kv, status, request, answer>>

Request ==
    [op : {"set"}, name : Name, value : Value] \cup [op : {"get", "del"}, name : Name]
    \cup [op : {"list", "clear", "stop"}]

Empty == [n \in Name |-> None]
Names(s) == {n \in Name : s[n] # None}

(* What a store s holds after the call r, and what the call is told.       *)
Effect(s, r) ==
    CASE r.op = "set" -> [s EXCEPT ![r.name] = r.value]
      [] r.op = "del" -> [s EXCEPT ![r.name] = None]
      [] r.op = "clear" -> Empty
      [] OTHER -> s

Reply(s, r) ==
    CASE r.op \in {"get", "del"} /\ s[r.name] = None -> <<"ERR">>
      [] r.op = "get" /\ s[r.name] # None -> <<"VAL", s[r.name]>>
      [] r.op = "list" -> <<"LIST", Names(s)>>
      [] OTHER -> <<"OK">>

Init ==
    /\ kv = Empty
    /\ status = [c \in Client |-> "idle"]
    /\ request = [c \in Client |-> None] /\ answer = [c \in Client |-> None]

Ask(c, r) ==
    /\ status[c] = "idle"
    /\ status' = [status EXCEPT ![c] = "open"] /\ request' = [request EXCEPT ![c] = r]
    /\ UNCHANGED <<kv, answer>>

Perform(c) ==
    /\ status[c] = "open"
    /\ status' = [status EXCEPT ![c] = "answered"]
    /\ kv' = Effect(kv, request[c])
    /\ answer' = [answer EXCEPT ![c] = Reply(kv, request[c])]
    /\ UNCHANGED request

(* Any number of calls may fail, and with them all secrets be forgotten.   *)
Fail(cs) ==
    /\ \A c \in cs : status[c] = "open"
    /\ status' = [c \in Client |-> IF c \in cs THEN "answered" ELSE status[c]]
    /\ answer' = [c \in Client |-> IF c \in cs THEN <<"ERR">> ELSE answer[c]]
    /\ kv' \in {kv, Empty}
    /\ UNCHANGED request

Next ==
    \/ \E c \in Client : Perform(c) \/ \E r \in Request : Ask(c, r)
    \/ \E cs \in SUBSET Client : Fail(cs)

Spec == Init /\ [][Next]_vars
=============================================================================
