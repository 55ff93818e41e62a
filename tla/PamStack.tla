------------------------------ MODULE PamStack ------------------------------
(***************************************************************************)
(* What the installer does to the PAM stacks of a machine with a           *)
(* fingerprint reader (sudo_fingerprint, fprint_pam, greetd_fingerprint,   *)
(* hyprlock_pam), while the user and pacman edit them too; and fox-health, *)
(* whose check B2 looks for the stacks that lock the account: a finger     *)
(* that does not match leaves an empty token, and a pam_unix line with     *)
(* try_first_pass ("tfp") behind it counts that as a wrong password.       *)
(*                                                                         *)
(* Of a line only its part in this is kept.  An "include" leads to         *)
(* system-auth, an "anchor" is pam_faillock's preauth or pam_env.          *)
(***************************************************************************)
EXTENDS Integers, Sequences

CONSTANTS NoStack,               \* no such file
          MaxSplices, MaxHands   \* bounds: module runs, steps of the user and of pacman

Service == {"sudo", "login", "greetd", "lock"}
Entry == {"header", "anchor", "include", "unix", "tfp", "fprintd", "marker", "other"}
Stack == Seq(Entry)

(* What a distribution or a user writes.                                   *)
Shape == {<<"header", "include", "other">>, <<"include", "other">>, <<"header", "anchor", "include", "other">>,
          <<"header", "unix", "other">>, <<"header", "tfp", "other">>}

ASSUME PamAssumption == NoStack \notin Stack /\ MaxSplices \in Nat /\ MaxHands \in Nat

VARIABLES
    pam, pamBak,      \* per service /etc/pam.d/<service> and its .foxml-bak
    sysauth,          \* system-auth's pam_unix line: "unix" or "tfp"
    finger,           \* what fprintd-list says: "some", "none", or "unknown" (polkit refuses)
    pamMod,           \* the running module: its service, pc, and the stack it will install
    splices, hands,
    intact            \* history, per service: a password opened it, and since then neither has anybody
                      \* else changed that nor has a replacement of the file come to nothing

pamVars == <<pam, pamBak, sysauth, finger, pamMod, splices, hands, intact>>

Holds(s, line) == \E i \in DOMAIN s : s[i] = line
NoPamModule == [name |-> "none", pc |-> "idle", text |-> <<>>]
PamIdle == pamMod.pc = "idle"

-----------------------------------------------------------------------------
(* A failed finger's token meets try_first_pass.                           *)
Cascades(s, tail) ==
    \E i, j \in DOMAIN s :
       i < j /\ s[i] = "fprintd" /\ s[j] \in IF tail = "tfp" THEN {"tfp", "include"} ELSE {"tfp"}

(* fox-health's B1: the fingerprint above the header of sudo's stack.      *)
B1Fails(s) == s = <<>> \/ s[1] = "fprintd"

(* A password opens the service and costs nothing.  greetd_fingerprint has *)
(* no gate against the cascade (hw_autoenable says so), and is only run    *)
(* when it is asked for.                                                   *)
Opens(f, s, tail) ==
    /\ s # NoStack /\ \E line \in {"unix", "tfp", "include"} : Holds(s, line)
    /\ f # "greetd" => ~Cascades(s, tail)
    /\ f = "sudo" => ~B1Fails(s)

(* fox-health's B2 reads the file, then the files it includes, and         *)
(* compares the first fingerprint line with the first try_first_pass.      *)
Resolved(s, tail) == IF Holds(s, "include") THEN s \o <<"anchor", tail>> ELSE s
FirstAt(s, line, i) == s[i] = line /\ \A k \in 1..(i - 1) : s[k] # line
B2Fails(s, tail) ==
    \E i, j \in DOMAIN Resolved(s, tail) :
       i < j /\ FirstAt(Resolved(s, tail), "fprintd", i) /\ FirstAt(Resolved(s, tail), "tfp", j)

PamInit ==
    /\ pam \in [Service -> Shape \cup {NoStack}] /\ pamBak = [f \in Service |-> NoStack]
    /\ sysauth \in {"unix", "tfp"} /\ finger \in {"some", "none", "unknown"}
    /\ pamMod = NoPamModule /\ splices = 0 /\ hands = 0
    /\ intact = [f \in Service |-> Opens(f, pam[f], sysauth) /\ ~Holds(pam[f], "tfp")]

-----------------------------------------------------------------------------
Spliced(s, i, line) == [k \in 1..(Len(s) + 1) |-> IF k < i THEN s[k] ELSE IF k = i THEN line ELSE s[k - 1]]
AfterHeader(s) == {i + 1 : i \in {k \in DOMAIN s : s[k] = "header"}}

(* splice_pam: after the last anchor, else before the first auth line,     *)
(* else, and where that would be the first line, at the bottom.            *)
IsAuth(line) == line \notin {"header", "marker", "other"}
SplicePlace(s) ==
    LET anchors == {i \in DOMAIN s : s[i] = "anchor"}
        auth == {i \in DOMAIN s : IsAuth(s[i])}
    IN CHOOSE i \in 1..(Len(s) + 1) :
         IF anchors # {} THEN i - 1 \in anchors /\ \A k \in anchors : k < i
         ELSE IF auth # {} /\ 1 \notin auth THEN i \in auth /\ \A k \in auth : i <= k
         ELSE i = Len(s) + 1
HyprlockStack == <<"header", "marker", "include", "other">>

(* The checks of the four modules, up to the sudo that is warm.            *)
SudoGate ==
    /\ finger # "none" /\ ~Holds(pam["sudo"], "fprintd") /\ sysauth # "tfp"
    /\ pam["sudo"] # <<>> /\ pam["sudo"][1] = "header"
(* Fault: try_first_pass is looked for in the service's own file.          *)
LoginGateOwnFile == finger = "some" /\ ~Holds(pam["login"], "fprintd") /\ ~Holds(pam["login"], "tfp")
LoginGate == finger = "some" /\ ~Holds(pam["login"], "fprintd") /\ sysauth # "tfp"
GreetdGate == ~Holds(pam["greetd"], "fprintd")
LockGate == finger = "some" /\ ~Holds(pam["lock"], "marker")

StartSplice(f) ==
    /\ PamIdle /\ splices < MaxSplices /\ splices' = splices + 1
    /\ pam[f] # NoStack
    /\ f = "sudo" => SudoGate
    /\ f = "login" => LoginGate
    /\ f = "greetd" => GreetdGate
    /\ f = "lock" => LockGate
    /\ pamMod' = [name |-> f, pc |-> "backup", text |-> <<>>]
    /\ UNCHANGED <<pam, pamBak, sysauth, finger, hands, intact>>

(* The copy is made once (greetd's every time), and nobody looks whether   *)
(* it was.  What fprint_pam and hyprlock_pam will install is settled here. *)
BackUpStack(f) ==
    /\ pamMod.name = f /\ pamMod.pc = "backup"
    /\ \/ pamBak' = [pamBak EXCEPT ![f] = IF @ = NoStack \/ f = "greetd" THEN pam[f] ELSE @]
       \/ UNCHANGED pamBak
    /\ pamMod' = [pamMod EXCEPT !.pc = IF f \in {"sudo", "greetd"} THEN "sed" ELSE "install",
                                !.text = CASE f = "login" -> Spliced(pam[f], SplicePlace(pam[f]), "fprintd")
                                           [] f = "lock" -> HyprlockStack
                                           [] OTHER -> <<>>]
    /\ UNCHANGED <<pam, sysauth, finger, splices, hands, intact>>

(* sed -i replaces the file in one step, or leaves it.                     *)
SedStack(f) ==
    /\ pamMod.name = f /\ pamMod.pc = "sed" /\ pamMod' = NoPamModule
    /\ \/ \E i \in AfterHeader(pam[f]) : pam' = [pam EXCEPT ![f] = Spliced(@, i, "fprintd")]
       \/ f = "greetd" /\ AfterHeader(pam[f]) = {} /\ pam' = [pam EXCEPT ![f] = Spliced(@, 1, "fprintd")]
       \/ UNCHANGED pam
    /\ UNCHANGED <<pamBak, sysauth, finger, splices, hands, intact>>

(* install(1) removes the file, makes an empty one, then writes it.        *)
InstallStarts(f) ==
    /\ pamMod.name = f /\ pamMod.pc = "install"
    /\ \/ /\ \E gap \in {NoStack, <<>>} : pam' = [pam EXCEPT ![f] = gap]
          /\ pamMod' = [pamMod EXCEPT !.pc = "write"]
       \/ pamMod' = NoPamModule /\ UNCHANGED pam
    /\ UNCHANGED <<pamBak, sysauth, finger, splices, hands, intact>>

(* On a full disk nothing is written; the module reports that the original *)
(* is still in place, and is done.                                         *)
InstallEnds(f) ==
    /\ pamMod.name = f /\ pamMod.pc = "write" /\ pamMod' = NoPamModule
    /\ \/ pam' = [pam EXCEPT ![f] = pamMod.text] /\ UNCHANGED intact
       \/ intact' = [intact EXCEPT ![f] = FALSE] /\ UNCHANGED pam
    /\ UNCHANGED <<pamBak, sysauth, finger, splices, hands>>

-----------------------------------------------------------------------------
(* The user or pacman: what they leave is theirs, the stack of a module at *)
(* work too.                                                               *)
ByOthers ==
    /\ hands < MaxHands /\ hands' = hands + 1
    /\ UNCHANGED <<pamMod, splices>>
Judged(stacks, tail) ==
    /\ pam' = stacks /\ sysauth' = tail
    /\ intact' = [f \in Service |->
           /\ pamMod.name # f /\ Opens(f, stacks[f], tail) /\ ~Holds(stacks[f], "tfp")
           /\ stacks[f] = pam[f] => intact[f]]

EditSystemAuth ==
    /\ ByOthers /\ \E tail \in {"unix", "tfp"} \ {sysauth} : Judged(pam, tail)
    /\ UNCHANGED <<pamBak, finger>>
EditStack(f, s) ==
    /\ ByOthers /\ Judged([pam EXCEPT ![f] = s], sysauth)
    /\ UNCHANGED <<pamBak, finger>>
RestoreStack(f) ==
    /\ ByOthers /\ pamBak[f] # NoStack
    /\ Judged([pam EXCEPT ![f] = pamBak[f]], sysauth) /\ pamBak' = [pamBak EXCEPT ![f] = NoStack]
    /\ UNCHANGED finger
EnrollFinger(state) ==
    /\ ByOthers /\ finger' = state
    /\ UNCHANGED <<pam, pamBak, sysauth, intact>>
KillSplice ==
    /\ ~PamIdle /\ hands < MaxHands /\ hands' = hands + 1
    /\ pamMod' = NoPamModule
    /\ intact' = [f \in Service |-> intact[f] /\ (pamMod.name = f => pamMod.pc # "write")]
    /\ UNCHANGED <<pam, pamBak, sysauth, finger, splices>>

PamNext ==
    \/ \E f \in Service : StartSplice(f) \/ BackUpStack(f) \/ SedStack(f) \/ InstallStarts(f) \/ InstallEnds(f)
    \/ EditSystemAuth \/ KillSplice
    \/ \E f \in Service : RestoreStack(f) \/ \E s \in Shape : EditStack(f, s)
    \/ \E state \in {"some", "none", "unknown"} : EnrollFinger(state)

PamSpec == PamInit /\ [][PamNext]_pamVars

-----------------------------------------------------------------------------
PamTypeOK ==
    /\ \A f \in Service : /\ pam[f] \in Stack \cup {NoStack} /\ pamBak[f] \in Stack \cup {NoStack}
                          /\ intact[f] \in BOOLEAN
                          /\ pam[f] # NoStack => \A i, j \in DOMAIN pam[f] : pam[f][i] = "fprintd" /\ pam[f][j] = "fprintd" => i = j
    /\ sysauth \in {"unix", "tfp"} /\ finger \in {"some", "none", "unknown"}
    /\ pamMod.name \in Service \cup {"none"} /\ pamMod.pc \in {"idle", "backup", "sed", "install", "write"}
    /\ pamMod.text \in Stack /\ splices \in 0..MaxSplices /\ hands \in 0..MaxHands

(* What the fingerprint modules do to a stack of sudo, login or the lock   *)
(* screen that a password opened at no cost, and that has no               *)
(* try_first_pass of its own, leaves it so; greetd's is only said to have  *)
(* a password line still.  Excepted is what follows a change of the stack  *)
(* or of system-auth by somebody else, and a replacement of the file that  *)
(* was killed or failed.  Nothing is promised of a stack with its own      *)
(* try_first_pass, which the modules do splice, nor of the cost at         *)
(* greetd's; but whatever stack locks the account, for these or any other  *)
(* reasons, fox-health's B2 reports it.                                    *)
SplicesAreSafeOrSeen ==
    \A f \in Service :
       /\ intact[f] /\ ~(pamMod.name = f /\ pamMod.pc = "write") => Opens(f, pam[f], sysauth)
       /\ pam[f] # NoStack /\ Cascades(pam[f], sysauth) => B2Fails(pam[f], sysauth)
=============================================================================
