-------------------------- MODULE MCInstallSelect --------------------------
(* Model-checking instance of InstallSelect: six modules that stand for    *)
(* the roles a module of modules.def may have.  vault is --quick's module  *)
(* here, so that one module less is enough.                                *)
EXTENDS InstallSelect

CONSTANTS detect, render, symlinks, vault, sudo_fingerprint, greetd_fingerprint, reader

MCRegistry == <<detect, vault, render, symlinks, greetd_fingerprint, sudo_fingerprint>>
MCPart == [m \in {greetd_fingerprint, sudo_fingerprint} |-> reader]

(* check_render and check_vault, "fresh" being no different from "update". *)
MCAnswers == {s \in [Checked -> Status] :
                 /\ s[render] \in {"noop", "update", "conflict"}
                 /\ s[vault] \in {"noop", "update", "blocked"}}
=============================================================================
