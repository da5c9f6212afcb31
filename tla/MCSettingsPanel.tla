-------------------------- MODULE MCSettingsPanel ---------------------------
(* One page: a proxy with and without credentials, and one other input.    *)
EXTENDS SettingsPanel, TLC

InputNames   == {"proxy", "time"}
InputChoices == [i \in InputNames |->
                   IF i = "proxy" THEN {"direct", "host", "user@host"} ELSE {"default", "set"}]
Stripped     == [p \in {"direct", "host", "user@host"} |-> IF p = "user@host" THEN "host" ELSE p]
PageDefaults == [i \in InputNames |-> IF i = "proxy" THEN "direct" ELSE "default"]
LoadSymmetry == Permutations(Loads)
=============================================================================
