---------------------------- MODULE ImportedSource ----------------------------
(***************************************************************************)
(* What README.md:24-25 promises of an imported Mihomo configuration:      *)
(* importing one replaces the one remembered before, and every engine that *)
(* is started later runs the remembered one, in the directory it came from. *)
(* Only a command that fails can leave a broken one, until the next import. *)
(***************************************************************************)
CONSTANTS
    Commands,   \* the runs of homoscale
    Files,      \* the Mihomo configurations that can be imported
    Nothing,    \* nothing imported: homoscale's or the user's own config.yaml
    Broken,     \* neither the old nor the new import as a whole
    Down        \* no engine runs

VARIABLES
    remembered, \* what has been imported
    running,    \* what the engine runs
    failed      \* the commands that have failed or have been killed

Init == remembered = Nothing /\ running = Down /\ failed = {}

Import == /\ remembered' \in Files
          /\ UNCHANGED <<running, failed>>

Fail(c) == /\ c \notin failed
           /\ failed' = failed \cup {c}
           /\ remembered' \in {remembered, Broken}
           /\ running' \in {running, Down}

Launch == /\ running = Down
          /\ running' = remembered
          /\ UNCHANGED <<remembered, failed>>

End == /\ running' = Down
       /\ UNCHANGED <<remembered, failed>>

Next == Import \/ (\E c \in Commands : Fail(c)) \/ Launch \/ End

Spec == Init /\ [][Next]_<<remembered, running, failed>>
=============================================================================
