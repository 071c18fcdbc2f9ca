------------------------------ MODULE EngineSlot ------------------------------
(***************************************************************************)
(* What an operator of homoscale start and stop relies on: there is one    *)
(* slot for an engine, a start fills it only when it is empty, and a stop  *)
(* gives its report only when it is empty.  EngineSupervisor implements    *)
(* this for commands that do not overlap (its SerialSpec).                 *)
(***************************************************************************)
CONSTANTS
    Engines,
    Stops,
    Empty       \* no engine; not one of Engines

VARIABLES
    slot,       \* the engine that runs, or Empty
    report      \* what each stop has said: "none", "notRunning" or "stopped"

Init == slot = Empty /\ report = [k \in Stops |-> "none"]

Launch == /\ slot = Empty
          /\ slot' \in Engines
          /\ UNCHANGED report

End == /\ slot # Empty
       /\ slot' = Empty
       /\ UNCHANGED report

Report(k) == /\ slot = Empty
             /\ report[k] = "none"
             /\ \E word \in {"notRunning", "stopped"} :
                  report' = [report EXCEPT ![k] = word]
             /\ UNCHANGED slot

Next == Launch \/ End \/ \E k \in Stops : Report(k)

Spec == Init /\ [][Next]_<<slot, report>>
=============================================================================
