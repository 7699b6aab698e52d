---------------------------- MODULE MonitorSystem ----------------------------
(***************************************************************************)
(* The monitor beside the recorder it shares the table with.               *)
(***************************************************************************)
EXTENDS Monitor, Recorder

Init == RecorderInit /\ MonitorInit

Next ==
  \/ RecorderStep /\ UNCHANGED monitorVars
  \/ PipeRead /\ UNCHANGED monitorVars
  \/ MonitorStep /\ UNCHANGED recorderVars
  \/ Stopped /\ UNCHANGED monitorVars

\* the monitor thread runs whatever the others do
Spec == Init /\ [][Next]_<<tierVars, recorderVars, monitorVars>>
             /\ WF_<<tierVars, recorderVars, monitorVars>>
                  (MonitorStep /\ UNCHANGED recorderVars)

TypeOK == RecorderTypeOK /\ MonitorTypeOK
=============================================================================
