---------------------------- MODULE MCEventLog ----------------------------
(* Instances of EventLog: a stdout and a stderr reader of a pipe exec.     *)
EXTENDS EventLog

CONSTANTS stdout, stderr

BothReaders == {stdout, stderr}
AllKinds    == {"kept", "live"}
=============================================================================
