-------------------------- MODULE MCEventDelivery --------------------------
(* Instances of EventDelivery: the readers of a pipe execution emit        *)
(* side by side, a session actor emits alone.                              *)
EXTENDS EventDelivery

CONSTANTS stdout, stderr

BothReaders == {stdout, stderr}
OneActor    == {stdout}
AllKinds    == {"kept", "live"}
KeptOnly    == {"kept"}
=============================================================================
