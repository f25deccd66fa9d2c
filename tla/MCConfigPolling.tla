-------------------------- MODULE MCConfigPolling ---------------------------
(* Instances of ConfigPolling for TLC. *)
EXTENDS ConfigPollingProps

CONSTANTS plain, other, umlaut

\* The sensor was installed with the same plain value for all of its settings.
AllPlain == [s \in Setting |-> plain]

\* The server still holds that configuration, or another network since.
PlainOrMoved == {AllPlain, [s \in Setting |-> IF s \in Network THEN other ELSE plain]}
=============================================================================
