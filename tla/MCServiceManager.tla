-------------------------- MODULE MCServiceManager --------------------------
(***************************************************************************)
(* Instances of ServiceManager for TLC: the services 1 and 12, of which    *)
(* s12 contains the name s1; 12 is a catch-all, and so is the second       *)
(* revision of 1.                                                          *)
(***************************************************************************)
EXTENDS ServiceManagerProps

CONSTANTS One, Twelve

MCService == {One, Twelve}
MCSharesName == [s \in MCService |-> IF s = One THEN MCService ELSE {s}]
MCCatchAll == {<<One, 2>>, <<Twelve, 1>>, <<Twelve, 2>>}

=============================================================================
