------------------------- MODULE MCOutboxPublisher --------------------------
(***************************************************************************)
(* Instances of OutboxPublisher for TLC.                                   *)
(***************************************************************************)
EXTENDS OutboxPublisher, TLC

CONSTANTS i1, i2

\* Two processes with an InstanceID each, or configured with the same one.
Pairs == {i1 :> "one" @@ i2 :> "two", i1 :> "one" @@ i2 :> "one"}
Alone == {i1 :> "one"}
=============================================================================
