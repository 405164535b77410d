------------------------------ MODULE MCCommit ------------------------------
(***************************************************************************)
(* Instances of CommitProtocol for TLC: who runs on which device.          *)
(***************************************************************************)
EXTENDS CommitProperties, TLC

CONSTANTS a, b, c, phone, laptop

\* Each process has a device, and so an Index, of its own.
Apart == a :> phone @@ b :> laptop

\* Two processes of one device share its Index; a third has its own.
TogetherAndApart == a :> phone @@ b :> phone @@ c :> laptop
=============================================================================
