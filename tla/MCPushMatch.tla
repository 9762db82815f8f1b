---------------------------- MODULE MCPushMatch ----------------------------
(* TLC instance of PushMatch. *)
EXTENDS PushMatch

\* Every installation wants every event.
WantsAll == Installations \X Events
=============================================================================
