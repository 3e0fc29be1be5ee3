---------------------------- MODULE MCMessageBus ----------------------------
(* MessageBus on small instances: one chat, two fragments. *)
EXTENDS MessageBus, TLC

CONSTANTS f1, f2, d1

\* The first fragment is posted again, as BlueBubbles does on a reconnect.
OneReplay == {<<f1, 1>>, <<f1, 2>>, <<f2, 1>>}

OneThread == (f1 :> "chat") @@ (f2 :> "chat")
=============================================================================
