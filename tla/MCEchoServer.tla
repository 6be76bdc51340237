---------------------------- MODULE MCEchoServer ----------------------------
(***************************************************************************)
(* EchoServer for TLC: two servers, two clients, and a queue that one of   *)
(* them fills; a line that has capitals and one that is in capitals.       *)
(***************************************************************************)
EXTENDS EchoServer, TLC

CONSTANTS abc, ABC

EchoMessages == {abc, ABC}

Capitals == (abc :> ABC) @@ (ABC :> ABC)

=============================================================================
