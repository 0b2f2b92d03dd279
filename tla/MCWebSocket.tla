---------------------------- MODULE MCWebSocket ----------------------------
(* On a TcpConnection any two frames and one call of send(); on an         *)
(* SslConnection any frame whose length is in its header and the one that  *)
(* closes, and two calls.                                                  *)
EXTENDS WebSocket

MCScripts ==
    [c \in Classes |->
        {s \in [1 .. NFrames -> Frame] : c = "ssl" => s[NFrames].op = "close" /\ \A k \in DOMAIN s : ~s[k].long}]

MCSends == [c \in Classes |-> IF c = "tcp" THEN 1 ELSE 2]
=============================================================================
