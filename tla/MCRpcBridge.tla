---------------------------- MODULE MCRpcBridge ----------------------------
(* The instance of RpcBridge that TLC checks: two calls at a time, among   *)
(* requests for a built-in, for an external method under a caller id the   *)
(* client chose, for the hub by name, for a handler by name, and a         *)
(* notification; one handler behind MQTT; one lost connection.             *)
EXTENDS RpcBridge

MCRegistrations == <<"available", "response", "announce">>

MCCallOrder == <<"c1", "c2">>

MCServes == {<<"h1", "ping">>}

Notice(topic, empty, id, name, handlers) ==
    [topic |-> topic, empty |-> empty, id |-> id, name |-> name, handlers |-> handlers]

MCNotices ==
    {Notice("echo", FALSE, "h1", "ping", {}),
     Notice("ping", TRUE, None, None, {})}

Request(hasId, caller, handler, mode) ==
    [method |-> "ping", hasId |-> hasId, caller |-> caller, handler |-> handler,
     mode |-> mode, wellFormed |-> TRUE, allowed |-> TRUE]

MCRequests ==
    {Request(TRUE, None, None, "_return_first_success"),
     Request(TRUE, "app", None, "_return_first_error"),
     Request(TRUE, None, "hub", None),
     Request(FALSE, None, "h1", None)}
=============================================================================
