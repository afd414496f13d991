----------------------------- MODULE MCHttpAccess -----------------------------
(***************************************************************************)
(* Instances of HttpAccess: a POST of several pieces, which the            *)
(* accumulator must grow for, next to a request of any other kind.         *)
(***************************************************************************)
EXTENDS HttpAccess

MCConns == {"c1", "c2"}
HttpRequest(method, allowed, length) ==
    [method |-> method, allowed |-> allowed, length |-> length]
MCRequests ==
    {HttpRequest("POST", TRUE, 4), HttpRequest("POST", TRUE, 0),
     HttpRequest("POST", FALSE, 1), HttpRequest("GET", TRUE, 0),
     HttpRequest("GET", TRUE, 1)}
=============================================================================
