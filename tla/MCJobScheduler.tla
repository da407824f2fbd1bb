--------------------------- MODULE MCJobScheduler ---------------------------
(* Small instances of JobScheduler. *)
EXTENDS JobScheduler

Request(id, q, p, sticky, hint) ==
    [id |-> id, queue |-> q, priority |-> p, sticky |-> sticky, hint |-> hint]

SomeRequests ==
    {Request("a", "local", 0, TRUE, None), Request("a", "remote", 1, TRUE, "d2"),
     Request("b", "local", 1, FALSE, None)}

OneDeviceEach == [w \in Workers |-> IF w = "w1" THEN "d1" ELSE "d2"]
=============================================================================
