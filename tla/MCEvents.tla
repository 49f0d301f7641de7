------------------------------ MODULE MCEvents ------------------------------
(***************************************************************************)
(* Events for TLC: a service and a task that runs around it.               *)
(***************************************************************************)
EXTENDS Events

CONSTANTS service, task, up, down

On(kind, of) == [op |-> "match", name |-> EventName(kind, of)]

Both(l, r) == [op |-> "and", left |-> l, right |-> r]

Either(l, r) == [op |-> "or", left |-> l, right |-> r]

\* The task runs before the service stops, and also once the service has
\* started and the event down, which stops the service, has come, in either
\* order.  It is stopped before the service starts again, and by both events.
MCStartOn ==
    [j \in Jobs |->
        CASE j = service -> <<On("emit", up)>>
          [] j = task    -> <<On("started", service), On("emit", down),
                              Both(1, 2), On("stopping", service), Either(3, 4)>>]

MCStopOn ==
    [j \in Jobs |->
        CASE j = service -> <<On("emit", down)>>
          [] j = task    -> <<On("starting", service), On("emit", up), On("emit", down),
                              Both(2, 3), Either(1, 4)>>]

\* The task runs before the service stops and is stopped before it starts.
AroundStartOn ==
    [j \in Jobs |->
        CASE j = service -> <<On("emit", up)>>
          [] j = task    -> <<On("stopping", service)>>]

AroundStopOn ==
    [j \in Jobs |->
        CASE j = service -> <<On("emit", down)>>
          [] j = task    -> <<On("starting", service)>>]
=============================================================================
