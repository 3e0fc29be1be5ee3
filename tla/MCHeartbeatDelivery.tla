------------------------ MODULE MCHeartbeatDelivery -------------------------
(* HeartbeatDelivery with a short day. *)
EXTENDS HeartbeatDelivery

Setting(target, usage, compacts, start, end) ==
    [target |-> target, usage |-> usage, compacts |-> compacts,
     windowed |-> TRUE, start |-> start, end |-> end]

\* Channels with and without status lines; a window over midnight, one within
\* the day, an empty one, and none at all.
MCConfigs == {
    Setting("outbound", FALSE, FALSE, 3, 1),
    Setting("outbound", TRUE, TRUE, 2, 1),
    Setting("cli", TRUE, TRUE, 1, 3),
    Setting("none", FALSE, TRUE, 2, 2),
    [Setting("unset", TRUE, FALSE, 0, 0) EXCEPT !.windowed = FALSE]}

\* A channel, and a server that does not report usage.
MCCompacting == {Setting("outbound", FALSE, TRUE, 2, 1)}
=============================================================================
