----------------------------- MODULE MCRedisLink -----------------------------
(* Instances of RedisLink. *)
EXTENDS RedisLink

\* The four channels of the source; the last is the one the daemon publishes to.
TheChannels == <<"unitsd_channel", "ordersd_channel", "webapi_channel", "wsint_channel">>
=============================================================================
