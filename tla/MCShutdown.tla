----------------------------- MODULE MCShutdown -----------------------------
(* The servers a late horse needs, in the order of Broker.shutdown.         *)
EXTENDS Shutdown, TLC

TwoServers == <<"general-repo", "stable">>
=============================================================================
