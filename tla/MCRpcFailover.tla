---------------------------- MODULE MCRpcFailover ----------------------------
EXTENDS RpcFailover

\* No node puts "Network error:" in front of its own messages.
PlainReplies == AllReplies \ {"errorNet", "httpNet"}
=============================================================================
