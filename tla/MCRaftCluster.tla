---------------------------- MODULE MCRaftCluster ----------------------------
EXTENDS RaftCluster
=============================================================================
