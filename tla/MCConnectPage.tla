---------------------------- MODULE MCConnectPage ----------------------------
EXTENDS ConnectPage
=============================================================================
