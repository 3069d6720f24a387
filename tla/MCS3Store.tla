------------------------------ MODULE MCS3Store ------------------------------
(***************************************************************************)
(* S3Store with the placement of the public requests.                      *)
(***************************************************************************)
EXTENDS S3Store

CONSTANTS InBroker, InWeb, web   \* the readers of each process

MCHome == [r \in InBroker \cup InWeb |-> IF r \in InBroker THEN Broker ELSE web]
=============================================================================
