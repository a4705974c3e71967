--------------------------- MODULE MCDeployWatch ---------------------------
(* A stack of two services, the polls of app/main.py cut short.             *)
EXTENDS DeployWatch
=============================================================================
