---------------------------- MODULE MCDeployment ----------------------------
(***************************************************************************)
(* Deployment for TLC: every choice of networks with the secrets fixed, and*)
(* every choice of secrets on the default network.                         *)
(***************************************************************************)
EXTENDS Deployment

All == AllEnvironments({"s1"})
Networks == {e \in All : e.production /\ e.tokenSecret = "s1" /\ e.sessionSecret = Unset}
Secrets == {e \in All : \A x \in {"network", "passphrase", "horizon", "rpc", "contract"} :
                           e[x] = Unset}
Environments == Networks \cup Secrets
=============================================================================
