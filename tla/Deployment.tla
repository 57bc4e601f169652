----------------------------- MODULE Deployment -----------------------------
(***************************************************************************)
(* What a deployment makes of its environment: the ledger the API and its  *)
(* pages talk to (stellar.config.ts, main.ts) and the secret check-in      *)
(* codes are signed with (secrets.ts).                                     *)
(*                                                                         *)
(* Passphrases, endpoints and contract ids stand for the network they      *)
(* belong to; that of an endpoint is the one its host serves.              *)
(***************************************************************************)
CONSTANTS Environment,  \* the environments an operator may set
          Down,         \* no API is running
          Refused       \* a configuration that stops it from starting

VARIABLE api            \* what the running API resolved, or Down

Network == {"PUBLIC", "TESTNET"}
Unset == "unset"
Given == Network \cup {Unset}
DevelopmentSecret == "development-only-checkin-secret"

\* Every environment there is, if Secret are the values of the secrets.
AllEnvironments(Secret) ==
    [network : Given, passphrase : Given, horizon : Given, rpc : Given, contract : Given,
     production : BOOLEAN, tokenSecret : Secret \cup {Unset}, sessionSecret : Secret \cup {Unset}]

Or(x, default) == IF x = Unset THEN default ELSE x

Init == api = Down

----------------------------------------------------------------------------
\* Anything but TESTNET is the public network.
Selected(x) == IF x = "TESTNET" THEN "TESTNET" ELSE "PUBLIC"

\* Passphrase and Horizon endpoint must be of the network; the RPC endpoint and the
\* contract are taken as they are.
readStellarSettings(e) ==
    LET network == Selected(e.network)
    IN  IF Or(e.passphrase, network) # network \/ Or(e.horizon, network) # network
        THEN Refused
        ELSE [network |-> network, passphrase |-> network, rpc |-> Or(e.rpc, network),
              horizon |-> network, contract |-> e.contract]

checkInSecret(e) ==
    IF Or(e.tokenSecret, e.sessionSecret) # Unset THEN Or(e.tokenSecret, e.sessionSecret)
    ELSE IF e.production THEN Refused ELSE DevelopmentSecret

\* The endpoints the content security policy lets a page connect to.
ConnectSrc(e) == [rpc |-> Or(e.rpc, "TESTNET"), horizon |-> Or(e.horizon, "TESTNET")]

\* The API starts, if its configuration is not refused.
Start(e) ==
    /\ api = Down
    /\ readStellarSettings(e) # Refused
    /\ checkInSecret(e) # Refused
    /\ api' = [settings |-> readStellarSettings(e), secret |-> checkInSecret(e),
               connectSrc |-> ConnectSrc(e)]

Stop == api # Down /\ api' = Down

Next == (\E e \in Environment : Start(e)) \/ Stop

Spec == Init /\ [][Next]_api

----------------------------------------------------------------------------
(***************************************************************************)
(* What a comment says of a deployment, and the code does not do.          *)
(***************************************************************************)
\* stellar.config.ts: "Every default follows the selected network": pages may connect
\* to the endpoints they are told to use.
DefaultsFollowTheNetwork ==
    api # Down => LET s == api.settings IN
        api.connectSrc.horizon = s.horizon /\ api.connectSrc.rpc = s.rpc
=============================================================================
