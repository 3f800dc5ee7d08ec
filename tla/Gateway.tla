------------------------------ MODULE Gateway ------------------------------
(***************************************************************************)
(* The server: the requests it serves and its shutdown, the decisions it   *)
(* takes for them, each also alone over more inputs than requests produce, *)
(* and what surrounds it (ControlPlane).                                   *)
(***************************************************************************)
EXTENDS Serving, ControlPlane

gatewayVars == <<serveVars, decideVars, controlVars>>

GatewayInit == \/ ServeInit   /\ DecideOff /\ ControlOff
               \/ DecideInit  /\ ServeOff /\ ControlOff
               \/ ControlInit /\ ServeOff /\ DecideOff

GatewayNext == \/ ServeNext   /\ UNCHANGED <<decideVars, controlVars>>
               \/ DecideNext  /\ UNCHANGED <<serveVars, controlVars>>
               \/ ControlNext /\ UNCHANGED <<serveVars, decideVars>>

GatewaySpec == /\ GatewayInit /\ [][GatewayNext]_gatewayVars
               /\ ServeFairness /\ ClientsRead

(* Administrators who save one at a time: no two calls overlap.            *)
Busy == {o \in Operators : tasks[o].pc \notin {"idle", "done", "refused", "failed"}}

OneEditor ==
  /\ SecretInit /\ ServeOff /\ DecideOff
  /\ VerifyOff /\ AccountOff /\ DatabaseOff /\ EnvOff
  /\ [][SecretsNext /\ Cardinality(Busy') <= 1 /\ UNCHANGED <<serveVars, decideVars,
        verifierVars, accountVars, dbVars, envVars>>]_gatewayVars
=============================================================================
