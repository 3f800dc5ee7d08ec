---------------------------- MODULE ControlPlane ----------------------------
(***************************************************************************)
(* What surrounds the serving of requests: the verifiers of callers, the   *)
(* operators' accounts, the database, the configuration taken from the     *)
(* environment and the sealed credentials.  These parts share no state     *)
(* with one another, so a behaviour is one of one of them, and the state   *)
(* of the others is parked.                                                *)
(***************************************************************************)
EXTENDS Verifiers, Accounts, Database, Environment, Secrets

controlVars == <<verifierVars, accountVars, dbVars, envVars, secretVars>>

ControlOff == VerifyOff /\ AccountOff /\ DatabaseOff /\ EnvOff /\ SecretOff

ControlInit ==
  \/ VerifyInit   /\ AccountOff /\ DatabaseOff /\ EnvOff /\ SecretOff
  \/ AccountInit  /\ VerifyOff /\ DatabaseOff /\ EnvOff /\ SecretOff
  \/ DatabaseInit /\ VerifyOff /\ AccountOff /\ EnvOff /\ SecretOff
  \/ EnvInit      /\ VerifyOff /\ AccountOff /\ DatabaseOff /\ SecretOff
  \/ SecretInit   /\ VerifyOff /\ AccountOff /\ DatabaseOff /\ EnvOff

ControlNext ==
  \/ VerifyNext   /\ UNCHANGED <<accountVars, dbVars, envVars, secretVars>>
  \/ AccountNext  /\ UNCHANGED <<verifierVars, dbVars, envVars, secretVars>>
  \/ DatabaseNext /\ UNCHANGED <<verifierVars, accountVars, envVars, secretVars>>
  \/ EnvNext      /\ UNCHANGED <<verifierVars, accountVars, dbVars, secretVars>>
  \/ SecretsNext  /\ UNCHANGED <<verifierVars, accountVars, dbVars, envVars>>

ControlSpec == ControlInit /\ [][ControlNext]_controlVars
=============================================================================
