------------------------------- MODULE Parts -------------------------------
(* Five parts that share no row with each other: when texts go out         *)
(* (SendTimes), jobs for HighLevel (CrmQueue), its tokens (TokenStore),    *)
(* the browser telephone (VoiceSetup) and starting processes (Migrations). *)
(* A behaviour here is one of a single part; SetupProofs shows that it is  *)
(* a behaviour of each.                                                    *)
EXTENDS SendTimes, CrmQueue, TokenStore, VoiceSetup, Migrations

VARIABLE part

partVars == <<textVars, crmVars, tokenVars, voiceVars, migrationVars, part>>

Init == /\ TextInit /\ CrmInit /\ TokenInit /\ VoiceInit /\ MigrationInit
        /\ part \in {"texts", "crm", "tokens", "voice", "migrations"}
        /\ part # "texts" => rate = CHOOSE r \in Rates : TRUE
        /\ part # "migrations" => effective = {}

Texting   == TextNext /\ UNCHANGED <<crmVars, tokenVars, voiceVars, migrationVars>>
Noting    == CrmNext /\ UNCHANGED <<textVars, tokenVars, voiceVars, migrationVars>>
Calling   == TokenNext /\ UNCHANGED <<textVars, crmVars, voiceVars, migrationVars>>
Settling  == VoiceNext /\ UNCHANGED <<textVars, crmVars, tokenVars, migrationVars>>
Migrating == MigrationNext /\ UNCHANGED <<textVars, crmVars, tokenVars, voiceVars>>

Next ==
    /\ \/ part = "texts" /\ Texting
       \/ part = "crm" /\ Noting
       \/ part = "tokens" /\ Calling
       \/ part = "voice" /\ Settling
       \/ part = "migrations" /\ Migrating
    /\ UNCHANGED part

Spec == Init /\ [][Next]_partVars

TypeOK == TextTypeOK /\ CrmTypeOK /\ TokenTypeOK /\ VoiceTypeOK /\ MigrationTypeOK

(* Fair behaviours of the queue for HighLevel and of its tokens end what   *)
(* they begin: every job, and every call that waits for the row.           *)
CRMJobsEnd == part = "crm" => EveryCRMJobEnds
CallsEnd   == part = "tokens" => EveryCallEnds
=============================================================================
