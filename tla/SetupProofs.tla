---------------------------- MODULE SetupProofs ----------------------------
(***************************************************************************)
(* Theorems about VoiceSetup and Migrations, for any number of callers and *)
(* processes, any number of files and any number of failures; and about    *)
(* their composition with the other small parts.                           *)
(***************************************************************************)
EXTENDS Parts, SendProofs, CrmProofs, TokenProofs

(* Voice.  A caller that is about to create a resource has not created one *)
(* of its kind: it has looked since it last created anything, for the      *)
(* credential before all the others.  And it has what the resource needs.  *)
PastCredential(c) ==
    caller[c] \notin {Idle, [does |-> "look", kind |-> "credential"]}

VoiceInv ==
    /\ VoiceTypeOK
    /\ \A k \in Kinds, c \in Callers : made[k][c] <= 1
    /\ \A c \in Callers : caller[c].does = "create" => made[caller[c].kind][c] = 0
    /\ \A c \in Callers : PastCredential(c) => made["credential"][c] = 0
    /\ \A c \in Callers : PastCredential(c) /\ caller[c].kind # "profile" => Listed("profile")
    /\ \A c \in Callers :
          PastCredential(c) /\ caller[c].kind = "credential" => Listed("connection")
    /\ Listed("credential") => Listed("connection")
    /\ Listed("connection") => Listed("profile")

LEMMA VoiceInitially == VoiceInit => VoiceInv
  BY DEF VoiceInit, VoiceInv, VoiceTypeOK, Kinds, Caller, Idle, PastCredential, Listed

LEMMA ProvisionStep ==
  ASSUME VoiceInv, NEW c \in Callers, Provision(c)
  PROVE  VoiceInv'
  BY DEF Provision, GoesOn, VoiceInv, VoiceTypeOK, Kinds, Caller, Idle, PastCredential, Listed

LEMMA LookStep ==
  ASSUME VoiceInv, NEW c \in Callers, Look(c)
  PROVE  VoiceInv'
<1>1. CASE caller[c].kind = "profile"
  BY <1>1 DEF Look, GoesOn, After, Missing, VoiceInv, VoiceTypeOK, Kinds, Caller, Idle,
              PastCredential, Listed
<1>2. CASE caller[c].kind = "connection"
  BY <1>2 DEF Look, GoesOn, After, Missing, VoiceInv, VoiceTypeOK, Kinds, Caller, Idle,
              PastCredential, Listed
<1>3. CASE caller[c].kind = "credential"
  BY <1>3 DEF Look, GoesOn, After, Missing, VoiceInv, VoiceTypeOK, Kinds, Caller, Idle,
              PastCredential, Listed
<1> QED BY <1>1, <1>2, <1>3 DEF VoiceInv, VoiceTypeOK, Caller, Idle, Kinds

LEMMA CreateStep ==
  ASSUME VoiceInv, NEW c \in Callers, Create(c)
  PROVE  VoiceInv'
<1>1. CASE caller[c].kind = "profile"
  BY <1>1 DEF Create, Creates, GoesOn, After, VoiceInv, VoiceTypeOK, Kinds, Caller, Idle,
              PastCredential, Listed
<1>2. CASE caller[c].kind = "connection"
  BY <1>2 DEF Create, Creates, GoesOn, After, VoiceInv, VoiceTypeOK, Kinds, Caller, Idle,
              PastCredential, Listed
<1>3. CASE caller[c].kind = "credential"
  BY <1>3 DEF Create, Creates, GoesOn, After, VoiceInv, VoiceTypeOK, Kinds, Caller, Idle,
              PastCredential, Listed
<1> QED BY <1>1, <1>2, <1>3 DEF VoiceInv, VoiceTypeOK, Caller, Idle, Kinds

LEMMA BreaksStep ==
  ASSUME VoiceInv, NEW c \in Callers, Breaks(c)
  PROVE  VoiceInv'
<1>1. CASE UNCHANGED made
  BY <1>1 DEF Breaks, GoesOn, VoiceInv, VoiceTypeOK, Kinds, Caller, Idle, PastCredential, Listed
<1>2. ASSUME NEW k \in Kinds, caller[c].does = "create", caller[c].kind = k, Creates(c, k)
      PROVE  VoiceInv'
  <2>1. /\ made' = [made EXCEPT ![k][c] = @ + 1]
        /\ caller' = [caller EXCEPT ![c] = Idle]
        /\ made[k][c] = 0 /\ PastCredential(c)
    BY <1>2 DEF Breaks, Creates, GoesOn, VoiceInv, PastCredential, Idle
  <2>2. /\ caller'[c] = Idle
        /\ \A d \in Callers \ {c} : caller'[d] = caller[d]
        /\ made'[k][c] = 1
        /\ \A i \in Kinds, d \in Callers : <<i, d>> # <<k, c>> => made'[i][d] = made[i][d]
    BY <2>1 DEF VoiceInv, VoiceTypeOK
  <2>3. VoiceTypeOK'
    BY <2>1 DEF VoiceInv, VoiceTypeOK, Caller, Idle, Kinds
  <2>4. \A i \in Kinds : Listed(i) => Listed(i)'
    BY <2>2 DEF Listed
  <2>5. \A i \in Kinds : Listed(i)' => Listed(i) \/ i = k
    BY <2>2 DEF Listed
  <2>6. \A d \in Callers : PastCredential(d)' => d # c /\ PastCredential(d)
    BY <2>2 DEF PastCredential
  <2>7. {"profile", "connection", "credential"} \subseteq Kinds
    BY DEF Kinds
  <2>8. \A i \in Kinds, d \in Callers : made'[i][d] <= 1
    BY <2>2 DEF VoiceInv
  <2>9. \A d \in Callers : caller'[d].does = "create" => made'[caller'[d].kind][d] = 0
    BY <1>2, <2>2 DEF VoiceInv, VoiceTypeOK, Caller, Idle
  <2>10. \A d \in Callers : PastCredential(d)' => made'["credential"][d] = 0
    BY <2>2, <2>6, <2>7 DEF VoiceInv
  <2>11. \A d \in Callers : PastCredential(d)' /\ caller'[d].kind # "profile" => Listed("profile")'
    BY <2>2, <2>4, <2>6, <2>7 DEF VoiceInv
  <2>12. \A d \in Callers :
            PastCredential(d)' /\ caller'[d].kind = "credential" => Listed("connection")'
    BY <2>2, <2>4, <2>6, <2>7 DEF VoiceInv
  <2>13. Listed("credential")' => Listed("connection")'
    BY <1>2, <2>1, <2>4, <2>5, <2>7 DEF VoiceInv
  <2>14. Listed("connection")' => Listed("profile")'
    BY <1>2, <2>1, <2>4, <2>5, <2>7 DEF VoiceInv
  <2> QED  BY <2>3, <2>8, <2>9, <2>10, <2>11, <2>12, <2>13, <2>14 DEF VoiceInv
<1>3. caller[c].kind \in Kinds
  <2>1. caller[c] \in Caller
    BY DEF VoiceInv, VoiceTypeOK
  <2> QED  BY <2>1 DEF Caller, Idle, Kinds
<1>4. CASE caller[c].does = "create" /\ Creates(c, caller[c].kind)
  BY <1>2, <1>3, <1>4
<1> QED BY <1>1, <1>4 DEF Breaks

LEMMA VoiceStep == VoiceInv /\ [VoiceNext]_voiceVars => VoiceInv'
<1> SUFFICES ASSUME VoiceInv, [VoiceNext]_voiceVars PROVE VoiceInv'
  OBVIOUS
<1>1. CASE UNCHANGED voiceVars
  BY <1>1 DEF voiceVars, VoiceInv, VoiceTypeOK, PastCredential, Listed
<1>2. CASE VoiceNext
  BY <1>2, ProvisionStep, LookStep, CreateStep, BreaksStep DEF VoiceNext
<1> QED BY <1>1, <1>2

(* The types of voice provisioning.                                        *)
THEOREM VoiceTypeCorrect == VoiceSpec => []VoiceTypeOK
<1>1. VoiceInv => VoiceTypeOK
  BY DEF VoiceInv
<1> QED BY <1>1, VoiceInitially, VoiceStep, PTL DEF VoiceSpec

(* However many requests overlap, fail or are repeated, a caller makes at  *)
(* most one resource of a kind, each with what it rests on.                *)
THEOREM OneSetTheorem == VoiceSpec => []OneSetPerCaller
<1>1. VoiceInv => OneSetPerCaller
  BY DEF VoiceInv, OneSetPerCaller
<1> QED BY <1>1, VoiceInitially, VoiceStep, PTL DEF VoiceSpec
-----------------------------------------------------------------------------
(* Migrations.  Whoever is past the lock has it, all files before its own  *)
(* are recorded, and one that it applies is not: nobody else can record it *)
(* in between.                                                             *)
MigrationInv ==
    /\ MigrationTypeOK
    /\ \A p \in Starters : At(p, "waiting") => starter[p].file = 1
    /\ \A p \in Starters : At(p, "checking") \/ At(p, "applying") =>
          /\ advisory = p
          /\ \A f \in Files : f < starter[p].file => f \in recorded
    /\ \A p \in Starters : At(p, "applying") =>
          starter[p].file \in Files /\ starter[p].file \notin recorded
    /\ \A f \in recorded, g \in Files : g <= f => g \in recorded
    /\ recorded \subseteq effective
    /\ \A p \in Starters : At(p, "running") => recorded = Files
    /\ \A p \in Starters : At(p, "exited") => p \in struck

LEMMA MigrationInitially == MigrationInit => MigrationInv
  BY MigrationsAssumption
  DEF MigrationInit, MigrationInv, MigrationTypeOK, Starter, Waiting, Files, At

LEMMA LockStep ==
  ASSUME MigrationInv, NEW p \in Starters, Lock(p)
  PROVE  MigrationInv'
  BY MigrationsAssumption DEF Lock, Goes, MigrationInv, MigrationTypeOK, Starter, Files, At

LEMMA CheckStep ==
  ASSUME MigrationInv, NEW p \in Starters, Check(p)
  PROVE  MigrationInv'
<1>1. CASE starter[p].file \in recorded
  BY <1>1, MigrationsAssumption
  DEF Check, NextFile, MigrationInv, MigrationTypeOK, Starter, Files, At
<1>2. CASE starter[p].file \notin recorded
  BY <1>2 DEF Check, Goes, MigrationInv, MigrationTypeOK, Starter, At
<1> QED BY <1>1, <1>2

LEMMA ApplyFileStep ==
  ASSUME MigrationInv, NEW p \in Starters, ApplyFile(p)
  PROVE  MigrationInv'
  BY MigrationsAssumption
  DEF ApplyFile, Goes, NextFile, Unlock, MigrationInv, MigrationTypeOK, Starter, Files, At

LEMMA RunStep ==
  ASSUME MigrationInv, NEW p \in Starters, Run(p)
  PROVE  MigrationInv'
<1>1. starter[p].file = LastFile + 1
  BY MigrationsAssumption DEF Run, MigrationInv, MigrationTypeOK, Starter, Files
<1>2. recorded = Files
  <2>1. \A f \in Files : f < starter[p].file
    BY <1>1, MigrationsAssumption DEF Files
  <2>2. \A f \in Files : f < starter[p].file => f \in recorded
    BY DEF Run, MigrationInv
  <2> QED BY <2>1, <2>2 DEF MigrationInv, MigrationTypeOK
<1>3. /\ starter' = [starter EXCEPT ![p].pc = "running"]
      /\ advisory = p
      /\ advisory' = NoStarter
      /\ UNCHANGED <<recorded, effective, struck, breaks>>
  BY DEF Run, Goes, Unlock, MigrationInv
<1>4. \A q \in Starters \ {p} : ~At(q, "checking") /\ ~At(q, "applying")
  BY <1>3 DEF MigrationInv
<1>5. MigrationTypeOK'
  BY <1>3 DEF MigrationInv, MigrationTypeOK, Starter
<1>6. starter'[p].pc = "running" /\ \A q \in Starters \ {p} : starter'[q] = starter[q]
  BY <1>3 DEF MigrationInv, MigrationTypeOK, Starter
<1> QED BY <1>2, <1>3, <1>4, <1>5, <1>6 DEF MigrationInv, At

LEMMA ExitStep ==
  ASSUME MigrationInv, NEW p \in Starters, Exit(p)
  PROVE  MigrationInv'
<1>1. CASE UNCHANGED <<recorded, effective>>
  BY <1>1, MigrationsAssumption
  DEF Exit, Goes, Unlock, MigrationInv, MigrationTypeOK, Starter, At
<1>2. CASE /\ At(p, "applying") /\ starter[p].file \notin recorded
           /\ effective' = effective \cup {starter[p].file}
           /\ recorded' = recorded \cup {starter[p].file}
  BY <1>2, MigrationsAssumption
  DEF Exit, Goes, Unlock, MigrationInv, MigrationTypeOK, Starter, Files, At
<1> QED BY <1>1, <1>2 DEF Exit

LEMMA RestartStep ==
  ASSUME MigrationInv, NEW p \in Starters, Restart(p)
  PROVE  MigrationInv'
  BY MigrationsAssumption
  DEF Restart, Waiting, MigrationInv, MigrationTypeOK, Starter, Files, At

LEMMA MigrationStep == MigrationInv /\ [MigrationNext]_migrationVars => MigrationInv'
<1> SUFFICES ASSUME MigrationInv, [MigrationNext]_migrationVars PROVE MigrationInv'
  OBVIOUS
<1>1. CASE UNCHANGED migrationVars
  BY <1>1 DEF migrationVars, MigrationInv, MigrationTypeOK, At
<1>2. CASE MigrationNext
  BY <1>2, LockStep, CheckStep, ApplyFileStep, RunStep, ExitStep, RestartStep
  DEF MigrationNext
<1> QED BY <1>1, <1>2

(* The types of the migrations.                                            *)
THEOREM MigrationTypeCorrect == MigrationSpec => []MigrationTypeOK
<1>1. MigrationInv => MigrationTypeOK
  BY DEF MigrationInv
<1> QED BY <1>1, MigrationInitially, MigrationStep, PTL DEF MigrationSpec

(* However many API and worker processes start, fail and start again at    *)
(* once: they run on the whole schema, and none is stopped by another.     *)
THEOREM WholeSchemaTheorem == MigrationSpec => []StartsOnWholeSchema
<1>1. MigrationInv => StartsOnWholeSchema
  <2> SUFFICES ASSUME MigrationInv, NEW p \in Starters
               PROVE  /\ At(p, "running") => effective = Files
                      /\ At(p, "exited") => p \in struck
                      /\ \A f \in recorded : 1..f \subseteq effective
    BY DEF StartsOnWholeSchema
  <2>1. At(p, "running") => effective = Files
    BY DEF MigrationInv, MigrationTypeOK
  <2>2. ASSUME NEW f \in recorded PROVE 1..f \subseteq effective
    BY MigrationsAssumption DEF MigrationInv, MigrationTypeOK, Files
  <2> QED BY <2>1, <2>2 DEF MigrationInv
<1> QED BY <1>1, MigrationInitially, MigrationStep, PTL DEF MigrationSpec
-----------------------------------------------------------------------------
(* The composition.  A behaviour of Parts is one of each part: a step of   *)
(* one leaves the others where they are.                                   *)
LEMMA EachPart ==
    Spec => TextSpec /\ CrmSpec /\ TokenSpec /\ VoiceSpec /\ MigrationSpec
<1>1. Init => TextInit /\ CrmInit /\ TokenInit /\ VoiceInit /\ MigrationInit
  BY DEF Init
<1>2. [Next]_partVars => /\ [TextNext]_textVars /\ [CrmNext]_crmVars
                         /\ [TokenNext]_tokenVars
                         /\ [VoiceNext]_voiceVars /\ [MigrationNext]_migrationVars
  BY DEF Next, Texting, Noting, Calling, Settling, Migrating, partVars
<1> QED  BY <1>1, <1>2, PTL
         DEF Spec, TextSpec, CrmSpec, TokenSpec, VoiceSpec, MigrationSpec

(* The types of the five parts together.                                   *)
THEOREM PartsTypeCorrect == Spec => []TypeOK
<1>1. TextTypeOK /\ CrmTypeOK /\ TokenTypeOK /\ VoiceTypeOK /\ MigrationTypeOK => TypeOK
  BY DEF TypeOK
<1> QED  BY EachPart, TextTypeCorrect, CrmTypeCorrect, TokenTypeCorrect,
            VoiceTypeCorrect, MigrationTypeCorrect, <1>1, PTL

(* What is proved of each part holds of their composition.                 *)
THEOREM PartsTheorem ==
    Spec => [](/\ TextsInTurn /\ HeldBackOnlyByOthers /\ SleepsUntilOpening
               /\ NotesAreExplained /\ OneSetPerCaller /\ StartsOnWholeSchema
               /\ ReadIsCurrent /\ NoUsedTokenPresented
               /\ StaysConnected /\ SingleUseState)
  BY EachPart, TextsInTurnTheorem, HeldBackTheorem, WindowTheorem, NotesTheorem,
     OneSetTheorem, WholeSchemaTheorem, ReadTheorem, UsedTokenTheorem,
     ConnectedTheorem, StateTheorem, PTL
=============================================================================
