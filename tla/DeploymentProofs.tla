-------------------------- MODULE DeploymentProofs --------------------------
(***************************************************************************)
(* How a deployment comes into service, for any number of hooks and        *)
(* environments and any number of migrations.                              *)
(***************************************************************************)
EXTENDS Deployment, TLAPS

Migrated == created /\ schema = Latest

\* Past its look-up or creation a hook has a database to connect to.
HookInv(h) ==
    /\ pc[h] \in {"leave", "connect", "read", "migrate", "destroy", "report"} => created
    /\ result[h] = "Succeeded" => Migrated
    /\ told[h] = "Succeeded" => Migrated

\* An environment begins to start after traffic has come.
EnvironmentInv(p) ==
    /\ serving[p] # "no" => traffic
    /\ appServer[p] => instance[p] = "initialised"
    /\ instance[p] # "none" => secrets[p] = "json"
    /\ serving[p] = "request" => appServer[p]

DeploymentInv ==
    /\ TypeOK
    /\ \A h \in Hooks : HookInv(h)
    /\ traffic => Migrated
    /\ \A p \in Processes : EnvironmentInv(p)

LEMMA SchemaRange == 0 \in 0 .. Latest /\ Latest \in 0 .. Latest
BY DeploymentConstantsOK

LEMMA DeploymentInit == Init => DeploymentInv
<1> SUFFICES ASSUME Init PROVE DeploymentInv
  OBVIOUS
<1>1. appServer \in [Processes -> BOOLEAN] /\ created \in BOOLEAN /\ traffic \in BOOLEAN
  BY Zenon DEF Init
<1>2. TypeOK
  BY <1>1, SchemaRange DEF Init, TypeOK, Places, Secret
<1>3. \A h \in Hooks : HookInv(h)
  BY DEF Init, HookInv
<1>4. \A p \in Processes : EnvironmentInv(p)
  BY DEF Init, EnvironmentInv
<1> QED
  BY <1>2, <1>3, <1>4 DEF Init, DeploymentInv

\* The database only ever goes forward: what one hook has found done, stays.
LEMMA HookSteps ==
    ASSUME DeploymentInv, NEW h \in Hooks, Hook(h)
    PROVE  DeploymentInv'
<1> USE DEF Goto
<1>1. /\ UNCHANGED <<secret, traffic, secrets, instance, appServer, serving>>
      /\ created => created'
      /\ schema' # schema => schema' = Latest
      /\ schema' # schema => pc[h] = "migrate"
      /\ \A k \in Hooks : k # h =>
            pc'[k] = pc[k] /\ result'[k] = result[k] /\ told'[k] = told[k]
  BY DEF Hook, OpenCreator, LookUpDatabase, CreateDatabase, CloseCreator, Connect, ReadApplied,
         Migrate, MigrateFails, MigrateAll, Destroy, Report, ReportNothing, Throw, app, database,
         DeploymentInv, TypeOK
<1>2. Migrated => Migrated'
  BY <1>1 DEF Migrated
<1>3. TypeOK'
  <2>1. created' \in BOOLEAN /\ schema' \in 0 .. Latest
    <3>1. schema' \in 0 .. Latest
      BY <1>1, SchemaRange DEF DeploymentInv, TypeOK
    <3>2. created' \in BOOLEAN
      BY DEF Hook, OpenCreator, LookUpDatabase, CreateDatabase, CloseCreator, Connect, ReadApplied,
             Migrate, MigrateFails, Destroy, Report, ReportNothing, Throw, database,
             DeploymentInv, TypeOK
    <3> QED
      BY <3>1, <3>2
  <2>2. pc' \in [Hooks -> Places]
    BY DEF Hook, OpenCreator, LookUpDatabase, CreateDatabase, CloseCreator, Connect, ReadApplied,
           Migrate, MigrateFails, Destroy, Report, ReportNothing, Throw, DeploymentInv, TypeOK,
           Places
  <2>3. /\ pending' \in [Hooks -> 0 .. Latest]
        /\ result' \in [Hooks -> {"undefined", "Succeeded"}]
        /\ told' \in [Hooks -> {"nothing", "undefined", "Succeeded"}]
    BY DEF Hook, OpenCreator, LookUpDatabase, CreateDatabase, CloseCreator, Connect, ReadApplied,
           Migrate, MigrateFails, Destroy, Report, ReportNothing, Throw, DeploymentInv, TypeOK
  <2> QED
    BY <1>1, <2>1, <2>2, <2>3 DEF DeploymentInv, TypeOK
<1>4. HookInv(h)'
  <2>1. HookInv(h) /\ pc \in [Hooks -> Places]
        /\ result \in [Hooks -> {"undefined", "Succeeded"}]
        /\ told \in [Hooks -> {"nothing", "undefined", "Succeeded"}]
    BY DEF DeploymentInv, TypeOK
  <2>2. CASE OpenCreator(h) \/ LookUpDatabase(h) \/ CreateDatabase(h) \/ CloseCreator(h)
    BY <1>1, <1>2, <2>1, <2>2
       DEF HookInv, OpenCreator, LookUpDatabase, CreateDatabase, CloseCreator, database
  <2>3. CASE Connect(h) \/ ReadApplied(h) \/ MigrateFails(h) \/ Destroy(h)
    BY <1>1, <1>2, <2>1, <2>3 DEF HookInv, Connect, ReadApplied, MigrateFails, Destroy
  <2>4. CASE Migrate(h)
    BY <1>1, <2>1, <2>4 DEF HookInv, Migrate, MigrateAll, Migrated
  <2>5. CASE Report(h) \/ ReportNothing(h)
    BY <1>1, <1>2, <2>1, <2>5 DEF HookInv, Report, ReportNothing
  <2>6. CASE Throw(h)
    BY <1>1, <1>2, <2>1, <2>6 DEF HookInv, Throw
  <2> QED
    BY <2>2, <2>3, <2>4, <2>5, <2>6 DEF Hook
<1>5. ASSUME NEW k \in Hooks, k # h PROVE HookInv(k)'
  BY <1>1, <1>2, <1>5 DEF DeploymentInv, HookInv
<1>6. (traffic => Migrated)' /\ \A p \in Processes : EnvironmentInv(p)'
  BY <1>1, <1>2 DEF DeploymentInv, EnvironmentInv
<1> QED
  BY <1>3, <1>4, <1>5, <1>6 DEF DeploymentInv

\* Traffic comes after a hook has told of its success.
LEMMA ShiftSteps ==
    ASSUME DeploymentInv, ShiftTraffic
    PROVE  DeploymentInv'
BY DEF DeploymentInv, TypeOK, HookInv, EnvironmentInv, Migrated, ShiftTraffic,
       database, hooks, app

\* The secret may be written at any time: no environment goes back to it.
LEMMA SecretSteps ==
    ASSUME DeploymentInv, NEW v \in Secret, PutSecret(v)
    PROVE  DeploymentInv'
BY DEF DeploymentInv, TypeOK, HookInv, EnvironmentInv, Migrated, PutSecret,
       database, hooks, app

LEMMA EnvironmentSteps ==
    ASSUME DeploymentInv, NEW p \in Processes, Environment(p)
    PROVE  DeploymentInv'
<1>1. UNCHANGED <<created, schema, pc, pending, result, told, secret, traffic>>
      /\ \A q \in Processes : q # p => /\ instance'[q] = instance[q]
                                       /\ appServer'[q] = appServer[q]
                                       /\ secrets'[q] = secrets[q]
                                       /\ serving'[q] = serving[q]
  BY DEF Environment, Invoke, FetchSecret, CreateApp, InitApp, StartFails, Answer, ProcessExits,
         database, hooks, DeploymentInv, TypeOK
<1>2. TypeOK'
  <2>1. /\ secrets' \in [Processes -> {"none", "json"}]
        /\ instance' \in [Processes -> {"none", "created", "initialised"}]
        /\ appServer' \in [Processes -> BOOLEAN]
        /\ serving' \in [Processes -> {"no", "starting", "request"}]
    <3>1. TypeOK
      BY DEF DeploymentInv
    <3>2. CASE Invoke(p)
      BY <3>1, <3>2 DEF TypeOK, Invoke
    <3>3. CASE FetchSecret(p)
      BY <3>1, <3>3 DEF TypeOK, FetchSecret
    <3>4. CASE CreateApp(p)
      BY <3>1, <3>4 DEF TypeOK, CreateApp
    <3>5. CASE InitApp(p)
      BY <3>1, <3>5 DEF TypeOK, InitApp
    <3>6. CASE StartFails(p)
      BY <3>1, <3>6 DEF TypeOK, StartFails
    <3>7. CASE Answer(p)
      BY <3>1, <3>7 DEF TypeOK, Answer
    <3>8. CASE ProcessExits(p)
      BY <3>1, <3>8 DEF TypeOK, ProcessExits
    <3> QED
      BY <3>2, <3>3, <3>4, <3>5, <3>6, <3>7, <3>8 DEF Environment
  <2> QED
    BY <1>1, <2>1 DEF DeploymentInv, TypeOK
<1>3. EnvironmentInv(p)'
  <2>1. EnvironmentInv(p) /\ (traffic => Migrated)
        /\ secrets \in [Processes -> {"none", "json"}]
        /\ instance \in [Processes -> {"none", "created", "initialised"}]
        /\ appServer \in [Processes -> BOOLEAN]
        /\ serving \in [Processes -> {"no", "starting", "request"}]
    BY DEF DeploymentInv, TypeOK
  <2>2. CASE Invoke(p)
    BY <1>1, <2>1, <2>2 DEF Invoke, EnvironmentInv
  <2>3. CASE FetchSecret(p)
    BY <1>1, <2>1, <2>3 DEF FetchSecret, EnvironmentInv
  <2>4. CASE CreateApp(p)
    BY <1>1, <2>1, <2>4 DEF CreateApp, EnvironmentInv
  <2>5. CASE InitApp(p)
    BY <1>1, <2>1, <2>5 DEF InitApp, EnvironmentInv
  <2>6. CASE StartFails(p) \/ Answer(p) \/ ProcessExits(p)
    BY <1>1, <2>1, <2>6 DEF StartFails, Answer, ProcessExits, EnvironmentInv
  <2> QED
    BY <2>2, <2>3, <2>4, <2>5, <2>6 DEF Environment
<1>4. \A q \in Processes : q # p => EnvironmentInv(q)'
  BY <1>1 DEF DeploymentInv, EnvironmentInv
<1>5. (\A h \in Hooks : HookInv(h)') /\ (traffic => Migrated)'
  BY <1>1 DEF DeploymentInv, HookInv, Migrated
<1> QED
  BY <1>2, <1>3, <1>4, <1>5 DEF DeploymentInv

LEMMA DeploymentInvariant == Spec => []DeploymentInv
<1>1. ASSUME DeploymentInv, [Next]_vars PROVE DeploymentInv'
  <2>1. CASE UNCHANGED vars
    BY <1>1, <2>1 DEF DeploymentInv, TypeOK, HookInv, EnvironmentInv, Migrated,
                      vars, database, hooks, app
  <2> QED
    BY <1>1, <2>1, HookSteps, ShiftSteps, SecretSteps, EnvironmentSteps DEF Next
<1> QED
  BY <1>1, DeploymentInit, PTL DEF Spec

\* The database, the hooks and the environments keep their types.
THEOREM DeploymentIsTyped == Spec => []TypeOK
<1>1. DeploymentInv => TypeOK
  BY DEF DeploymentInv
<1> QED
  BY <1>1, DeploymentInvariant, PTL

\* CodeDeploy hears of success only when every migration has been applied.
THEOREM HooksTellTheTruth == Spec => []ToldTheTruth
<1>1. DeploymentInv => ToldTheTruth
  BY DEF DeploymentInv, HookInv, ToldTheTruth, Migrated
<1> QED
  BY <1>1, DeploymentInvariant, PTL

\* Requests of the new version meet an initialised application and the schema
\* it was written for.
THEOREM RequestsMeetAReadyVersion == Spec => []ServedWhenReady
<1>1. DeploymentInv => ServedWhenReady
  BY DEF DeploymentInv, EnvironmentInv, ServedWhenReady, Migrated
<1> QED
  BY <1>1, DeploymentInvariant, PTL
=============================================================================
