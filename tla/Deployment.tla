----------------------------- MODULE Deployment -----------------------------
(***************************************************************************)
(* A new version comes into service: the hook of the deployment migrates   *)
(* the database and tells CodeDeploy (src/runMigrations.ts), CodeDeploy    *)
(* then sends traffic to the new version (template.yml, PreTraffic), and   *)
(* each environment starts the application with its first invocation       *)
(* (src/lambdaEntrypoint.ts, src/app.instance.ts).                         *)
(*                                                                         *)
(* A hook that failed may be run once more, which is another run here, and *)
(* runs may overlap.                                                       *)
(***************************************************************************)
EXTENDS Naturals

CONSTANTS
    Hooks,        \* runs of runMigrations
    Processes,    \* Lambda environments of the new version
    Latest        \* how many migrations there are

ASSUME DeploymentConstantsOK == Latest \in Nat \ {0}

VARIABLES
    created,    \* the database exists
    schema,     \* the migrations applied to it, which are the first ones
    pc,         \* where a hook is
    pending,    \* the migrations it is going to apply come after this one
    result,     \* its local `result`
    told,       \* what it has told CodeDeploy
    secret,     \* what Secrets Manager holds under SECRETS_PATH
    traffic,    \* CodeDeploy has sent traffic to the new version
    secrets,    \* what the Secrets provider of each environment has parsed
    instance,   \* AppInstance.instance of each environment
    appServer,  \* its appServer is set
    serving     \* what its invocation is doing

database == <<created, schema>>
hooks    == <<pc, pending, result, told>>
app      == <<secrets, instance, appServer, serving>>
vars     == <<database, hooks, secret, traffic, app>>

\* A secret that is not there (or has no string), is no JSON, or can be parsed.
Secret == {"missing", "garbled", "json"}

Places == {"idle", "lookup", "create", "leave", "connect", "read", "migrate", "destroy",
           "report", "ended", "thrown"}

\* The first deployment finds no database, a later one what those before it
\* have left: a database without tables, or with some of the migrations or all.
Init ==
    /\ created \in BOOLEAN
    /\ schema \in 0 .. Latest
    /\ created \/ schema = 0
    /\ pc = [h \in Hooks |-> "idle"]
    /\ pending = [h \in Hooks |-> 0]
    /\ result = [h \in Hooks |-> "undefined"]
    /\ told = [h \in Hooks |-> "nothing"]
    /\ secret \in Secret
    /\ traffic = FALSE
    /\ secrets = [p \in Processes |-> "none"]
    /\ instance = [p \in Processes |-> "none"]
    /\ appServer = [p \in Processes |-> FALSE]
    /\ serving = [p \in Processes |-> "no"]

Goto(h, from, to) ==
    /\ pc[h] = from
    /\ pc' = [pc EXCEPT ![h] = to]

-----------------------------------------------------------------------------
(* createDBIfNotExists                                                     *)

OpenCreator(h) ==
    /\ Goto(h, "idle", "lookup")
    /\ UNCHANGED <<database, pending, result, told, secret, traffic, app>>

LookUpDatabase(h) ==
    /\ Goto(h, "lookup", IF created THEN "leave" ELSE "create")
    /\ UNCHANGED <<database, pending, result, told, secret, traffic, app>>

\* Postgres has no IF NOT EXISTS for databases: it may have been made since.
CreateDatabase(h) ==
    /\ Goto(h, "create", "leave")
    /\ ~created
    /\ created' = TRUE
    /\ UNCHANGED <<schema, pending, result, told, secret, traffic, app>>

CloseCreator(h) ==
    /\ Goto(h, "leave", "connect")
    /\ UNCHANGED <<database, pending, result, told, secret, traffic, app>>

-----------------------------------------------------------------------------
(* runMigrations                                                           *)

Connect(h) ==
    /\ Goto(h, "connect", "read")
    /\ UNCHANGED <<database, pending, result, told, secret, traffic, app>>

\* The library reads which migrations have been applied ...
ReadApplied(h) ==
    /\ Goto(h, "read", "migrate")
    /\ pending' = [pending EXCEPT ![h] = schema]
    /\ UNCHANGED <<database, result, told, secret, traffic, app>>

\* A plausible bug: migrations that do not notice that they have been applied.
AppliesAgain(h) == schema' = schema + (Latest - pending[h])

\* ... and applies the others in one transaction.  One that has been applied
\* since fails it: its table or column is there, or gone.
MigrateAll(h) == schema = pending[h] /\ schema' = Latest

Migrate(h) ==
    /\ Goto(h, "migrate", "destroy")
    /\ MigrateAll(h)
    /\ result' = [result EXCEPT ![h] = "Succeeded"]
    /\ UNCHANGED <<created, pending, told, secret, traffic, app>>

\* A plausible bug: the result is set before the migrations are run.
MigrateFailsLate(h) ==
    /\ Goto(h, "migrate", "destroy")
    /\ result' = [result EXCEPT ![h] = "Succeeded"]
    /\ UNCHANGED <<database, pending, told, secret, traffic, app>>

\* The catch block logs the error; a commit may have been made all the same.
MigrateFails(h) ==
    /\ Goto(h, "read", "destroy") \/ Goto(h, "migrate", "destroy")
    /\ UNCHANGED schema \/ (pc[h] = "migrate" /\ MigrateAll(h))
    /\ UNCHANGED <<created, pending, result, told, secret, traffic, app>>

\* The finally block.
Destroy(h) ==
    /\ Goto(h, "destroy", "report")
    /\ UNCHANGED <<database, pending, result, told, secret, traffic, app>>

Report(h) ==
    /\ Goto(h, "report", "ended")
    /\ told' = [told EXCEPT ![h] = result[h]]
    /\ UNCHANGED <<database, pending, result, secret, traffic, app>>

\* Run by hand the event has no DeploymentId.
ReportNothing(h) ==
    /\ Goto(h, "report", "ended")
    /\ UNCHANGED <<database, pending, result, told, secret, traffic, app>>

\* Any await throws or is never answered, its effect made or not.  Nothing
\* catches what createDBIfNotExists throws, and a data source that could not
\* connect cannot be destroyed: CodeDeploy is not told.
Throw(h) ==
    /\ \E from \in {"idle", "lookup", "create", "leave", "connect", "read", "migrate", "destroy",
                    "report"} : Goto(h, from, "thrown")
    /\ \/ UNCHANGED <<database, told>>
       \/ pc[h] = "create" /\ ~created /\ created' = TRUE /\ UNCHANGED <<schema, told>>
       \/ pc[h] = "migrate" /\ MigrateAll(h) /\ UNCHANGED <<created, told>>
       \/ pc[h] = "report" /\ told' = [told EXCEPT ![h] = result[h]] /\ UNCHANGED database
    /\ UNCHANGED <<pending, result, secret, traffic, app>>

-----------------------------------------------------------------------------
(* CodeDeploy and the invocations                                          *)

ShiftTraffic ==
    /\ \E h \in Hooks : told[h] = "Succeeded"
    /\ traffic' = TRUE
    /\ UNCHANGED <<database, hooks, secret, app>>

\* The operator writes the secret of the environment.
PutSecret(v) ==
    /\ secret' = v
    /\ UNCHANGED <<database, hooks, traffic, app>>

\* An environment takes one invocation at a time.
Invoke(p) ==
    /\ traffic
    /\ serving[p] = "no"
    /\ serving' = [serving EXCEPT ![p] = IF appServer[p] THEN "request" ELSE "starting"]
    /\ UNCHANGED <<database, hooks, secret, traffic, secrets, instance, appServer>>

\* Creating the application, which getInstance does when the process has none,
\* resolves its providers: the secret is read once ...
FetchSecret(p) ==
    /\ serving[p] = "starting"
    /\ instance[p] = "none" /\ secrets[p] = "none"
    /\ secret = "json"
    /\ secrets' = [secrets EXCEPT ![p] = secret]
    /\ UNCHANGED <<database, hooks, secret, traffic, instance, appServer, serving>>

\* ... and the data source connects to the database, which must be there.
CreateApp(p) ==
    /\ serving[p] = "starting"
    /\ instance[p] = "none" /\ secrets[p] # "none"
    /\ created
    /\ instance' = [instance EXCEPT ![p] = "created"]
    /\ UNCHANGED <<database, hooks, secret, traffic, secrets, appServer, serving>>

\* A plausible bug: the server is made before the application is initialised.
ServeAtOnce(p) ==
    /\ serving[p] = "starting"
    /\ instance[p] # "none"
    /\ appServer' = [appServer EXCEPT ![p] = TRUE]
    /\ serving' = [serving EXCEPT ![p] = "request"]
    /\ UNCHANGED <<database, hooks, secret, traffic, secrets, instance>>

\* init resolves, the server is made and handles the event at once.
InitApp(p) ==
    /\ serving[p] = "starting"
    /\ instance[p] # "none"
    /\ instance' = [instance EXCEPT ![p] = "initialised"]
    /\ appServer' = [appServer EXCEPT ![p] = TRUE]
    /\ serving' = [serving EXCEPT ![p] = "request"]
    /\ UNCHANGED <<database, hooks, secret, traffic, secrets>>

\* create throws and nothing of it is kept, or init throws and the instance is
\* kept: the next invocation goes on from there.
StartFails(p) ==
    /\ serving[p] = "starting"
    /\ serving' = [serving EXCEPT ![p] = "no"]
    /\ secrets' = [secrets EXCEPT ![p] = IF instance[p] = "none" THEN "none" ELSE @]
    /\ UNCHANGED <<database, hooks, secret, traffic, instance, appServer>>

Answer(p) ==
    /\ serving[p] = "request"
    /\ serving' = [serving EXCEPT ![p] = "no"]
    /\ UNCHANGED <<database, hooks, secret, traffic, secrets, instance, appServer>>

ProcessExits(p) ==
    /\ secrets' = [secrets EXCEPT ![p] = "none"]
    /\ instance' = [instance EXCEPT ![p] = "none"]
    /\ appServer' = [appServer EXCEPT ![p] = FALSE]
    /\ serving' = [serving EXCEPT ![p] = "no"]
    /\ UNCHANGED <<database, hooks, secret, traffic>>

-----------------------------------------------------------------------------

Hook(h) ==
    \/ OpenCreator(h) \/ LookUpDatabase(h) \/ CreateDatabase(h) \/ CloseCreator(h)
    \/ Connect(h) \/ ReadApplied(h) \/ Migrate(h) \/ MigrateFails(h)
    \/ Destroy(h) \/ Report(h) \/ ReportNothing(h)
    \/ Throw(h)

Environment(p) ==
    \/ Invoke(p) \/ FetchSecret(p) \/ CreateApp(p) \/ InitApp(p) \/ StartFails(p) \/ Answer(p)
    \/ ProcessExits(p)

Next ==
    \/ \E h \in Hooks : Hook(h)
    \/ ShiftTraffic
    \/ \E v \in Secret : PutSecret(v)
    \/ \E p \in Processes : Environment(p)

Spec == Init /\ [][Next]_vars

-----------------------------------------------------------------------------
(* Properties                                                              *)

TypeOK ==
    /\ created \in BOOLEAN
    /\ schema \in 0 .. Latest
    /\ pc \in [Hooks -> Places]
    /\ pending \in [Hooks -> 0 .. Latest]
    /\ result \in [Hooks -> {"undefined", "Succeeded"}]
    /\ told \in [Hooks -> {"nothing", "undefined", "Succeeded"}]
    /\ secret \in Secret
    /\ traffic \in BOOLEAN
    /\ secrets \in [Processes -> {"none", "json"}]
    /\ instance \in [Processes -> {"none", "created", "initialised"}]
    /\ appServer \in [Processes -> BOOLEAN]
    /\ serving \in [Processes -> {"no", "starting", "request"}]

\* CodeDeploy is told of success only when the database has every migration,
\* whichever of the hooks applied them.
ToldTheTruth ==
    \A h \in Hooks : told[h] = "Succeeded" => created /\ schema = Latest

\* A request is handled only by an application that was initialised to its
\* end, has parsed its secrets, and meets a database with the columns its
\* entities name, however often a start failed and was taken up again.
ServedWhenReady ==
    \A p \in Processes : serving[p] = "request" =>
        /\ instance[p] = "initialised" /\ secrets[p] = "json"
        /\ created /\ schema = Latest
=============================================================================
