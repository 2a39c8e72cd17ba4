------------------------------- MODULE Startup -------------------------------
(***************************************************************************)
(* How the deployer gets from its environment to a runner that is ready to *)
(* run, or to exit code 2: config.Load, the stage list and NewDeployer,    *)
(* model.Load and model.New for each tier of the recovery (main of         *)
(* cmd/deployer).                                                          *)
(*                                                                         *)
(* A variable of the environment is unset (""), malformed, or one of a few *)
(* values.  Paths, timeouts, keys and what only labels metrics are left    *)
(* out: nothing here depends on them.                                      *)
(***************************************************************************)
EXTENDS Integers, Sequences

LOCAL INSTANCE SequencesExt

BoolText == {"", "true", "false", "flase"}
IntText == {"", "two", "-1", "64"}

\* What config.Load reads.
Environment ==
    [image : {" ", "app:v1"}, push : BoolText, recover : BoolText, checkWorkflow : BoolText,
     maxRetries : IntText, target : {"", "compose", "k8s", "nomad"},
     release : {"", "app"}, chart : {"", "./chart"}, healthURL : {"", "http://app"},
     classifier : {"", "small"}, classifierTokens : {"", "64"}, complex : {"", "large"}]

\* What model.Load reads.
ModelEnvironment ==
    [backend : {"", "openai", "anthropic", "bedrock"}, id : {"", "base"}, maxTokens : {"", "-1"}]

NoConfig == [ok |-> FALSE]
NoModel == [backend |-> "none"]
Tier == {"classifier", "trivial", "complex", "direct"}

VARIABLES
    env,        \* the environment
    modelEnv,   \* its part for the model, chosen where it is read
    pc,         \* where main is
    cfg,        \* config.Config
    stages,     \* the stage list: names, and whose rollback guards a stage
    mcfg,       \* model.Config
    models,     \* per tier: the model built for it
    recoverer   \* runner.Recoverer: none, direct or triaged

vars == <<env, modelEnv, pc, cfg, stages, mcfg, models, recoverer>>

Init ==
    /\ env \in Environment
    /\ modelEnv = NoConfig
    /\ pc = "load"
    /\ cfg = NoConfig
    /\ stages = <<>>
    /\ mcfg = NoConfig
    /\ models = [t \in Tier |-> NoModel]
    /\ recoverer = "none"
-----------------------------------------------------------------------------
(* Reading variables.                                                      *)

Getenv(text, default) == IF text = "" THEN default ELSE text

\* Mutation: a boolean that does not parse is ignored.
GetenvBoolLenient(text, default) ==
    [ok |-> TRUE, value |-> IF text \in {"true", "false"} THEN text = "true" ELSE default]

GetenvBool(text, default) ==
    [ok |-> text \in {"", "true", "false"}, value |-> IF text = "" THEN default ELSE text = "true"]

\* A number that does not parse is ignored; one that is negative is not.
GetenvInt(text, default) == CASE text = "-1" -> -1 [] text = "64" -> 64 [] OTHER -> default

\* config.Load; ok is a nil error.
Load(e) ==
    [ok |-> /\ GetenvBool(e.push, TRUE).ok
            /\ GetenvBool(e.recover, FALSE).ok
            /\ GetenvBool(e.checkWorkflow, FALSE).ok
            /\ e.image # " ",
     push |-> GetenvBool(e.push, TRUE).value,
     recover |-> GetenvBool(e.recover, FALSE).value,
     checkWorkflow |-> GetenvBool(e.checkWorkflow, FALSE).value,
     maxRetries |-> GetenvInt(e.maxRetries, 1),
     classifier |-> e.classifier,
     classifierTokens |-> GetenvInt(e.classifierTokens, 256),
     complex |-> e.complex,
     target |-> e.target, release |-> e.release, chart |-> e.chart, healthURL |-> e.healthURL]

\* model.Load.
LoadModel(e) ==
    [ok |-> e.id # "", backend |-> Getenv(e.backend, "ollama"), id |-> e.id,
     maxTokens |-> GetenvInt(e.maxTokens, 4096)]
-----------------------------------------------------------------------------
(* What main builds.                                                       *)

\* NewDeployer returns one.
Deployable(c) == c.target = "compose" \/ (c.target = "k8s" /\ c.release # "" /\ c.chart # "")

Stage(name) == [name |-> name, guard |-> "none"]
DefaultStages == <<Stage("build"), Stage("test"), Stage("docker-build"), Stage("docker-push")>>

\* Mutation: the health check is appended as it is.
HealthStageUnguarded(c) == IF c.healthURL = "" THEN <<>> ELSE <<Stage("health-check")>>

\* WithRollback guards the health check where something was deployed.
HealthStage(c) ==
    IF c.healthURL = "" THEN <<>>
    ELSE <<[name |-> "health-check", guard |-> IF c.target = "" THEN "none" ELSE c.target]>>

StagesOf(c) ==
    DefaultStages
      \o (IF c.checkWorkflow THEN <<Stage("workflow")>> ELSE <<>>)
      \o (IF c.target # "" THEN <<[name |-> "deploy", guard |-> c.target]>> ELSE <<>>)
      \o HealthStage(c)

\* model.New builds a client; ollama's is given no cap.
Known(m) == m.backend \in {"ollama", "openai", "anthropic"}
New(m) == [backend |-> m.backend, id |-> m.id, cap |-> IF m.backend = "ollama" THEN 0 ELSE m.maxTokens]

\* splitImageRef: a colon before the last slash belongs to a port.
SplitImageRef(ref) ==
    LET colon == SelectLastInSeq(ref, LAMBDA t : t = ":")
        slash == SelectLastInSeq(ref, LAMBDA t : t = "/")
    IN  IF colon > slash
          THEN [repo |-> SubSeq(ref, 1, colon - 1), tag |-> SubSeq(ref, colon + 1, Len(ref))]
          ELSE [repo |-> ref, tag |-> <<"latest">>]
-----------------------------------------------------------------------------
(* main.                                                                   *)

Exit2 ==
    /\ pc' = "exit 2"
    /\ UNCHANGED <<env, modelEnv, cfg, stages, mcfg, models, recoverer>>

LoadConfig ==
    /\ pc = "load"
    /\ Load(env).ok
    /\ cfg' = Load(env)
    /\ pc' = "stages"
    /\ UNCHANGED <<env, modelEnv, stages, mcfg, models, recoverer>>

LoadConfigFails == pc = "load" /\ ~Load(env).ok /\ Exit2

WireStages ==
    /\ pc = "stages"
    /\ cfg.target = "" \/ Deployable(cfg)
    /\ stages' = StagesOf(cfg)
    /\ pc' = IF cfg.recover THEN "model" ELSE "run"
    /\ UNCHANGED <<env, modelEnv, cfg, mcfg, models, recoverer>>

NewDeployerFails == pc = "stages" /\ cfg.target # "" /\ ~Deployable(cfg) /\ Exit2

LoadModelConfig ==
    /\ pc = "model"
    /\ modelEnv' \in ModelEnvironment
    /\ mcfg' = LoadModel(modelEnv')
    /\ pc' = IF ~mcfg'.ok THEN "exit 2" ELSE IF cfg.classifier # "" THEN "classifier" ELSE "direct"
    /\ UNCHANGED <<env, cfg, stages, models, recoverer>>

\* model.New for one tier, with that tier's own configuration.
Build(tier, m, next) ==
    /\ pc = tier
    /\ Known(m)
    /\ models' = [models EXCEPT ![tier] = New(m)]
    /\ pc' = next

\* Mutation: the classifier's configuration is not a copy.
NewClassifierAliased ==
    /\ mcfg' = [mcfg EXCEPT !.id = cfg.classifier, !.maxTokens = cfg.classifierTokens]
    /\ Build("classifier", mcfg', "trivial")
    /\ UNCHANGED <<env, modelEnv, cfg, stages, recoverer>>

NewClassifier ==
    /\ Build("classifier", [mcfg EXCEPT !.id = cfg.classifier, !.maxTokens = cfg.classifierTokens],
             "trivial")
    /\ UNCHANGED <<env, modelEnv, cfg, stages, mcfg, recoverer>>

NewTrivial ==
    /\ Build("trivial", mcfg, "complex")
    /\ UNCHANGED <<env, modelEnv, cfg, stages, mcfg, recoverer>>

NewComplex ==
    /\ Build("complex", [mcfg EXCEPT !.id = Getenv(cfg.complex, @)], "run")
    /\ recoverer' = "triaged"
    /\ UNCHANGED <<env, modelEnv, cfg, stages, mcfg>>

NewDirect ==
    /\ Build("direct", mcfg, "run")
    /\ recoverer' = "direct"
    /\ UNCHANGED <<env, modelEnv, cfg, stages, mcfg>>

\* The backend is not known, or its client cannot be made.
NewFails == pc \in Tier /\ Exit2

Next ==
    \/ LoadConfig
    \/ LoadConfigFails
    \/ WireStages
    \/ NewDeployerFails
    \/ LoadModelConfig
    \/ NewClassifier
    \/ NewTrivial
    \/ NewComplex
    \/ NewDirect
    \/ NewFails

Spec == Init /\ [][Next]_vars
-----------------------------------------------------------------------------
Has(name) == \E k \in 1..Len(stages) : stages[k].name = name

\* A switch is on in a run if and only if the environment says so, or says
\* nothing and it is on by default: a typo like DEPLOY_PUSH=flase never gets
\* that far.
NoSilentFlip ==
    pc = "run" =>
      /\ cfg.push <=> env.push \in {"", "true"}
      /\ Has("workflow") <=> env.checkWorkflow = "true"
      /\ recoverer # "none" <=> env.recover = "true"
      /\ recoverer = "triaged" <=> env.recover = "true" /\ env.classifier # ""

\* Every tier of the recovery has the model that was asked for it: the id and
\* the cap of the classifier stay with the classifier, and the complex tier
\* without a model of its own has the one that MODEL_ID names.
FixersKeepTheirModel ==
    pc = "run" /\ recoverer # "none" =>
      LET capped == modelEnv.backend # ""
          cap == IF ~capped THEN 0 ELSE IF modelEnv.maxTokens = "" THEN 4096 ELSE -1
          fixers == IF recoverer = "direct" THEN {"direct"} ELSE {"trivial", "complex"}
      IN  /\ \A t \in fixers : models[t].cap = cap
          /\ \A t \in fixers \ {"complex"} : models[t].id = modelEnv.id
          /\ recoverer = "triaged" =>
               /\ models["complex"].id = IF env.complex = "" THEN modelEnv.id ELSE env.complex
               /\ models["classifier"].id = env.classifier
               /\ capped => models["classifier"].cap = IF env.classifierTokens = "" THEN 256 ELSE 64

\* Image references: [host [":" port] "/"] name [":" tag] ["@" digest].
Reference ==
    {FlattenSeq(<<host, name, tag, digest>>) :
       host \in {<<>>, <<"host", "/">>, <<"host", ":", "port", "/">>},
       name \in {<<"name">>, <<"group", "/", "name">>},
       tag \in {<<>>, <<":", "tag">>},
       digest \in {<<>>, <<"@", "sha256", ":", "digest">>}}

\* What docker pushes for a reference.
Pushed(ref) ==
    IF \E k \in 1..Len(ref) : ref[k] \in {"tag", "digest"} THEN ref ELSE ref \o <<":", "latest">>

\* A deployment that main wires can be undone: its health check, if there is
\* one, comes after it and is guarded by the rollback of the same target, which
\* has all it needs.  And what helm is told to run, repository and tag joined
\* by a colon, is the image that docker pushes.
DeployWired ==
    pc = "run" =>
      /\ Has("deploy") => Deployable(cfg)
      /\ \A k \in 1..Len(stages) : stages[k].name = "health-check" =>
           /\ k = Len(stages)
           /\ Has("deploy") => stages[k - 1].name = "deploy" /\ stages[k].guard = stages[k - 1].guard
      /\ cfg.target = "k8s" =>
           \A ref \in Reference :
             LET s == SplitImageRef(ref) IN s.repo \o <<":">> \o s.tag = Pushed(ref)
=============================================================================
