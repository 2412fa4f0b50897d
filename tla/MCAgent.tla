------------------------------ MODULE MCAgent -------------------------------
(***************************************************************************)
(* Instances of Agent for TLC.  Each docket is one case: many runs and     *)
(* questions with few messages, one run and every message, every short     *)
(* question put to the explanation service, and two threads that compete   *)
(* for the budget.                                                         *)
(***************************************************************************)
EXTENDS Agent

CONSTANTS t1, t2

MCThreads == {t1, t2}

MCTextLength == [c \in ClaimIds |-> IF c = "diag_short_tracklets" THEN 3 ELSE 1]

(***************************************************************************)
(* Runs                                                                    *)
(***************************************************************************)

AllGood == [m \in Measures |-> "good"]

RealPayload ==
    [readable |-> TRUE, own |-> TRUE, schema |-> RealSchema, quality |-> "unverified",
     core |-> TRUE, measure |-> AllGood, interpretation |-> "descriptive_only",
     truth |-> "not_measured", legacy |-> FALSE]

RealRun ==
    [status |-> "succeeded", profile |-> "v1_compat", version |-> "v1_compat",
     diagnostics |-> [json |-> TRUE, small |-> TRUE, declared |-> RealSchema],
     payload |-> RealPayload, others |-> {"report"}, duration |-> TRUE,
     models |-> "named"]

DemoRun ==
    [RealRun EXCEPT !.profile = "demo_fast", !.version = "demo_fast",
                    !.diagnostics.declared = SyntheticSchema,
                    !.payload.schema = SyntheticSchema, !.payload.quality = "synthetic",
                    !.others = {}, !.duration = FALSE, !.models = "unnamed"]

LegacyRun ==
    [DemoRun EXCEPT !.profile = "v1_compat", !.version = "v1_compat",
                    !.payload.quality = "malformed", !.payload.legacy = TRUE]

Run(field, value) == [RealRun EXCEPT !.payload[field] = value]

Measured(m, state) == [RealRun EXCEPT !.payload.measure[m] = state]

MCRuns ==
    [real |-> RealRun, demo |-> DemoRun, legacy |-> LegacyRun,
     partial |-> [RealRun EXCEPT !.status = "partial", !.others = {}, !.models = "none"],
     running |-> [RealRun EXCEPT !.status = "running"],
     unknown |-> [RealRun EXCEPT !.profile = "unknown"],
     mixed |-> [RealRun EXCEPT !.version = "demo_fast"],
     none |-> [RealRun EXCEPT !.diagnostics = None],
     bare |-> [RealRun EXCEPT !.diagnostics = None, !.others = {}],
     binary |-> [RealRun EXCEPT !.diagnostics.json = FALSE],
     large |-> [RealRun EXCEPT !.diagnostics.small = FALSE],
     redeclared |-> [RealRun EXCEPT !.diagnostics.declared = SyntheticSchema],
     undeclared |-> [RealRun EXCEPT !.diagnostics.declared = None],
     unreadable |-> Run("readable", FALSE), foreign |-> Run("own", FALSE),
     coreless |-> Run("core", FALSE), unapproved |-> Run("schema", "unapproved"),
     mislabelled |-> Run("quality", "malformed"), synthetic |-> Run("quality", "synthetic"),
     unlabelled |-> Run("quality", "absent"), measured |-> Run("truth", "measured"),
     silent |-> Run("truth", "absent"), interpreted |-> Run("interpretation", "other"),
     unfractioned |-> Measured("fraction", "absent"),
     overfraction |-> Measured("fraction", "unusable"),
     badfraction |-> Measured("fraction", "malformed"),
     undistributed |-> Measured("duration", "unusable"),
     inactive |-> Measured("active", "malformed"),
     badshort |-> Measured("short", "malformed"),
     unusableshort |-> Measured("short", "unusable"),
     mixedshort |-> Measured("short", "mixed"),
     sufficient |-> Measured("insufficient", "absent")]

(***************************************************************************)
(* Messages                                                                *)
(***************************************************************************)

Use(name) == [name |-> name, arguments |-> "none"]

TrackingTool == Use("get_tracking_diagnostics")
LimitsTool == Use("get_evidence_limitations")
StatusTool == Use("get_run_status")

FewMessages ==
    {Calling(<<TrackingTool>>), Calling(<<LimitsTool, StatusTool>>),
     Selecting(<<"diag_short_tracklets", "diag_tracking">>),
     Selecting(<<"missing_evidence">>), Selecting(<<"no_missing_evidence">>),
     Selecting(<<Label>>)}

ManyMessages ==
    {Calling(<<TrackingTool>>), Calling(<<StatusTool>>),
     Calling(<<StatusTool, TrackingTool>>),
     Calling(<<TrackingTool, TrackingTool>>),
     Calling(<<StatusTool, TrackingTool, LimitsTool, StatusTool>>),
     Calling(<<[name |-> "unknown", arguments |-> "none"],
               [name |-> "get_run_status", arguments |-> "extra"]>>),
     Calling(<<[name |-> "get_run_status", arguments |-> "run"]>>),
     Message("tool_use", <<>>, TRUE, "none", <<>>),
     Message("tool_use", <<StatusTool>>, FALSE, "none", <<>>),
     Message("end_turn", <<StatusTool>>, TRUE, "selection", <<>>),
     Message("end_turn", <<>>, TRUE, "garbage", <<>>),
     Message("refusal", <<>>, TRUE, "none", <<>>),
     Message("max_tokens", <<>>, TRUE, "none", <<>>),
     Message("pause_turn", <<>>, TRUE, "none", <<>>),
     Selecting(<<>>), Selecting(<<Label>>), Selecting(<<"diag_tracking">>),
     Selecting(<<"diag_tracking", Label, "diag_short_tracklets">>),
     Selecting(<<"run_status", "run_status">>), Selecting(<<"run_status", "forged">>)}

Prompt(messages) == {Reply(m, "prompt", TRUE, FALSE) : m \in messages}

Losses == {Lost("timeout", "slow", costly) : costly \in BOOLEAN}
          \union {Lost("error", "prompt", costly) : costly \in BOOLEAN}

AnyReply(messages) ==
    {Reply(m, pace, reported, costly) :
        m \in messages, pace \in {"prompt", "slow", "late"},
        reported \in BOOLEAN, costly \in BOOLEAN}
    \union Losses

MCMenus ==
    [few |-> Prompt(FewMessages),
     many |-> Prompt(ManyMessages),
     any |-> AnyReply({Calling(<<StatusTool>>)})
             \union Prompt({Calling(<<TrackingTool>>), Selecting(<<"diag_tracking">>)}),
     brief |-> {Reply(Calling(<<StatusTool>>), "prompt", TRUE, FALSE),
                Reply(Calling(<<StatusTool>>), "prompt", FALSE, TRUE),
                Reply(Selecting(<<Label>>), "prompt", TRUE, TRUE),
                Lost("timeout", "slow", TRUE)}]

(***************************************************************************)
(* Dockets                                                                 *)
(***************************************************************************)

Ask(endpoint, run, question, menu) ==
    [endpoint |-> endpoint, run |-> run, question |-> question, menu |-> menu]

Alone(ask) == [t \in MCThreads |-> IF t = t1 THEN ask ELSE NotAsked]

Wide ==
    {Alone(Ask("agent", run, question, "few")) :
        run \in DOMAIN MCRuns, question \in {{"tracking"}, {"missing"}}}

Deep == {Alone(Ask("agent", "real", {"tracking"}, menu)) : menu \in {"many", "any"}}

ShortQuestions == {{}} \union {{w1, w2} : w1, w2 \in Words}

Explaining ==
    {Alone(Ask("explain", run, question, "few")) :
        run \in {"partial", "demo"}, question \in ShortQuestions}

Together == {[t \in MCThreads |-> Ask("agent", "bare", {"real"}, "brief")]}

MCDockets == Wide \union Deep \union Explaining \union Together

=============================================================================
