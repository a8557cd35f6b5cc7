------------------------------ MODULE MCParts ------------------------------
(***************************************************************************)
(* Small instances for TLC of the parts that share no state: a behaviour   *)
(* is one of `part`, and the variables of the others stay as they began.   *)
(* The fairness of a part is vacuous in the behaviours of another, for     *)
(* nothing that it is about is enabled before the part has taken a step.   *)
(***************************************************************************)
EXTENDS StreamConnectors,
        A2ATasks,
        OpenClawBridge,
        OAuthLogin,
        TriggerDesk,
        CheckpointStore,
        ContextWindow,
        PipelineRuns,
        PipelineLanguage,
        ReflectionLoop,
        AuditTrail,
        Telemetry

VARIABLE part

\* The pipeline that is run, and the documents, conditions and outputs.
MCNodes == <<"step", "condition">>

LText(t) == [kind |-> "text", t |-> t]
LCompare(op, path, n) == [op |-> "compare", ops |-> <<op>>,
    terms |-> << [op |-> "path", path |-> path], [op |-> "constant", value |-> Number(n)] >>]
LTest == {
    <<LCompare("!=", <<"n">>, 1)>>, <<LCompare("is", <<"n">>, 1)>>,
    <<LCompare("!=", <<"rows">>, 1)>>,
    <<LCompare(">=", <<"n">>, 2), [op |-> "not", of |-> 1]>>,
    <<LCompare("!=", <<"n">>, 2), LCompare(">=", <<"n">>, 1), [op |-> "and", left |-> 1, right |-> 2]>>,
    <<LCompare("==", <<"n">>, 2), LCompare("<", <<"rows", "0">>, 2), [op |-> "or", left |-> 1, right |-> 2]>>,
    << [op |-> "compare", ops |-> <<"<", "<">>,
        terms |-> << [op |-> "constant", value |-> Number(0)], [op |-> "path", path |-> <<"n">>],
                     [op |-> "constant", value |-> Number(2)] >>] >>,
    << [op |-> "compare", ops |-> <<"in">>,
        terms |-> << [op |-> "constant", value |-> LText("n")], [op |-> "output"] >>] >>,
    << [op |-> "compare", ops |-> <<"==">>,
        terms |-> << [op |-> "subscript"], [op |-> "constant", value |-> Number(1)] >>] >>,
    << [op |-> "call"] >> }
LChild(t, x) == [tag |-> t, tool |-> x]
LElement ==
    { [tag |-> "step", tool |-> t, attributes |-> a] :
        t \in {"search", "missing"}, a \in {{}, {"chain"}, {"fn"}} }
    \cup { [tag |-> "threshold", key |-> k, value |-> 2, children |-> c] :
        k \in {<<>>, <<"n">>, <<"rows", "0">>, <<"rows", "-1">>},
        c \in { <<LChild("above", "search")>>, <<LChild("below", "search")>>,
                <<LChild("below", "report"), LChild("above", "search")>> } }
    \cup { [tag |-> "condition", test |-> e, children |-> c] :
        e \in LTest,
        c \in { <<LChild("then", "search"), LChild("else", "report")>>,
                <<LChild("else", "missing"), LChild("then", "search")>> } }
    \cup { [tag |-> "loop"] }
MCDocument ==
    { [block |-> b, xml |-> x, elements |-> <<>>] : b \in BOOLEAN, x \in BOOLEAN }
    \cup { [block |-> TRUE, xml |-> TRUE, elements |-> <<e>>] : e \in LElement }
    \cup { [block |-> TRUE, xml |-> TRUE, elements |-> <<e, f>>] :
            e \in { g \in LElement : g.tag = "step" }, f \in LElement }
LNumbers == { Number(n) : n \in {0, 1, 2, 3} }
MCOutput ==
    { [kind |-> "map", of |-> [n |-> v]] :
        v \in LNumbers \cup {NoValue, LText("x"), [kind |-> "opaque"], [kind |-> "numeral", n |-> 2]} }
    \cup { [kind |-> "map", of |-> [rows |-> [kind |-> "list", of |-> s, literal |-> TRUE]]] :
        s \in {<<>>, <<Number(1)>>, <<Number(3), Number(1)>>} }
    \cup { [kind |-> "map", of |-> [rows |-> [kind |-> "list", literal |-> FALSE,
            of |-> << [kind |-> "map", of |-> [n |-> Number(1)]] >>]]] }
    \cup {NoValue, Number(2), LText("n")}
MCIndexOf == [p \in {"0", "-1"} |-> IF p = "0" THEN 0 ELSE -1]
-----------------------------------------------------------------------------
\* Every initial state of the part, and one of each other.
Init ==
    /\ part \in {"streams", "a2a", "bridge", "login", "triggers", "store",
                 "context", "pipelines", "language", "reflection", "trail", "telemetry"}
    /\ StreamInit /\ (part # "streams" => kind = "redis")
    /\ A2AInit
    /\ BridgeInit
    /\ OAuthInit
    /\ DeskInit
    /\ StoreInit /\ (part # "store" => (backend = "sqlite" /\ home = CHOOSE h \in [Thread -> Instance] : TRUE))
    /\ ContextInit /\ (part # "context" => keep = CHOOSE k \in RecentTurns : TRUE)
    /\ PipelineInit /\ (part # "pipelines" => iterations[Context] = CHOOSE n \in Used : TRUE)
    /\ LanguageInit /\ (part # "language" => (document = CHOOSE d \in Document : TRUE) /\ review = "given")
    /\ ReflectionInit /\ (part # "reflection" => given = [cycles |-> 2, iterations |-> 2, verifier |-> TRUE])
    /\ TrailInit /\ (part # "trail" => working = [n \in Owner |-> IF n = CHOOSE m \in Owner : TRUE THEN 0 ELSE -1])
    /\ TelemetryInit /\ (part # "telemetry" => maxRecords = CHOOSE n \in RecordLimit : TRUE)

StreamStep ==
    /\ part = "streams" /\ StreamNext
    /\ UNCHANGED <<part, a2aVars, bridgeVars, oauthVars, deskVars, storeVars, contextVars,
                   pipelineVars, languageVars, reflectionVars, trailVars, telemetryVars>>

A2AStep ==
    /\ part = "a2a" /\ A2ANext
    /\ UNCHANGED <<part, streamVars, bridgeVars, oauthVars, deskVars, storeVars, contextVars,
                   pipelineVars, languageVars, reflectionVars, trailVars, telemetryVars>>

BridgeStep ==
    /\ part = "bridge" /\ BridgeNext
    /\ UNCHANGED <<part, streamVars, a2aVars, oauthVars, deskVars, storeVars, contextVars,
                   pipelineVars, languageVars, reflectionVars, trailVars, telemetryVars>>

OAuthStep ==
    /\ part = "login" /\ OAuthNext
    /\ UNCHANGED <<part, streamVars, a2aVars, bridgeVars, deskVars, storeVars, contextVars,
                   pipelineVars, languageVars, reflectionVars, trailVars, telemetryVars>>

DeskStep ==
    /\ part = "triggers" /\ DeskNext
    /\ UNCHANGED <<part, streamVars, a2aVars, bridgeVars, oauthVars, storeVars, contextVars,
                   pipelineVars, languageVars, reflectionVars, trailVars, telemetryVars>>

StoreStep ==
    /\ part = "store" /\ StoreNext
    /\ UNCHANGED <<part, streamVars, a2aVars, bridgeVars, oauthVars, deskVars, contextVars,
                   pipelineVars, languageVars, reflectionVars, trailVars, telemetryVars>>

ContextStep ==
    /\ part = "context" /\ ContextNext
    /\ UNCHANGED <<part, streamVars, a2aVars, bridgeVars, oauthVars, deskVars, storeVars,
                   pipelineVars, languageVars, reflectionVars, trailVars, telemetryVars>>

PipelineStep ==
    /\ part = "pipelines" /\ PipelineNext
    /\ UNCHANGED <<part, streamVars, a2aVars, bridgeVars, oauthVars, deskVars, storeVars,
                   contextVars, languageVars, reflectionVars, trailVars, telemetryVars>>

LanguageStep ==
    /\ part = "language" /\ LanguageNext
    /\ UNCHANGED <<part, streamVars, a2aVars, bridgeVars, oauthVars, deskVars, storeVars,
                   contextVars, pipelineVars, reflectionVars, trailVars, telemetryVars>>

ReflectionStep ==
    /\ part = "reflection" /\ ReflectionNext
    /\ UNCHANGED <<part, streamVars, a2aVars, bridgeVars, oauthVars, deskVars, storeVars,
                   contextVars, pipelineVars, languageVars, trailVars, telemetryVars>>

TrailStep ==
    /\ part = "trail" /\ TrailNext
    /\ UNCHANGED <<part, streamVars, a2aVars, bridgeVars, oauthVars, deskVars, storeVars,
                   contextVars, pipelineVars, languageVars, reflectionVars, telemetryVars>>

TelemetryStep ==
    /\ part = "telemetry" /\ TelemetryNext
    /\ UNCHANGED <<part, streamVars, a2aVars, bridgeVars, oauthVars, deskVars, storeVars,
                   contextVars, pipelineVars, languageVars, reflectionVars, trailVars>>

Next ==
    \/ StreamStep \/ A2AStep \/ BridgeStep \/ OAuthStep \/ DeskStep \/ StoreStep
    \/ ContextStep \/ PipelineStep \/ LanguageStep \/ ReflectionStep \/ TrailStep \/ TelemetryStep

vars == <<part, streamVars, a2aVars, bridgeVars, oauthVars, deskVars, storeVars,
          contextVars, pipelineVars, languageVars, reflectionVars, trailVars, telemetryVars>>

Spec ==
    /\ Init /\ [][Next]_vars
    /\ StreamFairness /\ A2AFairness /\ BridgeFairness
=============================================================================
