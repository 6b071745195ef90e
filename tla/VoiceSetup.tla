----------------------------- MODULE VoiceSetup ------------------------------
(***************************************************************************)
(* From the configuration of a voice agent to its pipeline: the languages, *)
(* the greeting and the server references are validated, what was found is *)
(* logged (and refused in strict mode), and the adapters of the four media *)
(* roles look up their servers.  The validation knows one spelling of the  *)
(* provider that speaks to Nexus servers; the adapters know more, and look *)
(* their servers up another way.  A voice team is built without the        *)
(* validation and without the registry of servers.                         *)
(***************************************************************************)
EXTENDS Naturals, FiniteSets

CONSTANTS
    ServerNames,        \* names a reference may hold, with or without a server
    MediaProviders,     \* providers tried for stt and tts, as they are spelled
    SideProviders       \* and for vad and lid

ASSUME VoiceSetupAssumption ==
    MediaProviders \cup SideProviders \subseteq {"mock", "nexus_server", "grpc"}

NoRef == "none"
NoEntry == [provider |-> "absent", ref |-> NoRef, url |-> FALSE]
NoSetup == [roles |-> <<>>]
Known == {"hi", "en"}                  \* LANGUAGES
Spoken == {"hi"}                       \* the languages of the servers' engines

\* stt, tts, vad and lid of an agent: a provider, the name of a server, a base_url.
Entries(providers) ==
    {e \in [provider : providers, ref : ServerNames \cup {NoRef}, url : BOOLEAN] :
        e.provider = "mock" => ~e.url}

\* What the agent allows, its stt's language, and its greeting: none, or a fixed one
\* whose text is missing.
Talk(allowed, language, greets) == [allowed |-> allowed, language |-> language, greets |-> greets]
Talks == {Talk({"hi"}, "hi", "none"), Talk({"hi", "en"}, "hi", "none"),
          Talk({"hi", "other"}, "en", "none"), Talk({"hi"}, "hi", "untold")}

VARIABLES
    vStage,     \* "idle", "configured", "checked", and how it ended: "built", "refused"
                \* by the validation, "failed" in an adapter, "crashed" while logging
    vSetup,     \* [roles, talk, servers]
    vIssues,    \* of the validation: <<role or part, what>>
    vStrict,    \* the validation was strict
    vTeam       \* built as the responder of a team

setupVars == <<vStage, vSetup, vIssues, vStrict, vTeam>>

SetupInit == vStage = "idle" /\ vSetup = NoSetup /\ vIssues = {}
             /\ vStrict = FALSE /\ vTeam = FALSE

Configure ==
    /\ vStage = "idle" /\ vStage' = "configured"
    /\ \E stt, tts \in Entries(MediaProviders), vad \in Entries(SideProviders),
          lid \in Entries(SideProviders) \cup {NoEntry}, talk \in Talks,
          servers \in {{}, {CHOOSE s \in ServerNames : TRUE}} :
         /\ ~vad.url /\ ~lid.url /\ ~tts.url /\ (vad.provider = "mock" => vad.ref = NoRef)
         /\ vSetup' = [roles |-> [stt |-> stt, tts |-> tts, vad |-> vad, lid |-> lid],
                       talk |-> talk, servers |-> servers]
    /\ UNCHANGED <<vIssues, vStrict, vTeam>>

-----------------------------------------------------------------------------
(* The validation: the issues of a setup *)

HasLid(setup) == setup.roles.lid # NoEntry
Checked == {"stt", "tts", "lid"}       \* the roles the validation looks at

\* Mutant: a reference need not name a server.
RefIssuesUnknown(setup, role) ==
    LET e == setup.roles[role] IN
    {i \in {<<role, "missing_ref">>} : e.provider = "nexus_server" /\ e.ref = NoRef}

RefIssues(setup, role) ==
    LET e == setup.roles[role] IN
    {i \in {<<role, "missing_ref">>, <<role, "unknown_ref">>} :
        /\ e.provider = "nexus_server"
        /\ IF e.ref = NoRef THEN i[2] = "missing_ref"
           ELSE e.ref \notin setup.servers /\ i[2] = "unknown_ref"}

ServerOf(setup, role) == setup.roles[role].ref \in setup.servers

\* An engine whose languages are known misses an allowed one.  English need not be the
\* stt's when a lid finds it out.
EngineIssues(setup, role) ==
    {<<role, "lang_unsupported">> :
        l \in {l \in setup.talk.allowed :
                 /\ ServerOf(setup, role) /\ l \notin Spoken
                 /\ ~(role = "stt" /\ l = "en" /\ HasLid(setup))}}

LanguageErrors(setup) == {<<"languages", "unknown">> : l \in setup.talk.allowed \ Known}

LanguageWarnings(setup) ==
    {i \in {<<"languages", "fallback">>, <<"languages", "en_requires_lid">>} :
        IF i[2] = "fallback" THEN setup.talk.language \notin setup.talk.allowed
        ELSE "en" \in setup.talk.allowed /\ ~HasLid(setup)}

GreetingErrors(setup) == {i \in {<<"greeting", "missing_text">>} : setup.talk.greets = "untold"}

Errors(setup) == LanguageErrors(setup) \cup GreetingErrors(setup)
                 \cup UNION {RefIssues(setup, role) : role \in Checked}

Warnings(setup) == LanguageWarnings(setup)
                   \cup UNION {EngineIssues(setup, role) : role \in Checked}

-----------------------------------------------------------------------------
(* build_pipeline: the validation, what it logs, and the adapters *)

\* Nothing to complain of: the line that says so names the engines, and looks up every
\* reference there is, of adapters that do not use them too.
LogFails(setup) ==
    /\ Errors(setup) \cup Warnings(setup) = {}
    /\ setup.servers # {}
    /\ \E role \in Checked : setup.roles[role].ref # NoRef /\ ~ServerOf(setup, role)

Check ==
    /\ vStage = "configured"
    /\ vIssues' = Errors(vSetup) \cup Warnings(vSetup)
    /\ vStrict' \in BOOLEAN
    /\ vStage' = IF LogFails(vSetup) THEN "crashed"
                 ELSE IF vStrict' /\ Errors(vSetup) # {} THEN "refused"
                 ELSE "checked"
    /\ UNCHANGED <<vSetup, vTeam>>

\* ServerRegistry.resolve: an unknown name raises.
Resolves(ref, servers) == ref \in servers

\* resolve_grpc_target: the reference before the url, when there is a registry.
HasTarget(e, servers) ==
    IF servers # {} /\ e.ref # NoRef THEN Resolves(e.ref, servers) ELSE e.url

\* The constructor of an adapter that speaks to a server looks up where that is.
GrpcAdapter(e, servers) == HasTarget(e, servers)

Adapts(e, servers) ==
    \/ e.provider \in {"absent", "mock"}
    \/ e.provider \in {"nexus_server", "grpc"} /\ GrpcAdapter(e, servers)

Adapters(servers) ==
    /\ vStage' = IF \A role \in DOMAIN vSetup.roles : Adapts(vSetup.roles[role], servers)
                 THEN "built" ELSE "failed"
    /\ UNCHANGED <<vSetup, vIssues, vStrict>>

BuildPipeline == vStage = "checked" /\ Adapters(vSetup.servers) /\ UNCHANGED vTeam

BuildVoiceTeam == vStage = "configured" /\ Adapters({}) /\ vTeam' = TRUE

SetupNext == Configure \/ Check \/ BuildPipeline \/ BuildVoiceTeam

SetupSpec == SetupInit /\ [][SetupNext]_setupVars

-----------------------------------------------------------------------------
\* Written the way the validation reads it: "nexus_server" is spelled out, only the
\* adapters that use a server name one, and the vad, which it does not look at, finds its.
Plain(setup) ==
    /\ \A role \in DOMAIN setup.roles :
          LET e == setup.roles[role] IN
          /\ e.provider \in {"absent", "mock", "nexus_server"}
          /\ e.provider = "mock" => e.ref = NoRef
    /\ Adapts(setup.roles.vad, setup.servers)

\* An agent written plainly, and of whose configuration the validation reported no error,
\* gets its pipeline: the log does not fail and no adapter misses its server.  In strict
\* mode an agent with an error is refused before an adapter is built
\* (realtime/validation.py, realtime/runtime.py build_pipeline).
ValidMeansItStarts ==
    vStage \in {"built", "refused", "failed", "crashed"} /\ ~vTeam /\ Plain(vSetup) =>
        IF Errors(vSetup) = {} THEN vStage = "built"
        ELSE vStrict => vStage = "refused"
=============================================================================
