----------------------------- MODULE ToolGrants ------------------------------
(***************************************************************************)
(* Which tools a runner offers the model: the plugins of its               *)
(* configuration or, when it has a toolset, an allow-list that each run    *)
(* computes anew and that grant_tools, grant_toolset and revoke_tools      *)
(* change meanwhile.                                                       *)
(*                                                                         *)
(* The allow-list is only about what is offered: a tool that the model     *)
(* names all the same is run.                                              *)
(***************************************************************************)
EXTENDS Naturals, FiniteSets

CONSTANTS
    AllTools,
    FlatTools,   \* those of no plugin
    SkillTools,  \* those of the skills plugin, which a run registers itself
    ScriptTools, \* run_skill_script, of those
    Packs,       \* the defined toolsets: sets of tools
    MaxGrants    \* bound: runs, grants, revocations and overrides

ASSUME GrantAssumption ==
    /\ FlatTools \subseteq AllTools /\ ScriptTools \subseteq SkillTools
    /\ SkillTools \subseteq AllTools \ FlatTools
    /\ Packs \subseteq SUBSET AllTools /\ MaxGrants \in Nat

\* A toolset of the configuration or of a run: none, or a pack.
NoPack == [given |-> FALSE, tools |-> {}]
PackChoices == {NoPack} \cup [given : {TRUE}, tools : Packs]

VARIABLES
    aRegistered,  \* tools of the registry
    aConfig,      \* config.toolset
    aPlugins,     \* config.tool_plugins names the plugin of the other tools, or is empty
    aSkills,      \* skills are enabled
    aScripts,     \* scripts are allowed, and there are some
    aOverride,    \* toolset_override in the run context
    aRestricted,  \* _allowed_tools is not None
    aAllowed,     \* _allowed_tools
    aGranted,     \* _runtime_granted_tools
    aRunning,
    aOffered,     \* the tools of the last turn's schemas
    aFresh,       \* nothing was granted, revoked or registered since that turn
    aKept,        \* history: granted by name, and not revoked since
    aGrants       \* runs, grants, revocations and overrides so far

grantVars == <<aRegistered, aConfig, aPlugins, aSkills, aScripts, aOverride, aRestricted,
               aAllowed, aGranted, aRunning, aOffered, aFresh, aKept, aGrants>>

Configuration == <<aConfig, aPlugins, aSkills, aScripts>>

GrantInit ==
    /\ aRegistered \in {AllTools \ SkillTools, FlatTools}
    /\ aConfig \in PackChoices /\ aPlugins \in BOOLEAN
    /\ aSkills \in BOOLEAN /\ aScripts \in BOOLEAN
    /\ aOverride = NoPack /\ aRestricted = FALSE /\ aAllowed = {} /\ aGranted = {}
    /\ aRunning = FALSE /\ aOffered = {} /\ aFresh = FALSE
    /\ aKept = {} /\ aGrants = 0

Counted == aGrants < MaxGrants /\ aGrants' = aGrants + 1

-----------------------------------------------------------------------------
\* Mutant: the grants of earlier runs are not added again.
ResolveAnew(toolset) == toolset.tools

ResolveToolsets(toolset) == toolset.tools \cup aGranted

\* _setup_skills and _resolve_toolsets
BeginRun ==
    /\ ~aRunning /\ Counted
    /\ aRunning' = TRUE
    /\ aRegistered' = IF aSkills THEN aRegistered \cup SkillTools ELSE aRegistered
    /\ LET toolset == IF aOverride.given THEN aOverride ELSE aConfig IN
       /\ aRestricted' = toolset.given
       /\ aAllowed' = IF toolset.given THEN ResolveToolsets(toolset) ELSE {}
    /\ aFresh' = FALSE
    /\ UNCHANGED <<Configuration, aOverride, aGranted, aOffered, aKept>>

\* An empty list of plugins means all of them, but only while no feature adds its own.
EffectivePlugins ==
    (IF aPlugins THEN {"other"} ELSE {}) \cup (IF aSkills THEN {"skills"} ELSE {})

PluginOf(t) == IF t \in FlatTools THEN "none" ELSE IF t \in SkillTools THEN "skills" ELSE "other"

\* get_tool_schemas_for_llm
OfPlugins(plugins) ==
    {t \in aRegistered : plugins = {} \/ PluginOf(t) = "none" \/ PluginOf(t) \in plugins}

FilterToolSchemas(tools) ==
    LET allowed == IF aRestricted THEN tools \cap aAllowed ELSE tools IN
    IF aSkills /\ ~aScripts THEN allowed \ ScriptTools ELSE allowed

OfferTools ==
    /\ aRunning
    /\ aOffered' = FilterToolSchemas(OfPlugins(IF aRestricted THEN {} ELSE EffectivePlugins))
    /\ aFresh' = TRUE
    /\ UNCHANGED <<aRegistered, Configuration, aOverride, aRestricted, aAllowed, aGranted,
                   aRunning, aKept, aGrants>>

EndRun ==
    /\ aRunning /\ aRunning' = FALSE
    /\ UNCHANGED <<aRegistered, Configuration, aOverride, aRestricted, aAllowed, aGranted,
                   aOffered, aFresh, aKept, aGrants>>

-----------------------------------------------------------------------------
(* Between the turns: by a hook, a tool, or another task; and between runs *)

OverrideToolset(choice) ==
    /\ ~aRunning /\ Counted /\ choice # aOverride
    /\ aOverride' = choice
    /\ UNCHANGED <<aRegistered, Configuration, aRestricted, aAllowed, aGranted, aRunning,
                   aOffered, aFresh, aKept>>

AddTool(t) ==
    /\ t \in AllTools \ (aRegistered \cup SkillTools)
    /\ aRegistered' = aRegistered \cup {t}
    /\ aFresh' = FALSE
    /\ UNCHANGED <<Configuration, aOverride, aRestricted, aAllowed, aGranted, aRunning,
                   aOffered, aKept, aGrants>>

GrantTools(names) ==
    /\ Counted
    /\ aGranted' = aGranted \cup names
    /\ aAllowed' = IF aRestricted THEN aAllowed \cup names ELSE aAllowed
    /\ aKept' = aKept \cup names
    /\ aFresh' = FALSE
    /\ UNCHANGED <<aRegistered, Configuration, aOverride, aRestricted, aRunning, aOffered>>

\* Nothing is remembered; without an allow-list nothing happens.
GrantToolset(pack) ==
    /\ Counted
    /\ aAllowed' = IF aRestricted THEN aAllowed \cup pack ELSE aAllowed
    /\ aFresh' = FALSE
    /\ UNCHANGED <<aRegistered, Configuration, aOverride, aRestricted, aGranted, aRunning,
                   aOffered, aKept>>

RevokeTools(names) ==
    /\ Counted
    /\ aAllowed' = IF aRestricted THEN aAllowed \ names ELSE aAllowed
    /\ aKept' = aKept \ names
    /\ aFresh' = FALSE
    /\ UNCHANGED <<aRegistered, Configuration, aOverride, aRestricted, aGranted, aRunning, aOffered>>

GrantNext ==
    \/ BeginRun \/ OfferTools \/ EndRun
    \/ \E choice \in PackChoices : OverrideToolset(choice)
    \/ \E t \in AllTools : AddTool(t) \/ GrantTools({t}) \/ RevokeTools({t})
    \/ \E pack \in Packs : GrantToolset(pack)

-----------------------------------------------------------------------------
\* Registered, and not a script that the skills keep back.
Offerable == aRegistered \ (IF aSkills /\ ~aScripts THEN ScriptTools ELSE {})

(***************************************************************************)
(* A tool granted by name is offered at every turn until it is revoked:    *)
(* the turns of later runs too, whatever toolset they override, and when   *)
(* it was granted before there was anything to restrict.  A run without a  *)
(* toolset is the exception: it offers its plugins.                        *)
(* (runner/agent_runner.py:577-623)                                        *)
(***************************************************************************)
GrantedStaysOffered ==
    aFresh /\ aRestricted => aKept \cap Offerable \subseteq aOffered

GrantSpec == GrantInit /\ [][GrantNext]_grantVars
=============================================================================
