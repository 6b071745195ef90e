----------------------------- MODULE MCRecords ------------------------------
(***************************************************************************)
(* What is kept and how it is read back, checked side by side: a behaviour *)
(* chooses a part at the start and takes its steps only.                   *)
(***************************************************************************)
EXTENDS ContextFold, ContextWindow, MemoryFacts, Toolsets, SessionLists,
        SessionTree, SessionFiles, LlmCall, ToolGrants, RagIndex, Curation,
        SkillStore, VoiceSetup, Manifest

\* A name with dashes in it is read back as one without.
MCBeforeDashes == [n \in DashedNames |-> CHOOSE m \in SkillNames \ DashedNames : TRUE]

VARIABLE part

recordVars ==
    <<part, vars, windowVars, memoryVars, toolsetVars, listVars, treeVars,
      fileVars, callVars, grantVars, ragVars, curationVars, skillVars,
      setupVars, manifestVars>>

MCInit ==
    /\ part \in {"fold", "window", "memory", "toolsets", "lists", "tree",
                 "files", "call", "grants", "rag", "curation", "skills",
                 "setup", "manifest"}
    /\ Init
    /\ WindowInit
    /\ MemoryInit
    /\ ToolsetInit
    /\ ListInit
    /\ TreeInit
    /\ FileInit
    /\ CallInit
    /\ GrantInit
    /\ RagInit
    /\ CurationInit
    /\ SkillInit
    /\ SetupInit
    /\ ManifestInit
    \* What a part that was not chosen would start from is of no account.
    /\ part = "lists" \/ lBackend = "sqlite"
    /\ part = "call" \/ ~cStreamed
    /\ \/ part = "grants"
       \/ /\ aRegistered = FlatTools /\ aConfig = NoPack
          /\ ~aPlugins /\ ~aSkills /\ ~aScripts

\* The variables of the parts that were not chosen stay as they are.
Rests(names, v) == IF part \in names THEN TRUE ELSE UNCHANGED v

OthersRest ==
    /\ Rests({"fold"}, vars)
    /\ Rests({"window"}, windowVars)
    /\ Rests({"memory"}, memoryVars)
    /\ Rests({"toolsets"}, toolsetVars)
    /\ Rests({"lists"}, listVars)
    /\ Rests({"tree"}, treeVars)
    /\ Rests({"files"}, fileVars)
    /\ Rests({"call"}, callVars)
    /\ Rests({"grants"}, grantVars)
    /\ Rests({"rag"}, ragVars)
    /\ Rests({"curation"}, curationVars)
    /\ Rests({"skills"}, skillVars)
    /\ Rests({"setup"}, setupVars)
    /\ Rests({"manifest"}, manifestVars)

MCNext ==
    /\ UNCHANGED part /\ OthersRest
    /\ \/ part = "fold" /\ Next
       \/ part = "window" /\ WindowNext
       \/ part = "memory" /\ MemoryNext
       \/ part = "toolsets" /\ ToolsetNext
       \/ part = "lists" /\ ListNext
       \/ part = "tree" /\ TreeNext
       \/ part = "files" /\ FileNext
       \/ part = "call" /\ CallNext
       \/ part = "grants" /\ GrantNext
       \/ part = "rag" /\ RagNext
       \/ part = "curation" /\ CurationNext
       \/ part = "skills" /\ SkillNext
       \/ part = "setup" /\ SetupNext
       \/ part = "manifest" /\ ManifestNext

MCSpec == MCInit /\ [][MCNext]_recordVars
=============================================================================
