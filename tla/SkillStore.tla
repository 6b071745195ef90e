----------------------------- MODULE SkillStore ------------------------------
(***************************************************************************)
(* Learned skills kept in memory and in files: the two stores take the     *)
(* same calls, of the skill_manage tools and of a runner that looks for    *)
(* the skills to put into its prompt.  A search counts the use of every    *)
(* skill it finds; the file store does so by writing back the file it      *)
(* read, and in between another process may write.                         *)
(*                                                                         *)
(* A trigger is a kind of text: "plain"; "quoted", which holds quotation   *)
(* marks; "dashed", which holds three dashes in a row.  Reading a file     *)
(* back takes off the quotation marks at the ends and leaves the rest of   *)
(* the JSON as it is: a quoted trigger comes back with a mark more at each *)
(* reading.  It cuts the file at the second run of three dashes: when the  *)
(* trigger holds them, the trigger ends there ("cut") and the lines below  *)
(* it are lost to the content; when the name does, the trigger's line is   *)
(* lost too, and the skill has another name.  A query is a word of every   *)
(* trigger, a word of no trigger and no other line, or nothing.            *)
(***************************************************************************)
EXTENDS Naturals, FiniteSets, Functions

CONSTANTS
    SkillNames,     \* normalized names, of one scope
    DashedNames,    \* the names with three dashes in a row,
    BeforeDashes,   \* and the name each of them is read back by
    RetrievalK,     \* retrieval_k: the skills a prompt has room for
    Workers,        \* processes that use the files
    MaxSkillOps     \* bound: calls

ASSUME SkillAssumption ==
    /\ MaxSkillOps \in Nat /\ RetrievalK \in Nat /\ SkillNames # {} /\ Workers # {}
    /\ DashedNames \subseteq SkillNames /\ BeforeDashes \in [DashedNames -> SkillNames]

Triggers == {"plain", "quoted", "dashed"}
SkillQueries == {"", "common", "rare"}
NoSkills == <<>>                       \* a function of no name
Resting == [state |-> "idle"]
NoPrompt == [memory |-> {}, files |-> {}, cut |-> FALSE]

VARIABLES
    sMemory,    \* InMemorySkillStore: name -> [name, trigger, marks, enabled, uses]
    sFiles,     \* FileSkillStore: the same, as the file says
    sWorker,    \* what each process is in the middle of
    sPrompt,    \* what each process's last search found with either store, cut to k
    sPlainly,   \* history: no two processes overlapped, none died, no dashes were stored
    sOps

skillVars == <<sMemory, sFiles, sWorker, sPrompt, sPlainly, sOps>>

SkillInit ==
    /\ sMemory = NoSkills /\ sFiles = NoSkills
    /\ sWorker = [w \in Workers |-> Resting] /\ sPrompt = [w \in Workers |-> NoPrompt]
    /\ sPlainly = TRUE /\ sOps = 0

-----------------------------------------------------------------------------
(* Skills *)

Learned(n, trigger) ==
    [name |-> n, trigger |-> trigger, marks |-> 0, enabled |-> TRUE, uses |-> 0]

\* A file cut off before its text: read as an enabled skill without a trigger.
Torn(n) == Learned(n, "none")

\* _parse: what _write wrote, but for quotation marks and dashes.
Parse(file) ==
    IF file.name \in DashedNames /\ file # Torn(file.name)
    THEN Learned(BeforeDashes[file.name], IF file.trigger = "none" THEN "none" ELSE "cut")
    ELSE IF file.trigger = "dashed" THEN Learned(file.name, "cut")
    ELSE [file EXCEPT !.marks = IF file.trigger = "quoted" THEN @ + 1 ELSE @]

MatchesSkill(query, skill) == query = "" \/ (query = "common" /\ skill.trigger # "none")

\* The skills a search of these finds: the enabled ones that match.
Found(skills, query) ==
    {n \in DOMAIN skills : skills[n].enabled /\ MatchesSkill(query, skills[n])}

\* matches[:k]: the memory has them in the order they were learned, the files in the
\* order of a directory.
FirstOf(found) ==
    {S \in SUBSET found : IF Cardinality(found) <= RetrievalK THEN S = found
                                                            ELSE Cardinality(S) = RetrievalK}

Used(skill) == [skill EXCEPT !.uses = @ + 1]

Put(skills, skill) ==
    [m \in DOMAIN skills \cup {skill.name} |-> IF m = skill.name THEN skill ELSE skills[m]]

\* list: what is read of each file, by its directory.
Parsed(files) == [n \in DOMAIN files |-> Parse(files[n])]

-----------------------------------------------------------------------------
(* Calls: one at a time of a process, on both stores *)

SkillCall(w, dashes) ==
    /\ sWorker[w] = Resting /\ sOps < MaxSkillOps
    /\ sOps' = sOps + 1
    /\ sPlainly' = (sPlainly /\ ~dashes /\ \A v \in Workers : sWorker[v] = Resting)

Upsert(w, n, trigger) ==
    /\ SkillCall(w, n \in DashedNames \/ trigger = "dashed")
    /\ sMemory' = Put(sMemory, Learned(n, trigger))
    /\ sFiles' = Put(sFiles, Learned(n, trigger))
    /\ UNCHANGED <<sWorker, sPrompt>>

\* The file store's disable reads the file and upserts what it read.
Disable(w, n) ==
    /\ SkillCall(w, FALSE)
    /\ sMemory' = IF n \in DOMAIN sMemory THEN [sMemory EXCEPT ![n].enabled = FALSE] ELSE sMemory
    /\ sFiles' = IF n \in DOMAIN sFiles
                 THEN Put(sFiles, [Parse(sFiles[n]) EXCEPT !.enabled = FALSE])
                 ELSE sFiles
    /\ UNCHANGED <<sWorker, sPrompt>>

DeleteSkill(w, n) ==
    /\ SkillCall(w, FALSE)
    /\ sMemory' = Restrict(sMemory, DOMAIN sMemory \ {n})
    /\ sFiles' = Restrict(sFiles, DOMAIN sFiles \ {n})
    /\ UNCHANGED <<sWorker, sPrompt>>

\* _inject_learned_skills: the runner searches with the user's message.  The memory counts at
\* once; the process with the files has read them and has still to write those found.
BeginSearch(w, query) ==
    /\ SkillCall(w, FALSE)
    /\ sMemory' = [n \in DOMAIN sMemory |->
                     IF n \in Found(sMemory, query) THEN Used(sMemory[n]) ELSE sMemory[n]]
    /\ LET read == Parsed(sFiles) IN
       sWorker' = [sWorker EXCEPT ![w] =
                     [state |-> "writing", read |-> read, left |-> Found(read, query),
                      found |-> Found(read, query), memory |-> Found(sMemory, query)]]
    /\ UNCHANGED <<sFiles, sPrompt>>

\* Mutant: the use is counted in the copy that was read only.
CountInCopy(w, n) ==
    /\ sWorker[w].state = "writing" /\ n \in sWorker[w].left
    /\ sWorker' = [sWorker EXCEPT ![w].left = @ \ {n}]
    /\ UNCHANGED <<sMemory, sFiles, sPrompt, sPlainly, sOps>>

\* The file is written as it was read, by the name that was read, with a use more.
WriteBack(w, n) ==
    /\ sWorker[w].state = "writing" /\ n \in sWorker[w].left
    /\ sFiles' = Put(sFiles, Used(sWorker[w].read[n]))
    /\ sWorker' = [sWorker EXCEPT ![w].left = @ \ {n}]
    /\ UNCHANGED <<sMemory, sPrompt, sPlainly, sOps>>

SearchReturns(w) ==
    /\ sWorker[w].state = "writing" /\ sWorker[w].left = {}
    /\ \E inMemory \in FirstOf(sWorker[w].memory), inFiles \in FirstOf(sWorker[w].found) :
          sPrompt' = [sPrompt EXCEPT ![w] =
                        [memory |-> inMemory, files |-> inFiles,
                         cut |-> inFiles # sWorker[w].found]]
    /\ sWorker' = [sWorker EXCEPT ![w] = Resting]
    /\ UNCHANGED <<sMemory, sFiles, sPlainly, sOps>>

\* The process dies in the middle of a write.
DieWriting(w, n) ==
    /\ sWorker[w].state = "writing" /\ n \in sWorker[w].left
    /\ sFiles' = Put(sFiles, Torn(n)) /\ sPlainly' = FALSE
    /\ sWorker' = [sWorker EXCEPT ![w] = Resting]
    /\ UNCHANGED <<sMemory, sPrompt, sOps>>

SkillNext ==
    \E w \in Workers :
       \/ \E n \in SkillNames :
             \/ \E trigger \in Triggers : Upsert(w, n, trigger)
             \/ Disable(w, n) \/ DeleteSkill(w, n) \/ WriteBack(w, n) \/ DieWriting(w, n)
       \/ \E query \in SkillQueries : BeginSearch(w, query)
       \/ SearchReturns(w)

SkillSpec == SkillInit /\ [][SkillNext]_skillVars

-----------------------------------------------------------------------------
\* What both stores say of a skill; the marks are the file store's alone.
SkillAnswer(skill) == [trigger |-> skill.trigger, enabled |-> skill.enabled, uses |-> skill.uses]

\* Whichever store is configured, the calls of one process after another leave the same
\* skills, switched on or off and used as often, and a search finds the same ones: those it
\* puts into the prompt are the same, or, when the prompt has no room for all, as many
\* (skills/store.py, InMemorySkillStore and FileSkillStore).  This is of names and triggers
\* without three dashes in a row.  Processes that overlap may undo each other's calls on the
\* files, and a dying one may leave an empty skill.
StoresAgree ==
    sPlainly =>
        /\ (\A w \in Workers : sWorker[w] = Resting) =>
              /\ DOMAIN sFiles = DOMAIN sMemory
              /\ \A n \in DOMAIN sFiles : SkillAnswer(sFiles[n]) = SkillAnswer(sMemory[n])
        /\ \A w \in Workers :
              /\ Cardinality(sPrompt[w].files) = Cardinality(sPrompt[w].memory)
              /\ ~sPrompt[w].cut => sPrompt[w].files = sPrompt[w].memory
=============================================================================
