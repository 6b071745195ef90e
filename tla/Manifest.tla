------------------------------ MODULE Manifest -------------------------------
(***************************************************************************)
(* A manifest names agents and groups of agents; a member of a group is    *)
(* the name of one, or one written in place.  Before a run the resolver    *)
(* walks from the root through the members, depth first, with the names of *)
(* the groups it is inside of, and builds the executor of what it found.   *)
(* It stops at the first member it cannot resolve.                         *)
(***************************************************************************)
EXTENDS Naturals, Sequences, SequencesExt, Functions

CONSTANTS
    GroupNames,     \* groups the manifest declares
    AgentNames,     \* agents it declares; a name may be both
    LooseNames,     \* names of groups written in place, and of nothing
    RootNames,      \* names tried as the root
    MaxMembers      \* bound: members of a group

ASSUME ManifestAssumption ==
    /\ MaxMembers \in Nat /\ RootNames \subseteq GroupNames \cup AgentNames \cup LooseNames
    /\ LooseNames \cap (GroupNames \cup AgentNames) = {}

AllNames == GroupNames \cup AgentNames \cup LooseNames

\* A member: a name, or a group in place with one name in it.  An agent in place resolves
\* by itself, like the name of an agent.
Ref(n) == [kind |-> "ref", name |-> n, members |-> <<>>]
InPlace(n, m) == [kind |-> "group", name |-> n, members |-> <<Ref(m)>>]
Entry == {Ref(n) : n \in AllNames}
         \cup {InPlace(n, m) : n \in LooseNames, m \in GroupNames}

NoGroups == <<>>

VARIABLES
    mRoot,      \* the manifest's root
    mGroups,    \* members of the declared groups
    mOdd,       \* groups whose pattern is not supported
    mStack,     \* the groups the resolver is inside of: [name, left]
    mDone,      \* names of the groups resolved so far
    mOutcome,   \* "unread", "read", "resolving"; "agent", "group": what the executor is built of;
                \* "cycle", "missing", "unsupported": the error
    mCycle      \* the path the error tells

manifestVars == <<mRoot, mGroups, mOdd, mStack, mDone, mOutcome, mCycle>>

ManifestInit ==
    /\ mRoot = "" /\ mGroups = NoGroups /\ mOdd = {} /\ mStack = <<>> /\ mDone = {}
    /\ mOutcome = "unread" /\ mCycle = <<>>

-----------------------------------------------------------------------------
Stop(outcome) == mOutcome' = outcome /\ mStack' = <<>>

NamesInside == [i \in DOMAIN mStack |-> mStack[i].name]

\* Mutant: no group may be resolved twice.
ForbiddenEver == Range(NamesInside) \cup mDone

\* The groups a group must not lie in: those the resolver is inside of.
Forbidden == Range(NamesInside)

\* _resolve_group
EnterGroup(name, members, stack) ==
    IF name \in Forbidden
    THEN Stop("cycle") /\ mCycle' = Append(NamesInside, name)
    ELSE /\ UNCHANGED mCycle
         /\ \/ name \in mOdd /\ Stop("unsupported")
            \/ /\ name \notin mOdd /\ mOutcome' = "resolving"
               /\ mStack' = Append(stack, [name |-> name, left |-> members])

\* The manifest is read; a root it does not declare is an error at once.
Load ==
    /\ mOutcome = "unread"
    /\ mRoot' \in RootNames
    /\ mGroups' \in [GroupNames -> UNION {[1..n -> Entry] : n \in 0..MaxMembers}]
    /\ mOdd' \in {{}} \cup {{g} : g \in GroupNames \ {mRoot'}}
    /\ mOutcome' = IF mRoot' \in LooseNames THEN "missing" ELSE "read"
    /\ UNCHANGED <<mStack, mDone, mCycle>>

\* resolve_root: an agent of that name, or else a group.
ResolveRoot ==
    /\ mOutcome = "read"
    /\ \/ mRoot \in AgentNames /\ Stop("agent") /\ UNCHANGED mCycle
       \/ /\ mRoot \in GroupNames \ AgentNames
          /\ EnterGroup(mRoot, mGroups[mRoot], mStack)
    /\ UNCHANGED <<mRoot, mGroups, mOdd, mDone>>

Inner == Last(mStack)
Taken == [mStack EXCEPT ![Len(mStack)].left = Tail(@)]

\* _resolve_member_entry: the next member of the group the resolver is in.
ResolveMember ==
    /\ mStack # <<>> /\ Inner.left # <<>>
    /\ LET e == Head(Inner.left) IN
       \/ e.kind = "group" /\ EnterGroup(e.name, e.members, Taken)
       \/ /\ e.kind = "ref" /\ e.name \in AgentNames
          /\ mStack' = Taken /\ UNCHANGED <<mOutcome, mCycle>>
       \/ /\ e.kind = "ref" /\ e.name \in GroupNames \ AgentNames
          /\ EnterGroup(e.name, mGroups[e.name], Taken)
       \/ e.kind = "ref" /\ e.name \in LooseNames /\ Stop("missing") /\ UNCHANGED mCycle
    /\ UNCHANGED <<mRoot, mGroups, mOdd, mDone>>

\* All members resolved: the group is.  After the root's, the executor is built.
LeaveGroup ==
    /\ mStack # <<>> /\ Inner.left = <<>>
    /\ mDone' = mDone \cup {Inner.name}
    /\ mStack' = Front(mStack)
    /\ mOutcome' = IF Len(mStack) = 1 THEN "group" ELSE mOutcome
    /\ UNCHANGED <<mRoot, mGroups, mOdd, mCycle>>

ManifestNext == Load \/ ResolveRoot \/ ResolveMember \/ LeaveGroup

ManifestSpec == ManifestInit /\ [][ManifestNext]_manifestVars

-----------------------------------------------------------------------------
\* The references themselves, whatever the order they are followed in.
RefsOf(members) ==
    {e.name : e \in {e \in members \cup UNION {Range(e.members) : e \in members} : e.kind = "ref"}}
RefNames(g) == RefsOf(Range(mGroups[g]))
Declared == GroupNames \ AgentNames

\* The groups that these names lead to: what is in every set that has them and the
\* references of its members.
LeadTo(names) ==
    {h \in Declared :
        \A S \in SUBSET Declared :
            (/\ names \cap Declared \subseteq S
             /\ \A g \in S : RefNames(g) \cap Declared \subseteq S) => h \in S}
Below(g) == LeadTo(RefNames(g))
UnderRoot == {mRoot} \cup Below(mRoot)
Loops == {g \in UnderRoot : g \in Below(g)}

\* Groups in place have names of their own.
NamesApart ==
    \A g \in UnderRoot, h \in UnderRoot : \A i \in DOMAIN mGroups[g], j \in DOMAIN mGroups[h] :
        mGroups[g][i].kind = "group" /\ mGroups[h][j].kind = "group"
        /\ mGroups[g][i].name = mGroups[h][j].name => g = h /\ i = j

\* A manifest resolves only if no groups under its root refer to each other in a loop, and
\* nothing under it is undefined; a loop is reported only where there is one: not when a
\* group is a member twice, of one group or of several (orchestration/resolver.py
\* _resolve_group; docs/reference/manifest-schema.md: "Nested groups reference each other in
\* a loop").  A group in place that is named like one it lies in is taken for a loop.
CycleIsReported ==
    mRoot \in Declared =>
        /\ mOutcome = "group" =>
              /\ Loops = {} /\ UnderRoot \cap mOdd = {}
              /\ \A g \in UnderRoot : RefNames(g) \subseteq GroupNames \cup AgentNames
        /\ mOutcome = "cycle" /\ NamesApart => Loops # {}
=============================================================================
