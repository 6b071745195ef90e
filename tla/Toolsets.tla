------------------------------ MODULE Toolsets ------------------------------
(***************************************************************************)
(* The tool names and the named bundles of a ToolRegistry, and the         *)
(* expansion of bundles into tools: resolve_toolset_tools, a depth-first   *)
(* walk that shares one set of visited names, one call at a time.          *)
(*                                                                         *)
(* A bundle may include only bundles that exist, but defining one again    *)
(* can close a cycle.  Tools and bundles are looked up by the same names.  *)
(***************************************************************************)
EXTENDS Naturals, Sequences, FiniteSets, SequencesExt

CONSTANTS
    ToolNames,
    SetNames,
    Dotted,      \* the names with a dot
    MaxIncludes, \* bound: bundles one bundle includes
    MaxDefines,  \* bound: definitions
    MaxNames     \* bound: names expanded together

ASSUME ToolsetAssumption ==
    /\ Dotted \subseteq ToolNames \cup SetNames
    /\ MaxIncludes \in Nat /\ MaxDefines \in Nat /\ MaxNames \in Nat

VARIABLES
    xTools,     \* the keys of _tools
    xSets,      \* _toolsets, name -> [tools, includes]
    xDefines,   \* definitions so far
    xAsked,     \* the names being expanded, none when nothing is
    xLeft,      \* those whose walk has not begun
    xCalls,     \* the calls of resolve_toolset_tools to come, the next one first
    xSeen,      \* the names this walk has visited
    xOut        \* the tools found so far

registered == <<xTools, xSets, xDefines>>
walk == <<xAsked, xLeft, xCalls, xSeen, xOut>>
toolsetVars == <<registered, walk>>

NoWalk == xAsked = {} /\ xLeft = {} /\ xCalls = <<>> /\ xSeen = {} /\ xOut = {}
ToolsetInit == xTools = {} /\ xSets = <<>> /\ xDefines = 0 /\ NoWalk

Bundle(tools, includes) == [tools |-> tools, includes |-> includes]

Define(n, bundle) ==
    xSets' = [m \in DOMAIN xSets \cup {n} |-> IF m = n THEN bundle ELSE xSets[m]]

\* register_tool, register_plugin
RegisterTool(t) ==
    /\ NoWalk /\ t \notin xTools
    /\ xTools' = xTools \cup {t}
    /\ UNCHANGED <<xSets, xDefines, walk>>

\* The included bundles that are there, in some order.
Includable == {s \in SeqOf(DOMAIN xSets, MaxIncludes) : IsInjective(s)}

\* define_toolset with names: every tool is registered, every include defined.
DefineToolset(n) ==
    /\ NoWalk /\ xDefines < MaxDefines
    /\ \E t \in xTools, includes \in Includable : Define(n, Bundle({t}, includes))
    /\ xDefines' = xDefines + 1
    /\ UNCHANGED <<xTools, walk>>

\* add_toolset with a callable, which is registered before an include is found missing.
AddToolset(n) ==
    /\ NoWalk /\ xDefines < MaxDefines
    /\ \E t \in ToolNames :
          /\ xTools' = xTools \cup {t}
          /\ \/ \E includes \in Includable : Define(n, Bundle({t}, includes))
             \/ DOMAIN xSets # SetNames /\ UNCHANGED xSets
    /\ xDefines' = xDefines + 1
    /\ UNCHANGED walk

-----------------------------------------------------------------------------
(* The expansion.  Nothing is registered meanwhile. *)

\* resolve_toolset
ResolveToolset(names) ==
    /\ NoWalk
    /\ xAsked' = names /\ xLeft' = names
    /\ UNCHANGED <<registered, xCalls, xSeen, xOut>>

\* Every name of the list is walked on its own.
WalkName(n) ==
    /\ n \in xLeft /\ xCalls = <<>>
    /\ xLeft' = xLeft \ {n} /\ xCalls' = <<n>> /\ xSeen' = {}
    /\ UNCHANGED <<registered, xAsked, xOut>>

\* if name in seen: return
PassOver ==
    /\ xCalls # <<>> /\ Head(xCalls) \in xSeen
    /\ xCalls' = Tail(xCalls)
    /\ UNCHANGED <<registered, xAsked, xLeft, xSeen, xOut>>

FirstVisit == xCalls # <<>> /\ Head(xCalls) \notin xSeen /\ xSeen' = xSeen \cup {Head(xCalls)}

\* A name that is no bundle is a tool if it has a dot.
VisitTool ==
    /\ FirstVisit /\ Head(xCalls) \notin DOMAIN xSets
    /\ xOut' = xOut \cup ({Head(xCalls)} \cap Dotted)
    /\ xCalls' = Tail(xCalls)
    /\ UNCHANGED <<registered, xAsked, xLeft>>

\* Mutant: included bundles are not entered.
VisitFlat ==
    /\ FirstVisit /\ Head(xCalls) \in DOMAIN xSets
    /\ xOut' = xOut \cup xSets[Head(xCalls)].tools
    /\ xCalls' = Tail(xCalls)
    /\ UNCHANGED <<registered, xAsked, xLeft>>

\* The bundle's own tools, then what it includes before what is still to come.
VisitBundle ==
    /\ FirstVisit /\ Head(xCalls) \in DOMAIN xSets
    /\ xOut' = xOut \cup xSets[Head(xCalls)].tools
    /\ xCalls' = xSets[Head(xCalls)].includes \o Tail(xCalls)
    /\ UNCHANGED <<registered, xAsked, xLeft>>

Resolved == xAsked # {} /\ xLeft = {} /\ xCalls = <<>>

Return ==
    /\ Resolved
    /\ xAsked' = {} /\ xSeen' = {} /\ xOut' = {}
    /\ UNCHANGED <<registered, xLeft, xCalls>>

ToolsetNext ==
    \/ \E t \in ToolNames : RegisterTool(t)
    \/ \E n \in SetNames : DefineToolset(n) \/ AddToolset(n)
    \/ \E names \in SUBSET (SetNames \cup ToolNames) :
          Cardinality(names) \in 1 .. MaxNames /\ ResolveToolset(names)
    \/ \E n \in xLeft : WalkName(n)
    \/ PassOver \/ VisitTool \/ VisitBundle \/ Return

-----------------------------------------------------------------------------
\* The bundles a name leads to: what is in every set that has it and is closed.
Reachable(n) ==
    {m \in DOMAIN xSets :
        \A S \in SUBSET DOMAIN xSets :
            (/\ n \in S
             /\ \A s \in S : ToSet(xSets[s].includes) \subseteq S) => m \in S}
ToolsUnder(n) == UNION {xSets[m].tools : m \in Reachable(n)}

(***************************************************************************)
(* An expansion finds exactly the tools of the bundles that the names lead *)
(* to: a bundle reached on two ways, on a cycle, which a second definition *)
(* can close, or already visited for another, costs none of its tools; a   *)
(* dotted name that is no bundle stands for itself.                        *)
(* (tools/toolsets.py:34-51, tools/registry.py:246-262)                    *)
(***************************************************************************)
ResolveIsReachable ==
    Resolved =>
        xOut = (UNION {ToolsUnder(n) : n \in xAsked \cap DOMAIN xSets})
                   \cup ((xAsked \ DOMAIN xSets) \cap Dotted)

ToolsetSpec == ToolsetInit /\ [][ToolsetNext]_toolsetVars
=============================================================================
