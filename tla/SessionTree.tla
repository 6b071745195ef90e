---------------------------- MODULE SessionTree -----------------------------
(***************************************************************************)
(* The execution view of a supervisor group: what the runners record while *)
(* the supervisor delegates, and the tree that is built of it.             *)
(*                                                                         *)
(* A turn is the time it was taken.  The record of a delegation is made    *)
(* when the delegate is through, under the name the tool is registered     *)
(* with, "supervisor.delegate_to_<member>"; a model that leaves the plugin *)
(* out gets an error, recorded under the bare name.                        *)
(***************************************************************************)
EXTENDS Naturals, Sequences, SequencesExt, FiniteSets, Ordered

CONSTANTS
    Delegates,
    MaxDelegations, \* bound: delegations and misnamed calls
    MaxTurnsEach    \* bound: turns of a delegate in all

ASSUME TreeAssumption == MaxDelegations \in Nat /\ MaxTurnsEach \in Nat

ViewPatterns == {"auto", "supervisor", "pipeline"}

VARIABLES
    vClock,
    vTurns,     \* Delegates -> the times of its turns
    vCalls,     \* the records of the supervisor by tc_index: [member, at, bare]
    vRunning    \* the delegates at work: member -> index of the call, 0 for none

treeVars == <<vClock, vTurns, vCalls, vRunning>>

TreeInit ==
    /\ vClock = 1 /\ vCalls = <<>>
    /\ vTurns = [m \in Delegates |-> <<>>]
    /\ vRunning = [m \in Delegates |-> 0]

LaterOn == vClock' = vClock + 1

\* tc_index is taken when the tool call begins, its record is stamped at the end.
BeginDelegation(m) ==
    /\ vRunning[m] = 0 /\ Len(vCalls) < MaxDelegations
    /\ vCalls' = Append(vCalls, [member |-> m, at |-> 0, bare |-> FALSE])
    /\ vRunning' = [vRunning EXCEPT ![m] = Len(vCalls) + 1]
    /\ UNCHANGED <<vClock, vTurns>>

DelegateTurn(m) ==
    /\ vRunning[m] # 0 /\ Len(vTurns[m]) < MaxTurnsEach
    /\ vTurns' = [vTurns EXCEPT ![m] = Append(@, vClock)]
    /\ LaterOn /\ UNCHANGED <<vCalls, vRunning>>

EndDelegation(m) ==
    /\ vRunning[m] # 0
    /\ vCalls' = [vCalls EXCEPT ![vRunning[m]].at = vClock]
    /\ vRunning' = [vRunning EXCEPT ![m] = 0]
    /\ LaterOn /\ UNCHANGED vTurns

\* "Tool 'delegate_to_m.' not found in registry"
MisnamedCall(m) ==
    /\ Len(vCalls) < MaxDelegations
    /\ vCalls' = Append(vCalls, [member |-> m, at |-> vClock, bare |-> TRUE])
    /\ LaterOn /\ UNCHANGED <<vTurns, vRunning>>

TreeNext ==
    \E m \in Delegates :
        BeginDelegation(m) \/ DelegateTurn(m) \/ EndDelegation(m) \/ MisnamedCall(m)

-----------------------------------------------------------------------------
(* The tree.  A node is [member, call, turns], with the number of the      *)
(* delegation it stands for, 0 for all of a member; the supervisor's is    *)
(* left out.                                                               *)

\* A member has a session once it took a turn.
HasSession(m) == vTurns[m] # <<>>
Whole(m) == [member |-> m, call |-> 0, turns |-> ToSet(vTurns[m])]
OneEach(S) == {Whole(m) : m \in {d \in S : HasSession(d)}}

\* Mutant: the name is looked at without its plugin.
AnyDelegation(call) == TRUE

\* tool_name.startswith("delegate_to_")
IsDelegation(call) == call.bare

DelegateCalls == AtPlaces(vCalls, {i \in DOMAIN vCalls : IsDelegation(vCalls[i])})
HasDelegateTools == DelegateCalls # <<>>

\* The turns of the i-th call: its member's between it and the next call, of those
\* behind a cursor.
TurnsFrom(i, cursor) ==
    LET turns == vTurns[DelegateCalls[i].member]
        Within(t) ==
            /\ t >= DelegateCalls[i].at
            /\ i < Len(DelegateCalls) => t < DelegateCalls[i + 1].at
    IN {turns[k] : k \in {j \in DOMAIN turns : j > cursor /\ Within(turns[j])}}

\* member_turn_cursors, as each call finds them: as many turns as the calls before took.
Cursors ==
    LET cursor[i \in DOMAIN DelegateCalls] ==
            IF i = 1 THEN [m \in Delegates |-> 0]
            ELSE [cursor[i - 1] EXCEPT ![DelegateCalls[i - 1].member] =
                    @ + Cardinality(TurnsFrom(i - 1, @))]
    IN cursor

Child(i) ==
    LET member == DelegateCalls[i].member
    IN [member |-> member, call |-> i, turns |-> TurnsFrom(i, Cursors[i][member])]

Children == {Child(i) : i \in {k \in DOMAIN DelegateCalls : HasSession(DelegateCalls[k].member)}}

\* Members that no call names stand beside the supervisor.
Named == {DelegateCalls[i].member : i \in DOMAIN DelegateCalls}
SupervisorTree == Children \cup OneEach(Delegates \ Named)

\* member_order names every member.
PipelineTree == OneEach(Delegates)
ChronologicalTree == OneEach(Delegates)

ResolvePattern(pattern) ==
    IF pattern # "auto" THEN pattern
    ELSE IF HasDelegateTools THEN "supervisor" ELSE "unknown"

GroupView(pattern) ==
    CASE ResolvePattern(pattern) = "supervisor" -> SupervisorTree
      [] ResolvePattern(pattern) = "pipeline" -> PipelineTree
      [] ResolvePattern(pattern) = "unknown" -> ChronologicalTree

-----------------------------------------------------------------------------
NoneRunning == \A m \in Delegates : vRunning[m] = 0

NoTurnTwice(view) ==
    \A n, k \in view : n # k /\ n.member = k.member => n.turns \cap k.turns = {}

EveryTurn(view) ==
    \A m \in Delegates : \A t \in ToSet(vTurns[m]) :
        \E n \in view : n.member = m /\ t \in n.turns

(***************************************************************************)
(* No view, whatever pattern is asked for, shows a turn of a member twice; *)
(* and while every delegation is called by its registered name, each shows *)
(* every turn.  It does so because it never takes such a call for a        *)
(* delegation: recognised, it would look for the delegate's turns after    *)
(* the record, which is made when they are over.  (aggregate.py:44-155)    *)
(***************************************************************************)
ViewKeepsTurns ==
    NoneRunning => \A pattern \in ViewPatterns :
        /\ NoTurnTwice(GroupView(pattern))
        /\ (\A i \in DOMAIN vCalls : ~vCalls[i].bare) => EveryTurn(GroupView(pattern))

TreeSpec == TreeInit /\ [][TreeNext]_treeVars
=============================================================================
