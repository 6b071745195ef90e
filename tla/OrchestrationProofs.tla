------------------------ MODULE OrchestrationProofs -------------------------
(***************************************************************************)
(* Proofs about the orchestrator: turn budgets and context sharing of a    *)
(* group, for any number of members, any budget, and every pattern, with   *)
(* nested groups or without; the loops of a manifest, for any agents and   *)
(* groups; and what a bundle of tools expands to.                          *)
(***************************************************************************)
EXTENDS GroupRun, Manifest, Toolsets, SequenceTheorems, TLAPS

States == {"idle", "running", "over", "failed", "lost"}

Facts == {0} \cup Members

MemberRecords == [state : States, knows : SUBSET Facts, limit : Nat]

GroupTypeOK ==
    /\ gStatus \in {"idle", "running", "completed", "failed", "raised"}
    /\ gPattern \in {"pipeline", "parallel", "supervisor"}
    /\ gStreams \in BOOLEAN
    /\ gSharing \in Sharings
    /\ gNested \subseteq Members
    /\ gBudget \in Nat /\ gTurns \in Nat /\ gSpent \in Nat
    /\ gAt \in Nat \ {0} /\ (gPattern # "pipeline" => gAt \in Members)
    /\ gContext \subseteq Facts
    /\ gMember \in [Members -> MemberRecords]

\* Before the run starts nothing has happened.
Untouched ==
    gStatus = "idle" =>
        /\ gPattern = "pipeline" /\ gAt = 1
        /\ gTurns = 0 /\ gSpent = 0
        /\ gContext = {0}
        /\ \A m \in Members : gMember[m].state = "idle" /\ gMember[m].knows = {}

\* Nothing comes up to the group, and members know no more than they may.
Scope ==
    /\ (gSharing # "shared" \/ gPattern = "parallel") =>
          /\ gContext = {0}
          /\ \A m \in Members : gMember[m].knows \subseteq {0, m}
    /\ gSharing = "isolated" => \A m \in Members : gMember[m].knows \subseteq {m}

\* A pipeline has one member at work, and hands on what those before it left.
InOrder ==
    gPattern = "pipeline" =>
        /\ \A m \in Members : Running(m) => m = gAt
        /\ \A m \in Members : m > gAt => gMember[m].state = "idle"
        /\ gSharing = "shared" =>
              /\ \A n \in Members : n < gAt => gMember[n].knows \subseteq gContext
              /\ \A m, n \in Members :
                    (n < m /\ gMember[m].state # "idle")
                        => gMember[n].knows \subseteq gMember[m].knows

\* The member at work has what the others left of the budget.
InBudget ==
    (gPattern = "pipeline" /\ ~gStreams /\ gNested = {}) =>
        /\ gSpent <= gBudget
        /\ gStatus = "running" => gSpent = gTurns
        /\ (gStatus = "running" /\ gAt \in Members /\ Running(gAt)) =>
              gMember[gAt].limit <= gBudget - gTurns

GroupInv == GroupTypeOK /\ Untouched /\ Scope /\ InOrder /\ InBudget

-----------------------------------------------------------------------------
(***************************************************************************)
(* What the steps do to the members.                                       *)
(***************************************************************************)
LEMMA EndedEffect ==
    ASSUME GroupTypeOK, NEW m \in Members, NEW how \in States, Ended(m, how)
    PROVE  /\ gMember' \in [Members -> MemberRecords]
           /\ \A n \in Members :
                 /\ gMember'[n].knows = gMember[n].knows
                 /\ gMember'[n].limit = gMember[n].limit
                 /\ gMember'[n].state = IF n = m THEN how ELSE gMember[n].state
BY DEF GroupTypeOK, Ended, MemberRecords

LEMMA BeginEffect ==
    ASSUME GroupTypeOK, NEW m \in Members, NEW context \in SUBSET Facts,
           NEW limit \in Nat, Begin(m, context, limit)
    PROVE  /\ gMember' \in [Members -> MemberRecords]
           /\ gMember'[m] = [state |-> "running", knows |-> Down(m, context), limit |-> limit]
           /\ \A n \in Members : n # m => gMember'[n] = gMember[n]
<1>1. Down(m, context) \in SUBSET Facts
    BY DEF GroupTypeOK, Down, MemberRecords
<1> QED
    BY <1>1 DEF GroupTypeOK, Begin, MemberRecords, States

\* The turns of a member are a number, at most its limit when it is an agent.
LEMMA TookBound ==
    ASSUME GroupTypeOK, NEW m \in Members, NEW turns \in Took(m)
    PROVE  /\ turns \in Nat
           /\ m \notin gNested => turns <= gMember[m].limit
           /\ Counted(m, turns) \in Nat
           /\ (~gStreams \/ m \notin gNested) => Counted(m, turns) = turns
<1>1. gMember[m].limit \in Nat
    BY DEF GroupTypeOK, MemberRecords
<1>2. CASE m \in gNested
    BY <1>1, <1>2 DEF Took, Counted
<1>3. CASE m \notin gNested
    BY <1>1, <1>3 DEF Took, Counted
<1> QED
    BY <1>2, <1>3

\* What a member leaves comes up only in a group that shares.
LEMMA UpEffect ==
    ASSUME GroupTypeOK, NEW m \in Members
    PROVE  /\ Up(m) \subseteq Facts
           /\ gContext \subseteq Up(m)
           /\ gSharing # "shared" => Up(m) = gContext
           /\ gSharing = "shared" => gMember[m].knows \subseteq Up(m)
BY DEF GroupTypeOK, Up, MemberRecords

LEMMA GroupInitially == GroupInit => GroupInv
<1> SUFFICES ASSUME GroupInit
             PROVE  GroupInv
    OBVIOUS
<1> USE GroupAssumption DEF GroupInit
<1>1. GroupTypeOK
  <2>1. gMember \in [Members -> MemberRecords]
      BY DEF MemberRecords, States
  <2>2. gContext \subseteq Facts
      BY DEF Facts
  <2>3. gNested \subseteq Members /\ gStreams \in BOOLEAN /\ gSharing \in Sharings
      BY DEF Sharings
  <2> QED
      BY <2>1, <2>2, <2>3 DEF GroupTypeOK
<1>2. Untouched /\ Scope
    BY DEF Untouched, Scope
<1>3. InOrder /\ InBudget
    BY DEF InOrder, InBudget, Running, Members
<1> QED
    BY <1>1, <1>2, <1>3 DEF GroupInv

(***************************************************************************)
(* A pipeline's steps.                                                     *)
(***************************************************************************)
LEMMA StartKeeps == GroupInv /\ GroupStart => GroupInv'
<1> SUFFICES ASSUME GroupInv, GroupStart
             PROVE  GroupInv'
    OBVIOUS
<1>1. /\ gAt' = 1 /\ gTurns = 0 /\ gSpent = 0 /\ gContext = {0}
      /\ gStatus' \in {"running", "failed"}
      /\ UNCHANGED <<gTurns, gContext, gSpent>>
    BY DEF GroupInv, Untouched, GroupStart
<1>2. \A m \in Members :
         gMember'[m] = [gMember[m] EXCEPT !.knows = IF gSharing' = "isolated" THEN {} ELSE gContext]
    BY DEF GroupStart
<1>3. \A m \in Members :
         /\ gMember'[m].state = "idle"
         /\ gMember'[m].knows = IF gSharing' = "isolated" THEN {} ELSE {0}
    BY <1>1, <1>2 DEF GroupInv, GroupTypeOK, Untouched, MemberRecords, GroupStart
<1>4. GroupTypeOK'
  <2>1. gMember' \in [Members -> MemberRecords]
      BY <1>1 DEF GroupInv, GroupTypeOK, MemberRecords, GroupStart
  <2>2. gBudget' \in Nat
      BY GroupAssumption DEF GroupStart
  <2>3. 1 \in Members
      BY GroupAssumption DEF Members
  <2> QED
      BY <1>1, <2>1, <2>2, <2>3 DEF GroupInv, GroupTypeOK, GroupStart
<1>5. Untouched'
    BY <1>1 DEF Untouched
<1>6. Scope'
    BY <1>1, <1>3 DEF Scope
<1>7. InOrder'
    BY <1>1, <1>3 DEF InOrder, Running, Members
<1>8. InBudget'
    BY <1>1, <1>3, <1>4 DEF InBudget, GroupTypeOK, Running
<1> QED
    BY <1>4, <1>5, <1>6, <1>7, <1>8 DEF GroupInv

LEMMA PipelineNextKeeps == GroupInv /\ PipelineNext => GroupInv'
<1> SUFFICES ASSUME GroupInv, PipelineNext
             PROVE  GroupInv'
    OBVIOUS
<1> DEFINE limit == IF gStreams THEN OwnTurns ELSE Remaining
<1>1. /\ gStatus = "running" /\ gPattern = "pipeline" /\ gAt \in Members
      /\ ~Running(gAt)
      /\ UNCHANGED <<gStatus, gPattern, gStreams, gSharing, gNested, gBudget,
                     gTurns, gContext, gAt, gCalls, gSpent>>
      /\ Begin(gAt, gContext, limit)
    BY DEF PipelineNext, InPipeline, config
<1>2. GroupTypeOK /\ gContext \in SUBSET Facts
    BY DEF GroupInv, GroupTypeOK
<1>3. limit \in Nat /\ (~gStreams => limit = gBudget - gTurns)
    BY <1>2, GroupAssumption DEF PipelineNext, Remaining, GroupTypeOK
<1> HIDE DEF limit
<1>4. /\ gMember' \in [Members -> MemberRecords]
      /\ gMember'[gAt] = [state |-> "running", knows |-> Down(gAt, gContext), limit |-> limit]
      /\ \A n \in Members : n # gAt => gMember'[n] = gMember[n]
    BY <1>1, <1>2, <1>3, BeginEffect
<1>5. /\ gMember'[gAt].state = "running" /\ gMember'[gAt].limit = limit
      /\ gMember'[gAt].knows = Down(gAt, gContext)
    BY <1>4
<1>6. GroupTypeOK'
    BY <1>1, <1>2, <1>4 DEF GroupTypeOK
<1>7. Untouched'
    BY <1>1 DEF Untouched
<1>8. Scope'
    BY <1>1, <1>4, <1>5 DEF GroupInv, Scope, Down
<1>9. InOrder'
  <2>1. \A m \in Members : Running(m)' => m = gAt'
      BY <1>1, <1>4 DEF GroupInv, InOrder, Running
  <2>2. \A m \in Members : m > gAt' => gMember'[m].state = "idle"
      BY <1>1, <1>4, <1>2 DEF GroupInv, InOrder, GroupTypeOK
  <2>3. ASSUME gSharing = "shared"
        PROVE  /\ \A n \in Members : n < gAt => gMember'[n].knows \subseteq gContext
               /\ gContext \subseteq gMember'[gAt].knows
      BY <1>1, <1>2, <1>4, <1>5, <2>3 DEF GroupInv, InOrder, Down, GroupTypeOK
  <2>4. ASSUME gSharing = "shared", NEW m \in Members, NEW n \in Members, n < m,
               gMember'[m].state # "idle"
        PROVE  gMember'[n].knows \subseteq gMember'[m].knows
    <3>1. CASE m = gAt
        BY <2>3, <2>4, <3>1
    <3>2. CASE m # gAt
      <4>1. gMember[m].state # "idle" /\ m < gAt
          BY <1>1, <1>2, <1>4, <2>4, <3>2 DEF GroupInv, InOrder, GroupTypeOK, Members
      <4>2. n # gAt
          BY <1>2, <2>4, <4>1 DEF Members, GroupTypeOK
      <4> QED
          BY <1>1, <1>4, <2>4, <3>2, <4>1, <4>2 DEF GroupInv, InOrder
    <3> QED
        BY <3>1, <3>2
  <2> QED
      BY <1>1, <2>1, <2>2, <2>3, <2>4 DEF InOrder
<1>10. InBudget'
    BY <1>1, <1>2, <1>3, <1>5 DEF GroupInv, InBudget, GroupTypeOK
<1> QED
    BY <1>6, <1>7, <1>8, <1>9, <1>10 DEF GroupInv

LEMMA PipelineMemberOverKeeps == GroupInv /\ PipelineMemberOver => GroupInv'
<1> SUFFICES ASSUME GroupInv, PipelineMemberOver
             PROVE  GroupInv'
    OBVIOUS
<1>1. /\ gStatus = "running" /\ gPattern = "pipeline" /\ gAt \in Members
      /\ Running(gAt) /\ Ended(gAt, "over")
      /\ gContext' = Up(gAt) /\ gAt' = gAt + 1
      /\ UNCHANGED <<gPattern, gStreams, gSharing, gNested, gBudget, gCalls>>
      /\ gStatus' \in {"running", "failed"}
    BY DEF PipelineMemberOver, InPipeline, config
<1>2. GroupTypeOK
    BY DEF GroupInv
<1>3. PICK turns \in Took(gAt) :
          gTurns' = gTurns + Counted(gAt, turns) /\ gSpent' = gSpent + turns
    BY DEF PipelineMemberOver
<1>4. /\ turns \in Nat /\ Counted(gAt, turns) \in Nat
      /\ gAt \notin gNested => turns <= gMember[gAt].limit
      /\ gAt \notin gNested => Counted(gAt, turns) = turns
    BY <1>1, <1>2, <1>3, TookBound
<1>5. /\ gMember' \in [Members -> MemberRecords]
      /\ \A n \in Members :
            /\ gMember'[n].knows = gMember[n].knows
            /\ gMember'[n].limit = gMember[n].limit
            /\ gMember'[n].state = IF n = gAt THEN "over" ELSE gMember[n].state
    BY <1>1, <1>2, EndedEffect DEF States
<1>6. /\ gContext' \subseteq Facts /\ gContext \subseteq gContext'
      /\ gSharing # "shared" => gContext' = gContext
      /\ gSharing = "shared" => gMember[gAt].knows \subseteq gContext'
    BY <1>1, <1>2, UpEffect
<1>7. GroupTypeOK'
    BY <1>1, <1>2, <1>3, <1>4, <1>5, <1>6 DEF GroupTypeOK
<1>8. Untouched'
    BY <1>1 DEF Untouched
<1>9. Scope'
    BY <1>1, <1>5, <1>6 DEF GroupInv, Scope
<1>10. InOrder'
  <2>1. \A m \in Members : ~Running(m)'
      BY <1>1, <1>5 DEF GroupInv, InOrder, Running
  <2>2. \A m \in Members : m > gAt' => gMember'[m].state = "idle"
      BY <1>1, <1>2, <1>5 DEF GroupInv, InOrder, GroupTypeOK, Members
  <2>3. ASSUME gSharing = "shared", NEW n \in Members, n < gAt'
        PROVE  gMember'[n].knows \subseteq gContext'
    <3>1. n = gAt \/ n < gAt
        BY <1>1, <1>2, <2>3 DEF GroupTypeOK, Members
    <3> QED
        BY <1>1, <1>5, <1>6, <2>3, <3>1 DEF GroupInv, InOrder
  <2>4. ASSUME gSharing = "shared", NEW m \in Members, NEW n \in Members, n < m,
               gMember'[m].state # "idle"
        PROVE  gMember'[n].knows \subseteq gMember'[m].knows
    <3>1. gMember[m].state # "idle"
        BY <1>1, <1>5, <2>4 DEF Running
    <3> QED
        BY <1>1, <1>5, <2>4, <3>1 DEF GroupInv, InOrder
  <2> QED
      BY <1>1, <2>1, <2>2, <2>3, <2>4 DEF InOrder
<1>11. InBudget'
  <2> SUFFICES ASSUME ~gStreams, gNested = {}
               PROVE  /\ gSpent' <= gBudget
                      /\ gSpent' = gTurns'
                      /\ ~(gAt' \in Members /\ Running(gAt)')
      BY <1>1 DEF InBudget
  <2>1. gMember[gAt].limit \in Nat
      BY <1>1, <1>2 DEF GroupTypeOK, MemberRecords
  <2>2. ASSUME gAt' \in Members, gMember'[gAt'].state = "running"
        PROVE  FALSE
      BY <1>1, <1>2, <1>5, <2>2 DEF GroupInv, InOrder, Running, GroupTypeOK, Members
  <2>3. gSpent = gTurns /\ gMember[gAt].limit <= gBudget - gTurns
      BY <1>1 DEF GroupInv, InBudget
  <2> QED
      BY <1>1, <1>2, <1>3, <1>4, <2>1, <2>2, <2>3 DEF GroupTypeOK, Running
<1> QED
    BY <1>7, <1>8, <1>9, <1>10, <1>11 DEF GroupInv

LEMMA PipelineMemberRaisesKeeps == GroupInv /\ PipelineMemberRaises => GroupInv'
<1> SUFFICES ASSUME GroupInv, PipelineMemberRaises
             PROVE  GroupInv'
    OBVIOUS
<1>1. /\ gStatus = "running" /\ gPattern = "pipeline" /\ gAt \in Members
      /\ Running(gAt) /\ Ended(gAt, "failed") /\ gStatus' = "failed"
      /\ UNCHANGED <<gPattern, gStreams, gSharing, gNested, gBudget, gTurns,
                     gContext, gAt, gCalls>>
    BY DEF PipelineMemberRaises, InPipeline, config
<1>2. GroupTypeOK
    BY DEF GroupInv
<1>3. PICK turns \in Took(gAt) : gSpent' = gSpent + turns
    BY DEF PipelineMemberRaises
<1>4. turns \in Nat /\ (gAt \notin gNested => turns <= gMember[gAt].limit)
    BY <1>1, <1>2, <1>3, TookBound
<1>5. /\ gMember' \in [Members -> MemberRecords]
      /\ \A n \in Members :
            /\ gMember'[n].knows = gMember[n].knows
            /\ gMember'[n].state = IF n = gAt THEN "failed" ELSE gMember[n].state
    BY <1>1, <1>2, EndedEffect DEF States
<1>6. GroupTypeOK'
    BY <1>1, <1>2, <1>3, <1>4, <1>5 DEF GroupTypeOK
<1>7. Untouched'
    BY <1>1 DEF Untouched
<1>8. Scope'
    BY <1>1, <1>5 DEF GroupInv, Scope
<1>9. InOrder'
  <2>1. \A m \in Members : gMember'[m].state # "idle" => gMember[m].state # "idle"
      BY <1>1, <1>5 DEF Running
  <2>2. \A m \in Members : ~Running(m)'
      BY <1>1, <1>5 DEF GroupInv, InOrder, Running
  <2>3. \A m \in Members : m > gAt => gMember'[m].state = "idle"
      BY <1>1, <1>2, <1>5 DEF GroupInv, InOrder, GroupTypeOK, Members
  <2> QED
      BY <1>1, <1>5, <2>1, <2>2, <2>3 DEF GroupInv, InOrder
<1>10. InBudget'
  <2>1. gMember[gAt].limit \in Nat
      BY <1>1, <1>2 DEF GroupTypeOK, MemberRecords
  <2> QED
      BY <1>1, <1>2, <1>3, <1>4, <2>1 DEF GroupInv, InBudget, GroupTypeOK
<1> QED
    BY <1>6, <1>7, <1>8, <1>9, <1>10 DEF GroupInv

\* A member's own fact: only the one at work in a pipeline writes.
LEMMA MemberWritesKeeps ==
    ASSUME GroupInv, NEW m \in Members, MemberWrites(m)
    PROVE  GroupInv'
<1>1. /\ Running(m)
      /\ gMember' = [gMember EXCEPT ![m].knows = @ \cup {m}]
      /\ UNCHANGED <<gStatus, gPattern, gStreams, gSharing, gNested, gBudget, gTurns,
                     gContext, gAt, gCalls, gSpent>>
    BY DEF MemberWrites, config
<1>2. GroupTypeOK
    BY DEF GroupInv
<1>3. /\ gMember' \in [Members -> MemberRecords]
      /\ \A n \in Members :
            /\ gMember'[n].knows = IF n = m THEN gMember[n].knows \cup {m}
                                            ELSE gMember[n].knows
            /\ gMember'[n].limit = gMember[n].limit
            /\ gMember'[n].state = gMember[n].state
    BY <1>1, <1>2 DEF GroupTypeOK, MemberRecords, Facts
<1>4. GroupTypeOK'
    BY <1>1, <1>2, <1>3 DEF GroupTypeOK
<1>5. Untouched'
    BY <1>1 DEF GroupInv, Untouched, Running
<1>6. Scope'
    BY <1>1, <1>3 DEF GroupInv, Scope
<1>7. InOrder'
  <2> SUFFICES ASSUME gPattern = "pipeline"
               PROVE  InOrder'
      BY <1>1 DEF InOrder
  <2>1. m = gAt
      BY <1>1 DEF GroupInv, InOrder
  <2>2. ASSUME gSharing = "shared", NEW n \in Members, NEW k \in Members, k < n,
               gMember'[n].state # "idle"
        PROVE  gMember'[k].knows \subseteq gMember'[n].knows
    <3>1. k # gAt
        BY <1>2, <1>3, <2>2 DEF GroupInv, InOrder, GroupTypeOK, Members
    <3> QED
        BY <1>3, <2>1, <2>2, <3>1 DEF GroupInv, InOrder
  <2>3. ASSUME gSharing = "shared", NEW n \in Members, n < gAt
        PROVE  gMember'[n].knows \subseteq gContext
    <3>1. n # m
        BY <1>2, <2>1, <2>3 DEF GroupTypeOK, Members
    <3> QED
        BY <1>3, <2>3, <3>1 DEF GroupInv, InOrder
  <2> QED
      BY <1>1, <1>3, <2>2, <2>3 DEF GroupInv, InOrder, Running
<1>8. InBudget'
    BY <1>1, <1>3 DEF GroupInv, InBudget, Running
<1> QED
    BY <1>4, <1>5, <1>6, <1>7, <1>8 DEF GroupInv

(***************************************************************************)
(* Outside a pipeline only the types and the scope of the facts matter.    *)
(***************************************************************************)
Elsewhere ==
    /\ GroupInv
    /\ gStatus = "running" /\ gPattern # "pipeline"
    /\ UNCHANGED config /\ gAt' = gAt

LEMMA ElsewhereKeeps ==
    ASSUME Elsewhere, gStatus' # "idle", GroupTypeOK', Scope'
    PROVE  GroupInv'
BY DEF Elsewhere, GroupInv, Untouched, InOrder, InBudget, config

\* A member begins with what the group then has.
LEMMA BeginElsewhere ==
    ASSUME Elsewhere, NEW m \in Members, NEW limit \in Nat,
           gContext' = gContext \/ (gPattern # "parallel" /\ gContext' = Up(gAt)),
           Begin(m, gContext', limit),
           UNCHANGED <<gStatus, gTurns, gSpent>>
    PROVE  GroupInv'
<1>1. GroupTypeOK /\ gAt \in Members
    BY DEF Elsewhere, GroupInv, GroupTypeOK
<1>2. /\ gContext' \subseteq Facts
      /\ (gSharing # "shared" \/ gPattern = "parallel") => gContext' = gContext
    BY <1>1, UpEffect DEF GroupTypeOK
<1>3. /\ gMember' \in [Members -> MemberRecords]
      /\ gMember'[m].knows = Down(m, gContext')
      /\ \A n \in Members : n # m => gMember'[n] = gMember[n]
  <2>1. PICK context \in SUBSET Facts : context = gContext' /\ Begin(m, context, limit)
      BY <1>2
  <2>2. Begin(m, context, limit)
      BY <2>1
  <2>3. /\ gMember' \in [Members -> MemberRecords]
        /\ gMember'[m] = [state |-> "running", knows |-> Down(m, context), limit |-> limit]
        /\ \A n \in Members : n # m => gMember'[n] = gMember[n]
      BY <1>1, <2>2, BeginEffect
  <2> QED
      BY <2>1, <2>3
<1>4. GroupTypeOK'
    BY <1>1, <1>2, <1>3 DEF GroupTypeOK, Elsewhere, config
<1>5. Scope'
    BY <1>2, <1>3 DEF GroupInv, Scope, Down, Elsewhere, config
<1> QED
    BY <1>4, <1>5, ElsewhereKeeps DEF Elsewhere

\* A member ends, and what it knows comes up or does not.
LEMMA EndElsewhere ==
    ASSUME Elsewhere, NEW m \in Members, NEW how \in States, Ended(m, how),
           gContext' = gContext \/ (gPattern # "parallel" /\ gContext' = Up(m)),
           gStatus' \in {"running", "completed", "failed", "raised"},
           gTurns' \in Nat, gSpent' \in Nat
    PROVE  GroupInv'
<1>1. GroupTypeOK
    BY DEF Elsewhere, GroupInv
<1>2. /\ gContext' \subseteq Facts
      /\ (gSharing # "shared" \/ gPattern = "parallel") => gContext' = gContext
    BY <1>1, UpEffect DEF GroupTypeOK
<1>3. /\ gMember' \in [Members -> MemberRecords]
      /\ \A n \in Members : gMember'[n].knows = gMember[n].knows
    BY <1>1, EndedEffect
<1>4. GroupTypeOK'
    BY <1>1, <1>2, <1>3 DEF GroupTypeOK, Elsewhere, config
<1>5. Scope'
    BY <1>2, <1>3 DEF GroupInv, Scope, Elsewhere, config
<1> QED
    BY <1>4, <1>5, ElsewhereKeeps

LEMMA ParallelKeeps ==
    ASSUME GroupInv,
           \/ ParallelJoin
           \/ \E m \in Members : ParallelBegin(m) \/ ParallelOver(m) \/ ParallelRaises(m)
    PROVE  GroupInv'
<1>1. GroupTypeOK
    BY DEF GroupInv
<1>2. CASE ParallelJoin
  <2>1. /\ Elsewhere
        /\ gStatus' \in {"completed", "failed", "raised"}
        /\ UNCHANGED <<gTurns, gContext, gMember, gSpent>>
      BY <1>2 DEF ParallelJoin, InParallel, Elsewhere
  <2>2. GroupTypeOK' /\ Scope'
      BY <1>1, <2>1 DEF Elsewhere, GroupInv, GroupTypeOK, Scope, config
  <2> QED
      BY <2>1, <2>2, ElsewhereKeeps
<1>3. ASSUME NEW m \in Members, ParallelBegin(m)
      PROVE  GroupInv'
  <2> DEFINE limit == IF gStreams THEN OwnTurns ELSE gBudget
  <2>1. Elsewhere /\ limit \in Nat
      BY <1>1, <1>3, GroupAssumption DEF ParallelBegin, InParallel, Elsewhere, GroupTypeOK
  <2>2. Begin(m, gContext', limit) /\ UNCHANGED <<gStatus, gTurns, gContext, gSpent>>
      BY <1>3 DEF ParallelBegin
  <2> HIDE DEF limit
  <2> QED
      BY <2>1, <2>2, BeginElsewhere
<1>4. ASSUME NEW m \in Members, ParallelOver(m) \/ ParallelRaises(m)
      PROVE  GroupInv'
  <2>1. /\ Elsewhere /\ gContext' = gContext
        /\ gStatus' \in {"running", "raised"}
        /\ Ended(m, "over") \/ Ended(m, "failed")
      BY <1>4 DEF ParallelOver, ParallelRaises, InParallel, Elsewhere
  <2>2. gTurns' \in Nat /\ gSpent' \in Nat
      BY <1>1, <1>4, TookBound DEF ParallelOver, ParallelRaises, GroupTypeOK
  <2> QED
      BY <2>1, <2>2, EndElsewhere DEF States
<1> QED
    BY <1>2, <1>3, <1>4

LEMMA SupervisorKeeps ==
    ASSUME GroupInv,
           \/ SupervisorBegins \/ SupervisorOver \/ SupervisorRaises
           \/ \E m \in Members : Delegate(m) \/ DelegateOver(m) \/ DelegateFails(m)
    PROVE  GroupInv'
<1>1. GroupTypeOK
    BY DEF GroupInv
<1>2. gPattern # "pipeline" => gAt \in Members
    BY <1>1 DEF GroupTypeOK
<1>3. CASE SupervisorBegins
  <2> DEFINE limit == IF Remaining > 0 THEN Remaining ELSE 1
  <2>1. Elsewhere /\ limit \in Nat
      BY <1>1, <1>3 DEF SupervisorBegins, Supervised, Elsewhere, GroupTypeOK, Remaining
  <2>2. Begin(gAt, gContext', limit) /\ UNCHANGED <<gStatus, gTurns, gContext, gSpent>>
      BY <1>3 DEF SupervisorBegins
  <2> HIDE DEF limit
  <2> QED
      BY <1>2, <2>1, <2>2, BeginElsewhere DEF Elsewhere
<1>4. ASSUME NEW m \in Members, Delegate(m)
      PROVE  GroupInv'
  <2>1. Elsewhere /\ gPattern = "supervisor" /\ Remaining \in Nat
      BY <1>1, <1>4 DEF Delegate, Supervised, Elsewhere, GroupTypeOK, Remaining
  <2>2. /\ gContext' = Up(gAt) /\ Begin(m, gContext', Remaining)
        /\ UNCHANGED <<gStatus, gTurns, gSpent>>
      BY <1>4 DEF Delegate
  <2> QED
      BY <2>1, <2>2, BeginElsewhere
<1>5. CASE SupervisorOver \/ SupervisorRaises
  <2>1. /\ Elsewhere /\ gPattern = "supervisor"
        /\ gStatus' \in {"completed", "failed"}
        /\ gContext' = gContext \/ gContext' = Up(gAt)
        /\ Ended(gAt, "over") \/ Ended(gAt, "failed")
      BY <1>5 DEF SupervisorOver, SupervisorRaises, Supervised, Elsewhere
  <2>2. gAt \in Members
      BY <1>2, <2>1
  <2>3. gTurns' \in Nat /\ gSpent' \in Nat
      BY <1>1, <1>5, <2>2, TookBound DEF SupervisorOver, SupervisorRaises, GroupTypeOK
  <2> QED
      BY <2>1, <2>2, <2>3, EndElsewhere DEF States
<1>6. ASSUME NEW m \in Members, DelegateOver(m) \/ DelegateFails(m)
      PROVE  GroupInv'
  <2>1. /\ Elsewhere /\ gPattern = "supervisor" /\ gStatus' = "running"
        /\ gContext' = gContext \/ gContext' = Up(m)
        /\ Ended(m, "over") \/ Ended(m, "failed") \/ Ended(m, "lost")
      BY <1>6 DEF DelegateOver, DelegateFails, Supervised, Elsewhere
  <2>2. gTurns' \in Nat /\ gSpent' \in Nat
      BY <1>1, <1>6, TookBound DEF DelegateOver, DelegateFails, GroupTypeOK
  <2> QED
      BY <2>1, <2>2, EndElsewhere DEF States
<1> QED
    BY <1>3, <1>4, <1>5, <1>6

LEMMA GroupStep == GroupInv /\ [GroupNext]_groupVars => GroupInv'
<1> SUFFICES ASSUME GroupInv, [GroupNext]_groupVars
             PROVE  GroupInv'
    OBVIOUS
<1>1. CASE GroupStart
    BY <1>1, StartKeeps
<1>2. CASE PipelineNext
    BY <1>2, PipelineNextKeeps
<1>3. CASE PipelineMemberOver
    BY <1>3, PipelineMemberOverKeeps
<1>4. CASE PipelineMemberRaises
    BY <1>4, PipelineMemberRaisesKeeps
<1>5. CASE PipelineEnds
  <2>1. /\ gStatus' = "completed"
        /\ UNCHANGED <<config, gTurns, gContext, gMember, gAt, gSpent>>
      BY <1>5 DEF PipelineEnds
  <2> QED
      BY <2>1 DEF GroupInv, GroupTypeOK, Untouched, Scope, InOrder, InBudget, Running, config
<1>6. CASE \E m \in Members : MemberWrites(m)
    BY <1>6, MemberWritesKeeps
<1>7. CASE \/ ParallelJoin
           \/ \E m \in Members : ParallelBegin(m) \/ ParallelOver(m) \/ ParallelRaises(m)
    BY <1>7, ParallelKeeps
<1>8. CASE \/ SupervisorBegins \/ SupervisorOver \/ SupervisorRaises
           \/ \E m \in Members : Delegate(m) \/ DelegateOver(m) \/ DelegateFails(m)
    BY <1>8, SupervisorKeeps
<1>9. CASE UNCHANGED groupVars
    BY <1>9 DEF groupVars, GroupInv, GroupTypeOK, Untouched, Scope, InOrder, InBudget, Running
<1> QED
    BY <1>1, <1>2, <1>3, <1>4, <1>5, <1>6, <1>7, <1>8, <1>9 DEF GroupNext

LEMMA GroupInvariant == GroupSpec => []GroupInv
BY GroupInitially, GroupStep, PTL DEF GroupSpec

(***************************************************************************)
(* The members of a blocking pipeline of agents never take more turns than *)
(* the group has (_effective_turn_budget, _run_pipeline).                  *)
(***************************************************************************)
THEOREM PipelineBudget == GroupSpec => []TurnsWithinBudget
<1>1. GroupInv => TurnsWithinBudget
    BY DEF GroupInv, InBudget, TurnsWithinBudget
<1> QED
    BY <1>1, GroupInvariant, PTL

(***************************************************************************)
(* A member's facts reach the others only as context_sharing says, and in  *)
(* a shared pipeline all of them are handed on (_sync_down, _sync_up).     *)
(***************************************************************************)
THEOREM SharedAsConfigured == GroupSpec => []SharingScope
<1>1. GroupInv => SharingScope
    BY DEF GroupInv, Scope, InOrder, SharingScope
<1> QED
    BY <1>1, GroupInvariant, PTL

-----------------------------------------------------------------------------
(***************************************************************************)
(* Manifest.  The resolver's stack is a path: all that is to come lies     *)
(* below every group on it (Chained), so a name met again is in a loop.    *)
(* Each reference of a group on the stack is resolved, further up, or      *)
(* still to come (Accounted), so a group that is left leads only to groups *)
(* that were resolved before it, and not to itself (DoneOk).               *)
(***************************************************************************)
Frames == [name : AllNames, left : Seq(Entry)]

\* What is to come of a group on the stack.
ToCome(stack, k) == RefsOf(Range(stack[k].left))

LEMMA EntriesAre ==
    /\ \A e \in Entry :
          e.kind \in {"ref", "group"} /\ e.name \in AllNames /\ e.members \in Seq(Entry)
    /\ \A e \in Entry : e.kind = "ref" => e.members = <<>>
    /\ \A e \in Entry : e.kind = "group" =>
          /\ e.name \in LooseNames
          /\ \E m \in GroupNames : e.members = <<Ref(m)>>
<1>1. \A n \in AllNames : Ref(n) \in Entry /\ Ref(n).kind = "ref" /\ Ref(n).name = n
                          /\ Ref(n).members = <<>>
    BY DEF Entry, Ref
<1>2. ASSUME NEW n \in LooseNames, NEW m \in GroupNames
      PROVE  /\ InPlace(n, m).kind = "group" /\ InPlace(n, m).name = n /\ n \in AllNames
             /\ InPlace(n, m).members = <<Ref(m)>> /\ <<Ref(m)>> \in Seq(Entry)
    BY <1>1, <1>2 DEF InPlace, AllNames
<1>3. <<>> \in Seq(Entry)
    BY EmptySeq
<1> SUFFICES ASSUME NEW e \in Entry
             PROVE  /\ e.kind \in {"ref", "group"} /\ e.name \in AllNames
                    /\ e.members \in Seq(Entry)
                    /\ e.kind = "ref" => e.members = <<>>
                    /\ e.kind = "group" =>
                          e.name \in LooseNames /\ \E m \in GroupNames : e.members = <<Ref(m)>>
    OBVIOUS
<1>4. CASE \E n \in AllNames : e = Ref(n)
  <2>1. PICK n \in AllNames : e = Ref(n)
      BY <1>4
  <2> QED
      BY <1>1, <1>3, <2>1
<1>5. CASE \E n \in LooseNames, m \in GroupNames : e = InPlace(n, m)
  <2>1. PICK n \in LooseNames, m \in GroupNames : e = InPlace(n, m)
      BY <1>5
  <2> QED
      BY <1>2, <2>1
<1> QED
    BY <1>4, <1>5 DEF Entry

\* The references of a list are those of its first member and of the others.
LEMMA RefsOfUnion ==
    ASSUME NEW S, NEW T
    PROVE  /\ RefsOf(S \cup T) = RefsOf(S) \cup RefsOf(T)
           /\ S \subseteq T => RefsOf(S) \subseteq RefsOf(T)
           /\ RefsOf({}) = {}
BY DEF RefsOf

LEMMA RangeParts ==
    ASSUME NEW left \in Seq(Entry), left # <<>>
    PROVE  /\ Head(left) \in Entry /\ Tail(left) \in Seq(Entry)
           /\ Range(left) = {Head(left)} \cup Range(Tail(left))
           /\ Head(left) \in Range(left)
<1>1. /\ Head(left) \in Entry /\ Tail(left) \in Seq(Entry) /\ Len(left) \in Nat /\ Len(left) > 0
      /\ Len(Tail(left)) = Len(left) - 1 /\ DOMAIN left = 1 .. Len(left)
      /\ DOMAIN Tail(left) = 1 .. Len(left) - 1 /\ Head(left) = left[1]
      /\ \A i \in 1 .. Len(left) - 1 : Tail(left)[i] = left[i + 1]
    BY HeadTailProperties, LenProperties
<1>2. ASSUME NEW e \in Range(left)
      PROVE  e = Head(left) \/ e \in Range(Tail(left))
  <2>1. PICK i \in 1 .. Len(left) : e = left[i]
      BY <1>1, <1>2 DEF Range
  <2>2. CASE i = 1
      BY <1>1, <2>1, <2>2
  <2>3. CASE i # 1
    <3>1. i - 1 \in 1 .. Len(left) - 1 /\ (i - 1) + 1 = i
        BY <1>1, <2>3
    <3>2. Tail(left)[i - 1] = e
        BY <1>1, <2>1, <3>1
    <3> QED
        BY <1>1, <3>1, <3>2 DEF Range
  <2> QED
      BY <2>2, <2>3
<1>3. \A i \in 1 .. Len(left) - 1 : i + 1 \in 1 .. Len(left)
    BY <1>1
<1>4. Range(Tail(left)) \subseteq Range(left)
    BY <1>1, <1>3 DEF Range
<1>5. Head(left) \in Range(left)
    BY <1>1 DEF Range
<1> QED
    BY <1>1, <1>2, <1>4, <1>5

LEMMA RefsOfEntry ==
    ASSUME NEW e \in Entry
    PROVE  /\ e.kind = "ref" => RefsOf({e}) = {e.name}
           /\ e.kind = "group" => RefsOf({e}) = RefsOf(Range(e.members))
           /\ \A f \in Range(e.members) : f.kind = "ref"
<1>1. CASE e.kind = "ref"
  <2>1. Range(e.members) = {}
      BY <1>1, EntriesAre DEF Range
  <2> QED
      BY <1>1, <2>1 DEF RefsOf
<1>2. CASE e.kind = "group"
  <2>1. PICK m \in GroupNames : e.members = <<Ref(m)>>
      BY <1>2, EntriesAre
  <2>2. Range(e.members) = {Ref(m)} /\ Ref(m).kind = "ref" /\ Ref(m).members = <<>>
      BY <2>1 DEF Range, Ref
  <2>3. Range(Ref(m).members) = {}
      BY <2>2 DEF Range
  <2> QED
      BY <1>2, <2>2, <2>3 DEF RefsOf
<1> QED
    BY <1>1, <1>2, EntriesAre

\* What a group leads to: its references, and what they lead to.
LEMMA BelowProperties ==
    /\ \A names : names \cap Declared \subseteq LeadTo(names) /\ LeadTo(names) \subseteq Declared
    /\ \A g, h : h \in Below(g) => Below(h) \subseteq Below(g)
    /\ \A names, S : (/\ S \subseteq Declared /\ names \cap Declared \subseteq S
                      /\ \A g \in S : RefNames(g) \cap Declared \subseteq S)
                     => LeadTo(names) \subseteq S
<1>1. \A names : names \cap Declared \subseteq LeadTo(names) /\ LeadTo(names) \subseteq Declared
    BY DEF LeadTo
<1>2. \A names, S : (/\ S \subseteq Declared /\ names \cap Declared \subseteq S
                     /\ \A g \in S : RefNames(g) \cap Declared \subseteq S)
                    => LeadTo(names) \subseteq S
    BY DEF LeadTo
<1>3. ASSUME NEW g, NEW h \in Below(g)
      PROVE  Below(h) \subseteq Below(g)
  <2> SUFFICES ASSUME NEW x \in Below(h), NEW S \in SUBSET Declared,
                      RefNames(g) \cap Declared \subseteq S,
                      \A y \in S : RefNames(y) \cap Declared \subseteq S
               PROVE  x \in S
      BY <1>1 DEF Below, LeadTo
  <2>1. h \in S
      BY <1>3 DEF Below, LeadTo
  <2> QED
      BY <2>1 DEF Below, LeadTo
<1> QED
    BY <1>1, <1>2, <1>3

-----------------------------------------------------------------------------
\* A frame is a declared group under the root, or a group in place of the frame below.
FrameOk(stack, k) ==
    \/ /\ stack[k].name \in (UnderRoot \cap Declared) \ mOdd
       /\ Range(stack[k].left) \subseteq Range(mGroups[stack[k].name])
    \/ /\ stack[k].name \in LooseNames
       /\ \A e \in Range(stack[k].left) : e.kind = "ref"
       /\ k > 1 /\ stack[k - 1].name \in UnderRoot \cap Declared
       /\ \E e \in Range(mGroups[stack[k - 1].name]) :
             e.kind = "group" /\ e.name = stack[k].name

Chained(stack) ==
    \A i, k \in 1 .. Len(stack) :
        i <= k /\ stack[i].name \in Declared =>
            ToCome(stack, k) \cap Declared \subseteq Below(stack[i].name)

StackOk(stack) ==
    /\ stack \in Seq(Frames)
    /\ \A i, j \in 1 .. Len(stack) : stack[i].name = stack[j].name => i = j
    /\ stack # <<>> => mRoot \in Declared /\ stack[1].name = mRoot
    /\ \A k \in 1 .. Len(stack) : FrameOk(stack, k)
    /\ Chained(stack)

\* Each reference of a declared group on the stack is settled, or open further up, or taken.
Settled(done) == AgentNames \cup (done \cap Declared)

Open(stack, k, x) ==
    \/ x \in Declared /\ \E j \in 1 .. Len(stack) : j > k /\ x = stack[j].name
    \/ \E j \in 1 .. Len(stack) : j >= k /\ x \in ToCome(stack, j)

Accounted(stack, done, taken) ==
    \A k \in 1 .. Len(stack) : stack[k].name \in Declared =>
        \A x \in RefNames(stack[k].name) :
            x \in Settled(done) \/ x \in taken \/ Open(stack, k, x)

DoneOk(done) ==
    \A g \in done \cap Declared :
        RefNames(g) \subseteq Settled(done) /\ g \notin Below(g) /\ g \notin mOdd

\* The next member is taken.
MemberTaken(stack) == [stack EXCEPT ![Len(stack)].left = Tail(@)]

LEMMA MemberTakenIs ==
    ASSUME NEW stack \in Seq(Frames), stack # <<>>, stack[Len(stack)].left # <<>>
    PROVE  /\ MemberTaken(stack) \in Seq(Frames) /\ Len(MemberTaken(stack)) = Len(stack)
           /\ Len(stack) \in Nat \ {0}
           /\ MemberTaken(stack) # <<>>
           /\ \A k \in 1 .. Len(stack) :
                 /\ MemberTaken(stack)[k].name = stack[k].name
                 /\ k # Len(stack) => MemberTaken(stack)[k].left = stack[k].left
           /\ MemberTaken(stack)[Len(stack)].left = Tail(stack[Len(stack)].left)
<1> DEFINE n == Len(stack)  f == stack[n]
<1>1. n \in Nat \ {0} /\ DOMAIN stack = 1 .. n /\ n \in 1 .. n
    BY LenProperties, EmptySeq
<1>2. f \in Frames
    BY <1>1, ElementOfSeq
<1>3. f.name \in AllNames /\ f.left \in Seq(Entry) /\ Tail(f.left) \in Seq(Entry)
    BY <1>2, HeadTailProperties DEF Frames
<1>4. PICK g : g = [f EXCEPT !.left = Tail(f.left)]
    OBVIOUS
<1>5. g \in Frames /\ g.name = f.name /\ g.left = Tail(f.left)
    BY <1>2, <1>3, <1>4 DEF Frames
<1>6. MemberTaken(stack) = [stack EXCEPT ![n] = g]
    BY <1>1, <1>4 DEF MemberTaken
<1>7. /\ [stack EXCEPT ![n] = g] \in Seq(Frames)
      /\ Len([stack EXCEPT ![n] = g]) = n
      /\ \A k \in 1 .. n : [stack EXCEPT ![n] = g][k] = IF k = n THEN g ELSE stack[k]
    BY <1>1, <1>5, ExceptSeq
<1>8. MemberTaken(stack) # <<>>
    BY <1>1, <1>6, <1>7, EmptySeq
<1> QED
    BY <1>1, <1>5, <1>6, <1>7, <1>8

LEMMA ToComeOfNext ==
    ASSUME NEW stack \in Seq(Frames), stack # <<>>, stack[Len(stack)].left # <<>>,
           NEW e, e = Head(stack[Len(stack)].left)
    PROVE  /\ e \in Entry /\ e \in Range(stack[Len(stack)].left)
           /\ \A k \in 1 .. Len(stack) :
                 /\ Range(MemberTaken(stack)[k].left) \subseteq Range(stack[k].left)
                 /\ ToCome(MemberTaken(stack), k) \subseteq ToCome(stack, k)
                 /\ k # Len(stack) => ToCome(MemberTaken(stack), k) = ToCome(stack, k)
           /\ ToCome(stack, Len(stack)) = RefsOf({e}) \cup ToCome(MemberTaken(stack), Len(stack))
<1> DEFINE n == Len(stack)  f == stack[n]
<1>1. n \in 1 .. n /\ f \in Frames
    BY LenProperties, EmptySeq, ElementOfSeq
<1>2. f.left \in Seq(Entry) /\ f.left # <<>>
    BY <1>1 DEF Frames
<1>3. e \in Entry /\ e \in Range(f.left) /\ Range(f.left) = {e} \cup Range(Tail(f.left))
    BY <1>2, RangeParts
<1>4. MemberTaken(stack)[n].left = Tail(f.left)
      /\ \A k \in 1 .. n : k # n => MemberTaken(stack)[k].left = stack[k].left
    BY MemberTakenIs
<1>5. ToCome(stack, n) = RefsOf({e}) \cup ToCome(MemberTaken(stack), n)
    BY <1>3, <1>4, RefsOfUnion DEF ToCome
<1>6. \A k \in 1 .. n : k # n => ToCome(MemberTaken(stack), k) = ToCome(stack, k)
    BY <1>4 DEF ToCome
<1>7. \A k \in 1 .. n : Range(MemberTaken(stack)[k].left) \subseteq Range(stack[k].left)
    BY <1>3, <1>4
<1>8. \A k \in 1 .. n : ToCome(MemberTaken(stack), k) \subseteq ToCome(stack, k)
    BY <1>5, <1>6
<1> QED
    BY <1>3, <1>5, <1>6, <1>7, <1>8

LEMMA TakeMember ==
    ASSUME NEW stack, StackOk(stack), stack # <<>>, stack[Len(stack)].left # <<>>,
           NEW done, Accounted(stack, done, {}),
           NEW e, e = Head(stack[Len(stack)].left)
    PROVE  /\ StackOk(MemberTaken(stack))
           /\ Accounted(MemberTaken(stack), done, RefsOf({e}))
           /\ \A i \in 1 .. Len(stack) : stack[i].name \in Declared =>
                 RefsOf({e}) \cap Declared \subseteq Below(stack[i].name)
           /\ e.kind = "group" =>
                 /\ stack[Len(stack)].name \in UnderRoot \cap Declared
                 /\ e \in Range(mGroups[stack[Len(stack)].name])
<1> DEFINE n == Len(stack)  next == MemberTaken(stack)
<1>1. stack \in Seq(Frames)
    BY DEF StackOk
<1>2. /\ next \in Seq(Frames) /\ Len(next) = n /\ n \in Nat \ {0} /\ next # <<>>
      /\ \A k \in 1 .. n : next[k].name = stack[k].name
    BY <1>1, MemberTakenIs
<1>3. /\ e \in Entry /\ e \in Range(stack[n].left)
      /\ \A k \in 1 .. n :
            /\ Range(next[k].left) \subseteq Range(stack[k].left)
            /\ ToCome(next, k) \subseteq ToCome(stack, k)
            /\ k # n => ToCome(next, k) = ToCome(stack, k)
      /\ ToCome(stack, n) = RefsOf({e}) \cup ToCome(next, n)
    BY <1>1, ToComeOfNext
<1> HIDE DEF next
<1>4. \A k \in 1 .. n : FrameOk(next, k)
  <2> SUFFICES ASSUME NEW k \in 1 .. n PROVE FrameOk(next, k)
      OBVIOUS
  <2>1. FrameOk(stack, k)
      BY DEF StackOk
  <2>2. k > 1 => k - 1 \in 1 .. n
      BY <1>2
  <2>3. next[k].name = stack[k].name /\ (k > 1 => next[k - 1].name = stack[k - 1].name)
        /\ Range(next[k].left) \subseteq Range(stack[k].left)
      BY <1>2, <1>3, <2>2
  <2> QED
      BY <2>1, <2>3 DEF FrameOk
<1>5. Chained(next)
  <2>1. Chained(stack)
      BY DEF StackOk
  <2> QED
      BY <1>2, <1>3, <2>1 DEF Chained
<1>6. StackOk(next)
  <2>1. \A i, j \in 1 .. n : next[i].name = next[j].name => i = j
      BY <1>2 DEF StackOk
  <2>2. mRoot \in Declared /\ next[1].name = mRoot
      BY <1>2 DEF StackOk
  <2> QED
      BY <1>2, <1>4, <1>5, <2>1, <2>2 DEF StackOk
<1>7. Accounted(next, done, RefsOf({e}))
  <2> SUFFICES ASSUME NEW k \in 1 .. n, next[k].name \in Declared,
                      NEW x \in RefNames(next[k].name),
                      x \notin Settled(done), x \notin RefsOf({e})
               PROVE  Open(next, k, x)
      BY <1>2 DEF Accounted
  <2>1. Open(stack, k, x)
      BY <1>2 DEF Accounted
  <2>2. ASSUME NEW j \in 1 .. n, x = stack[j].name PROVE x = next[j].name
      BY <1>2, <2>2
  <2>3. ASSUME NEW j \in 1 .. n, x \in ToCome(stack, j) PROVE x \in ToCome(next, j)
    <3>1. CASE j = n
        BY <1>3, <2>3, <3>1
    <3>2. CASE j # n
        BY <1>3, <2>3, <3>2
    <3> QED
        BY <3>1, <3>2
  <2> QED
      BY <1>2, <2>1, <2>2, <2>3 DEF Open
<1>8. \A i \in 1 .. n : stack[i].name \in Declared =>
          RefsOf({e}) \cap Declared \subseteq Below(stack[i].name)
  <2>1. Chained(stack) /\ n \in 1 .. n /\ \A i \in 1 .. n : i <= n
      BY <1>2 DEF StackOk
  <2>2. \A i \in 1 .. n : stack[i].name \in Declared =>
            ToCome(stack, n) \cap Declared \subseteq Below(stack[i].name)
      BY <2>1 DEF Chained
  <2> QED
      BY <1>3, <2>2
<1>9. e.kind = "group" =>
          stack[n].name \in UnderRoot \cap Declared /\ e \in Range(mGroups[stack[n].name])
  <2>1. FrameOk(stack, n)
      BY <1>2 DEF StackOk
  <2> QED
      BY <1>3, <2>1 DEF FrameOk
<1> QED
    BY <1>6, <1>7, <1>8, <1>9 DEF next

\* A group of that name is entered; its members are taken.
Push(stack, name, members) == Append(stack, [name |-> name, left |-> members])

LEMMA PushIs ==
    ASSUME NEW stack \in Seq(Frames), NEW name \in AllNames, NEW members \in Seq(Entry)
    PROVE  /\ Push(stack, name, members) \in Seq(Frames)
           /\ Len(stack) \in Nat /\ Len(Push(stack, name, members)) = Len(stack) + 1
           /\ \A k \in 1 .. Len(stack) : Push(stack, name, members)[k] = stack[k]
           /\ Push(stack, name, members)[Len(stack) + 1].name = name
           /\ Push(stack, name, members)[Len(stack) + 1].left = members
           /\ \A k \in 1 .. Len(stack) + 1 : k \in 1 .. Len(stack) \/ k = Len(stack) + 1
<1>1. PICK f : f = [name |-> name, left |-> members]
    OBVIOUS
<1>2. f \in Frames /\ f.name = name /\ f.left = members
    BY <1>1 DEF Frames
<1>3. /\ Append(stack, f) \in Seq(Frames) /\ Len(stack) \in Nat
      /\ Len(Append(stack, f)) = Len(stack) + 1
      /\ \A k \in 1 .. Len(stack) : Append(stack, f)[k] = stack[k]
      /\ Append(stack, f)[Len(stack) + 1] = f
    BY <1>2, AppendProperties, LenProperties
<1>4. Push(stack, name, members) = Append(stack, f)
    BY <1>1 DEF Push
<1> QED
    BY <1>2, <1>3, <1>4

\* What both ways to enter a group have in common.
LEMMA PushKeeps ==
    ASSUME NEW stack, StackOk(stack), NEW name \in AllNames, NEW members \in Seq(Entry),
           \A i \in 1 .. Len(stack) : stack[i].name # name,
           stack = <<>> => name = mRoot /\ mRoot \in Declared,
           FrameOk(Push(stack, name, members), Len(stack) + 1),
           \A i \in 1 .. Len(stack) : stack[i].name \in Declared =>
               RefsOf(Range(members)) \cap Declared \subseteq Below(stack[i].name),
           name \in Declared => RefsOf(Range(members)) \cap Declared \subseteq Below(name)
    PROVE  StackOk(Push(stack, name, members))
<1> DEFINE n == Len(stack)  next == Push(stack, name, members)
<1>1. stack \in Seq(Frames)
    BY DEF StackOk
<1>2. /\ next \in Seq(Frames) /\ n \in Nat /\ Len(next) = n + 1
      /\ \A k \in 1 .. n : next[k] = stack[k]
      /\ next[n + 1].name = name /\ next[n + 1].left = members
      /\ \A k \in 1 .. n + 1 : k \in 1 .. n \/ k = n + 1
    BY <1>1, PushIs
<1>0. FrameOk(next, n + 1)
    OBVIOUS
<1> HIDE DEF next
<1>3. \A k \in 1 .. n + 1 : FrameOk(next, k)
  <2> SUFFICES ASSUME NEW k \in 1 .. n PROVE FrameOk(next, k)
      BY <1>0, <1>2
  <2>1. FrameOk(stack, k)
      BY DEF StackOk
  <2>2. k > 1 => k - 1 \in 1 .. n
      BY <1>2
  <2>3. next[k] = stack[k] /\ (k > 1 => next[k - 1] = stack[k - 1])
      BY <1>2, <2>2
  <2> QED
      BY <2>1, <2>3 DEF FrameOk
<1>4. Chained(next)
  <2>1. Chained(stack)
      BY DEF StackOk
  <2>2. \A k \in 1 .. n : ToCome(next, k) = ToCome(stack, k)
      BY <1>2 DEF ToCome
  <2>3. ToCome(next, n + 1) = RefsOf(Range(members))
      BY <1>2 DEF ToCome
  <2> SUFFICES ASSUME NEW i \in 1 .. n + 1, NEW k \in 1 .. n + 1, i <= k, next[i].name \in Declared
               PROVE  ToCome(next, k) \cap Declared \subseteq Below(next[i].name)
      BY <1>2 DEF Chained
  <2>4. CASE k \in 1 .. n
    <3>1. i \in 1 .. n /\ next[i] = stack[i]
        BY <1>2, <2>4
    <3> QED
        BY <2>1, <2>2, <2>4, <3>1 DEF Chained
  <2>5. CASE k = n + 1 /\ i \in 1 .. n
      BY <1>2, <2>3, <2>5
  <2>6. CASE k = n + 1 /\ i = n + 1
      BY <1>2, <2>3, <2>6
  <2> QED
      BY <1>2, <2>4, <2>5, <2>6
<1>5. \A i, j \in 1 .. n + 1 : next[i].name = next[j].name => i = j
  <2>1. \A i, j \in 1 .. n : stack[i].name = stack[j].name => i = j
      BY DEF StackOk
  <2> QED
      BY <1>2, <2>1
<1>6. mRoot \in Declared /\ next[1].name = mRoot
  <2>1. CASE stack = <<>>
      BY <1>2, <2>1
  <2>2. CASE stack # <<>>
    <3>1. 1 \in 1 .. n
        BY <1>1, <2>2, EmptySeq, LenProperties
    <3> QED
        BY <1>2, <2>2, <3>1 DEF StackOk
  <2> QED
      BY <2>1, <2>2
<1>7. StackOk(next)
    BY <1>2, <1>3, <1>4, <1>5, <1>6 DEF StackOk
<1> QED
    BY <1>7 DEF next

\* What was taken is accounted for by the group that is entered for it.
LEMMA PushAccounts ==
    ASSUME NEW stack \in Seq(Frames), NEW name \in AllNames, NEW members \in Seq(Entry),
           NEW done, NEW taken, Accounted(stack, done, taken),
           \/ name \in Declared /\ taken = {name}
           \/ taken = RefsOf(Range(members)),
           name \in Declared => RefNames(name) = RefsOf(Range(members))
    PROVE  Accounted(Push(stack, name, members), done, {})
<1> DEFINE n == Len(stack)  next == Push(stack, name, members)
<1>1. /\ n \in Nat /\ Len(next) = n + 1
      /\ \A k \in 1 .. n : next[k] = stack[k]
      /\ next[n + 1].name = name /\ next[n + 1].left = members
      /\ \A k \in 1 .. n + 1 : k \in 1 .. n \/ k = n + 1
    BY PushIs
<1> HIDE DEF next
<1>2. /\ \A k \in 1 .. n : ToCome(next, k) = ToCome(stack, k)
      /\ ToCome(next, n + 1) = RefsOf(Range(members))
    BY <1>1 DEF ToCome
<1> SUFFICES ASSUME NEW k \in 1 .. n + 1, next[k].name \in Declared,
                    NEW x \in RefNames(next[k].name), x \notin Settled(done)
             PROVE  Open(next, k, x)
    BY <1>1 DEF Accounted, next
<1>3. CASE k = n + 1
  <2>1. x \in ToCome(next, n + 1) /\ n + 1 >= k /\ n + 1 \in 1 .. n + 1
      BY <1>1, <1>2, <1>3
  <2> QED
      BY <1>1, <2>1 DEF Open
<1>4. CASE k \in 1 .. n
  <2>1. x \in taken \/ Open(stack, k, x)
      BY <1>1, <1>4 DEF Accounted
  <2>2. n + 1 >= k /\ n + 1 > k /\ n + 1 \in 1 .. n + 1 /\ 1 .. n \subseteq 1 .. n + 1
      BY <1>1, <1>4
  <2>3. CASE x \in taken
      BY <1>1, <1>2, <2>2, <2>3 DEF Open
  <2>4. CASE Open(stack, k, x)
      BY <1>1, <1>2, <2>2, <2>4 DEF Open
  <2> QED
      BY <2>1, <2>3, <2>4
<1> QED
    BY <1>1, <1>3, <1>4

LEMMA EnterDeclared ==
    ASSUME NEW stack, StackOk(stack), mGroups \in [GroupNames -> Seq(Entry)],
           NEW name \in Declared \ mOdd,
           \A i \in 1 .. Len(stack) : stack[i].name # name,
           stack = <<>> => name = mRoot,
           \A i \in 1 .. Len(stack) : stack[i].name \in Declared => name \in Below(stack[i].name)
    PROVE  StackOk(Push(stack, name, mGroups[name]))
<1> DEFINE n == Len(stack)  next == Push(stack, name, mGroups[name])
<1>1. stack \in Seq(Frames) /\ name \in AllNames /\ mGroups[name] \in Seq(Entry)
    BY DEF StackOk, Declared, AllNames
<1>2. /\ Len(stack) \in Nat
      /\ next[n + 1].name = name /\ next[n + 1].left = mGroups[name]
    BY <1>1, PushIs
<1>3. name \in UnderRoot
  <2>1. CASE stack = <<>>
      BY <2>1 DEF UnderRoot
  <2>2. CASE stack # <<>>
    <3>1. 1 \in 1 .. n
        BY <1>1, <2>2, EmptySeq, LenProperties
    <3> QED
        BY <2>2, <3>1 DEF UnderRoot, StackOk
  <2> QED
      BY <2>1, <2>2
<1>4. FrameOk(next, n + 1)
    BY <1>2, <1>3 DEF FrameOk
<1>5. RefsOf(Range(mGroups[name])) = RefNames(name)
    BY DEF RefNames
<1>6. RefNames(name) \cap Declared \subseteq Below(name)
    BY BelowProperties DEF Below
<1>7. \A i \in 1 .. n : stack[i].name \in Declared =>
          RefNames(name) \cap Declared \subseteq Below(stack[i].name)
    BY <1>6, BelowProperties
<1> QED
    BY <1>1, <1>4, <1>5, <1>6, <1>7, PushKeeps

LEMMA EnterInPlace ==
    ASSUME NEW stack, StackOk(stack), stack # <<>>,
           NEW e \in Entry, e.kind = "group",
           NEW name, name = e.name, NEW members, members = e.members,
           e \in Range(mGroups[stack[Len(stack)].name]),
           stack[Len(stack)].name \in UnderRoot \cap Declared,
           \A i \in 1 .. Len(stack) : stack[i].name # name,
           \A i \in 1 .. Len(stack) : stack[i].name \in Declared =>
               RefsOf({e}) \cap Declared \subseteq Below(stack[i].name)
    PROVE  StackOk(Push(stack, name, members))
<1> DEFINE n == Len(stack)  next == Push(stack, name, members)
<1>1. stack \in Seq(Frames) /\ name \in AllNames /\ members \in Seq(Entry)
      /\ name \in LooseNames
    BY EntriesAre DEF StackOk
<1>2. /\ n \in Nat
      /\ \A k \in 1 .. n : next[k] = stack[k]
      /\ next[n + 1].name = name /\ next[n + 1].left = members
    BY <1>1, PushIs
<1>3. n \in 1 .. n /\ n + 1 > 1 /\ (n + 1) - 1 = n
    BY <1>1, <1>2, EmptySeq
<1>4. next[n] = stack[n]
    BY <1>2, <1>3
<1>5. /\ RefsOf({e}) = RefsOf(Range(members))
      /\ \A f \in Range(members) : f.kind = "ref"
    BY RefsOfEntry
<1> HIDE DEF next
<1>6. FrameOk(next, n + 1)
  <2>1. next[(n + 1) - 1] = stack[n]
      BY <1>3, <1>4
  <2> QED
      BY <1>1, <1>2, <1>3, <1>5, <2>1 DEF FrameOk
<1>7. name \notin Declared
    BY <1>1, ManifestAssumption DEF Declared
<1> QED
    BY <1>1, <1>5, <1>6, <1>7, PushKeeps DEF next

\* The groups resolved lead to no others.
LEMMA DoneIsClosed ==
    ASSUME NEW done, DoneOk(done), NEW names, names \cap Declared \subseteq done
    PROVE  LeadTo(names) \subseteq done \cap Declared
<1>1. \A g \in done \cap Declared : RefNames(g) \cap Declared \subseteq done \cap Declared
  <2>1. \A g \in done \cap Declared : RefNames(g) \subseteq AgentNames \cup (done \cap Declared)
      BY DEF DoneOk, Settled
  <2> QED
      BY <2>1 DEF Declared
<1> QED
    BY <1>1, BelowProperties

LEMMA FrontIs ==
    ASSUME NEW S, NEW s \in Seq(S), s # <<>>
    PROVE  /\ Len(s) - 1 \in Nat
           /\ SubSeq(s, 1, Len(s) - 1) \in Seq(S)
           /\ Len(SubSeq(s, 1, Len(s) - 1)) = Len(s) - 1
           /\ \A k \in 1 .. Len(s) - 1 :
                 SubSeq(s, 1, Len(s) - 1)[k] = s[k] /\ k \in 1 .. Len(s) /\ k # Len(s)
<1> DEFINE from == 1  to == Len(s) - 1
<1>1. from = 1 /\ from \in Int /\ to \in Int /\ to \in Nat /\ Len(s) \in Nat /\ to = Len(s) - 1
    BY LenProperties, EmptySeq
<1>2. \A k \in from .. to : s[k] \in S /\ k \in 1 .. Len(s) /\ k # Len(s)
    BY <1>1, ElementOfSeq
<1> HIDE DEF from, to
<1>3. /\ SubSeq(s, from, to) \in Seq(S)
      /\ Len(SubSeq(s, from, to)) = IF from <= to THEN to - from + 1 ELSE 0
      /\ \A k \in 1 .. to - from + 1 : SubSeq(s, from, to)[k] = s[from + k - 1]
    BY <1>1, <1>2, SubSeqProperties
<1>4. to - from + 1 = to /\ Len(SubSeq(s, from, to)) = to
    BY <1>1, <1>3
<1>5. \A k \in 1 .. to : from + k - 1 = k
    BY <1>1
<1>6. \A k \in 1 .. to : SubSeq(s, from, to)[k] = s[k]
    BY <1>3, <1>4, <1>5
<1> QED
    BY <1>1, <1>2, <1>3, <1>4, <1>6

\* A group whose members are all resolved is, and it is in no loop.
LEMMA LeaveTop ==
    ASSUME NEW stack, StackOk(stack), stack # <<>>, stack[Len(stack)].left = <<>>,
           NEW done, DoneOk(done), Accounted(stack, done, {}),
           NEW after, after = done \cup {stack[Len(stack)].name},
           NEW front, front = SubSeq(stack, 1, Len(stack) - 1)
    PROVE  StackOk(front) /\ DoneOk(after) /\ Accounted(front, after, {})
<1> DEFINE n == Len(stack)  name == stack[n].name
<1>1. /\ stack \in Seq(Frames) /\ n \in Nat \ {0} /\ n \in 1 .. n
    BY LenProperties, EmptySeq DEF StackOk
<1>2. /\ front \in Seq(Frames) /\ Len(front) = n - 1 /\ n - 1 \in Nat
      /\ \A k \in 1 .. n - 1 : front[k] = stack[k] /\ k \in 1 .. n /\ k # n
    BY <1>1, FrontIs
<1>3. ToCome(stack, n) = {}
  <2>1. Range(stack[n].left) = {}
      BY DEF Range
  <2> QED
      BY <2>1, RefsOfUnion DEF ToCome
<1>4. \A k \in 1 .. n - 1 : ToCome(front, k) = ToCome(stack, k)
    BY <1>2 DEF ToCome
<1>5. StackOk(front)
  <2>1. \A k \in 1 .. n - 1 : FrameOk(front, k)
    <3> SUFFICES ASSUME NEW k \in 1 .. n - 1 PROVE FrameOk(front, k)
        OBVIOUS
    <3>1. FrameOk(stack, k)
        BY <1>2 DEF StackOk
    <3>2. k > 1 => k - 1 \in 1 .. n - 1
        BY <1>2
    <3>3. front[k] = stack[k] /\ (k > 1 => front[k - 1] = stack[k - 1])
        BY <1>2, <3>2
    <3> QED
        BY <3>1, <3>3 DEF FrameOk
  <2>2. Chained(front)
    <3>1. Chained(stack)
        BY DEF StackOk
    <3> QED
        BY <1>2, <1>4, <3>1 DEF Chained
  <2>3. \A i, j \in 1 .. n - 1 : front[i].name = front[j].name => i = j
      BY <1>2 DEF StackOk
  <2>4. front # <<>> => mRoot \in Declared /\ front[1].name = mRoot
    <3>1. front # <<>> => 1 \in 1 .. n - 1
        BY <1>2, EmptySeq
    <3> QED
        BY <1>2, <3>1 DEF StackOk
  <2> QED
      BY <1>2, <2>1, <2>2, <2>3, <2>4 DEF StackOk
<1>6. name \in Declared => RefNames(name) \subseteq Settled(done)
  <2> SUFFICES ASSUME name \in Declared, NEW x \in RefNames(name), x \notin Settled(done)
               PROVE  FALSE
      OBVIOUS
  <2>1. Open(stack, n, x)
      BY <1>1 DEF Accounted
  <2>2. \A j \in 1 .. n : ~(j > n) /\ (j >= n => j = n)
      BY <1>1
  <2> QED
      BY <1>3, <2>1, <2>2 DEF Open
<1>7. name \in Declared => name \notin mOdd
  <2>1. FrameOk(stack, n)
      BY <1>1 DEF StackOk
  <2> QED
      BY <2>1, ManifestAssumption DEF FrameOk, Declared
<1>8. name \in Declared => name \notin Below(name)
  <2>1. CASE name \in done
      BY <2>1 DEF DoneOk
  <2>2. CASE name \notin done /\ name \in Declared
    <3>1. RefNames(name) \cap Declared \subseteq done
        BY <1>6, <2>2 DEF Settled, Declared
    <3> QED
        BY <2>2, <3>1, DoneIsClosed DEF Below
  <2> QED
      BY <2>1, <2>2
<1>9. Settled(done) \subseteq Settled(after)
    BY DEF Settled
<1>10. DoneOk(after)
  <2> SUFFICES ASSUME NEW g \in after \cap Declared
               PROVE  RefNames(g) \subseteq Settled(after) /\ g \notin Below(g) /\ g \notin mOdd
      BY DEF DoneOk
  <2>1. CASE g \in done
      BY <1>9, <2>1 DEF DoneOk
  <2>2. CASE g = name
      BY <1>6, <1>7, <1>8, <1>9, <2>2
  <2> QED
      BY <2>1, <2>2
<1>11. Accounted(front, after, {})
  <2> SUFFICES ASSUME NEW k \in 1 .. n - 1, front[k].name \in Declared,
                      NEW x \in RefNames(front[k].name), x \notin Settled(after)
               PROVE  Open(front, k, x)
      BY <1>2 DEF Accounted
  <2>1. Open(stack, k, x)
      BY <1>2, <1>9 DEF Accounted
  <2>2. x \in Declared => x # name
      BY DEF Settled
  <2>3. \A j \in 1 .. n : j \in 1 .. n - 1 \/ j = n
      BY <1>2
  <2> QED
      BY <1>2, <1>3, <1>4, <2>1, <2>2, <2>3 DEF Open
<1> QED
    BY <1>5, <1>10, <1>11

-----------------------------------------------------------------------------
ManifestInv ==
    /\ mOutcome # "unread" => mGroups \in [GroupNames -> Seq(Entry)]
    /\ StackOk(mStack) /\ DoneOk(mDone) /\ Accounted(mStack, mDone, {})
    /\ mStack # <<>> => mOutcome = "resolving"
    /\ mOutcome \in {"unread", "read"} => mDone = {}
    /\ mOutcome = "group" => mRoot \in mDone
    /\ mOutcome = "cycle" /\ mRoot \in Declared /\ NamesApart => Loops # {}

LEMMA EmptyStack ==
    /\ StackOk(<<>>) /\ DoneOk({}) /\ \A done, taken : Accounted(<<>>, done, taken)
<1>1. <<>> \in Seq(Frames) /\ Len(<<>>) = 0 /\ 1 .. 0 = {}
    BY EmptySeq
<1> QED
    BY <1>1 DEF StackOk, Chained, DoneOk, Accounted

LEMMA EmptyStackNext ==
    /\ StackOk(<<>>)' /\ DoneOk({})' /\ \A done : Accounted(<<>>, done, {})'
<1>1. <<>> \in Seq(Frames) /\ Len(<<>>) = 0 /\ 1 .. 0 = {}
    BY EmptySeq
<1> QED
    BY <1>1 DEF StackOk, Chained, DoneOk, Accounted

\* The manifest stays while it is resolved.
LEMMA SameManifest ==
    ASSUME UNCHANGED <<mRoot, mGroups, mOdd>>
    PROVE  /\ \A stack : StackOk(stack)' <=> StackOk(stack)
           /\ \A done : DoneOk(done)' <=> DoneOk(done)
           /\ \A stack, done, taken :
                 Accounted(stack, done, taken)' <=> Accounted(stack, done, taken)
           /\ NamesApart' <=> NamesApart
           /\ Loops' = Loops
<1>1. \A g : RefNames(g)' = RefNames(g)
    BY DEF RefNames
<1>2. \A names : LeadTo(names)' = LeadTo(names)
    BY <1>1 DEF LeadTo
<1>3. \A g : Below(g)' = Below(g)
    BY <1>1, <1>2 DEF Below
<1>4. UnderRoot' = UnderRoot
    BY <1>3 DEF UnderRoot
<1>5. Loops' = Loops
    BY <1>3, <1>4 DEF Loops
<1>6. NamesApart' <=> NamesApart
    BY <1>4 DEF NamesApart
<1>7. \A stack, k : FrameOk(stack, k)' <=> FrameOk(stack, k)
    BY <1>4 DEF FrameOk
<1>8. \A stack : Chained(stack)' <=> Chained(stack)
    BY <1>3 DEF Chained
<1>9. \A stack : StackOk(stack)' <=> StackOk(stack)
    BY <1>7, <1>8 DEF StackOk
<1>10. \A done : DoneOk(done)' <=> DoneOk(done)
    BY <1>1, <1>3 DEF DoneOk
<1>11. \A stack, done, taken : Accounted(stack, done, taken)' <=> Accounted(stack, done, taken)
    BY <1>1 DEF Accounted
<1> QED
    BY <1>5, <1>6, <1>9, <1>10, <1>11

LEMMA ForbiddenIs == Forbidden = {mStack[i].name : i \in DOMAIN mStack}
BY DEF Forbidden, NamesInside, Range

\* A group that is met inside of itself is in a loop.
LEMMA LoopFound ==
    ASSUME StackOk(mStack), Accounted(mStack, mDone, {}), NamesApart,
           mStack # <<>>, mStack[Len(mStack)].left # <<>>,
           NEW e, e = Head(mStack[Len(mStack)].left), e.name \in Forbidden,
           e.kind = "group" \/ (e.kind = "ref" /\ e.name \in Declared)
    PROVE  Loops # {}
<1> DEFINE n == Len(mStack)
<1>1. mStack \in Seq(Frames) /\ n \in Nat /\ DOMAIN mStack = 1 .. n /\ n \in 1 .. n
    BY LenProperties, EmptySeq DEF StackOk
<1>2. PICK j \in 1 .. n : e.name = mStack[j].name
    BY <1>1, ForbiddenIs
<1>3. e \in Entry
    BY <1>1, ToComeOfNext
<1>4. /\ \A i \in 1 .. n : mStack[i].name \in Declared =>
              RefsOf({e}) \cap Declared \subseteq Below(mStack[i].name)
      /\ e.kind = "group" =>
              mStack[n].name \in UnderRoot \cap Declared /\ e \in Range(mGroups[mStack[n].name])
    BY TakeMember
<1>5. FrameOk(mStack, j)
    BY DEF StackOk
<1>6. CASE e.kind = "ref" /\ e.name \in Declared
  <2>1. e.name \in Below(e.name)
      BY <1>2, <1>3, <1>4, <1>6, RefsOfEntry
  <2>2. e.name \in UnderRoot
      BY <1>2, <1>5, <1>6, ManifestAssumption DEF FrameOk, Declared
  <2> QED
      BY <2>1, <2>2 DEF Loops
<1>7. CASE e.kind = "group"
  <2>1. e.name \in LooseNames /\ e.name \notin Declared
      BY <1>3, <1>7, EntriesAre, ManifestAssumption DEF Declared
  <2>2. /\ j > 1 /\ mStack[j - 1].name \in UnderRoot \cap Declared
        /\ \E f \in Range(mGroups[mStack[j - 1].name]) : f.kind = "group" /\ f.name = e.name
      BY <1>2, <1>5, <2>1 DEF FrameOk
  <2> DEFINE g == mStack[j - 1].name  h == mStack[n].name
  <2>3. PICK a \in DOMAIN mGroups[g] : mGroups[g][a].kind = "group" /\ mGroups[g][a].name = e.name
      BY <2>2 DEF Range
  <2>4. PICK b \in DOMAIN mGroups[h] : mGroups[h][b].kind = "group" /\ mGroups[h][b].name = e.name
      BY <1>4, <1>7 DEF Range
  <2>5. g \in UnderRoot /\ h \in UnderRoot
      BY <1>4, <1>7, <2>2
  <2>6. g = h
      BY <2>3, <2>4, <2>5 DEF NamesApart
  <2>7. j - 1 \in 1 .. n /\ j - 1 # n
      BY <1>1, <2>2
  <2> QED
      BY <1>1, <2>6, <2>7 DEF StackOk
<1> QED
    BY <1>6, <1>7

LEMMA ManifestInitially == ManifestInit => ManifestInv
BY EmptyStack DEF ManifestInit, ManifestInv

\* An error ends the resolution.
LEMMA StopKeeps ==
    ASSUME ManifestInv, UNCHANGED <<mRoot, mGroups, mOdd, mDone>>, mOutcome # "unread",
           NEW outcome \in {"agent", "missing", "unsupported", "cycle"}, Stop(outcome),
           outcome = "cycle" /\ mRoot \in Declared /\ NamesApart => Loops # {}
    PROVE  ManifestInv'
<1>1. mOutcome' = outcome /\ mStack' = <<>>
    BY DEF Stop
<1>2. StackOk(mStack)' /\ Accounted(mStack, mDone, {})'
    BY <1>1, EmptyStackNext
<1>3. DoneOk(mDone)'
    BY SameManifest DEF ManifestInv
<1>4. mGroups' \in [GroupNames -> Seq(Entry)]
    BY DEF ManifestInv
<1>5. mOutcome' = "cycle" /\ mRoot' \in Declared /\ NamesApart' => Loops' # {}
    BY <1>1, SameManifest
<1> QED
    BY <1>1, <1>2, <1>3, <1>4, <1>5 DEF ManifestInv

\* So does every other step of the resolver, if the stack and what was done stay in order.
LEMMA GoesOn ==
    ASSUME ManifestInv, UNCHANGED <<mRoot, mGroups, mOdd>>,
           mOutcome \in {"read", "resolving"}, mOutcome' = "resolving",
           NEW stack, mStack' = stack, StackOk(stack),
           NEW done, mDone' = done, DoneOk(done), Accounted(stack, done, {})
    PROVE  ManifestInv'
<1>1. StackOk(mStack)' /\ DoneOk(mDone)' /\ Accounted(mStack, mDone, {})'
    BY SameManifest
<1>2. mGroups' \in [GroupNames -> Seq(Entry)]
    BY DEF ManifestInv
<1> QED
    BY <1>1, <1>2 DEF ManifestInv

LEMMA LoadKeeps == ManifestInv /\ Load => ManifestInv'
<1> SUFFICES ASSUME ManifestInv, Load PROVE ManifestInv'
    OBVIOUS
<1>1. mStack = <<>> /\ mDone = {} /\ UNCHANGED <<mStack, mDone>>
    BY DEF ManifestInv, Load
<1>2. mOutcome' \in {"missing", "read"}
    BY DEF Load
<1>3. mGroups' \in [GroupNames -> Seq(Entry)]
  <2>1. UNION {[1..n -> Entry] : n \in 0..MaxMembers} \subseteq Seq(Entry)
      OBVIOUS
  <2> QED
      BY <2>1 DEF Load
<1>4. StackOk(mStack)' /\ DoneOk(mDone)' /\ Accounted(mStack, mDone, {})'
    BY <1>1, EmptyStackNext
<1> QED
    BY <1>1, <1>2, <1>3, <1>4 DEF ManifestInv

LEMMA ResolveRootKeeps == ManifestInv /\ ResolveRoot => ManifestInv'
<1> SUFFICES ASSUME ManifestInv, ResolveRoot PROVE ManifestInv'
    OBVIOUS
<1>1. mOutcome = "read" /\ UNCHANGED <<mRoot, mGroups, mOdd, mDone>>
    BY DEF ResolveRoot
<1>2. /\ mStack = <<>> /\ mDone = {} /\ mGroups \in [GroupNames -> Seq(Entry)]
      /\ StackOk(<<>>) /\ DoneOk({}) /\ Accounted(<<>>, {}, {})
    BY <1>1 DEF ManifestInv
<1>3. CASE Stop("agent")
    BY <1>1, <1>3, StopKeeps
<1>4. CASE mRoot \in GroupNames \ AgentNames /\ EnterGroup(mRoot, mGroups[mRoot], mStack)
  <2>1. mRoot \in Declared /\ mRoot \in AllNames /\ mGroups[mRoot] \in Seq(Entry)
      BY <1>2, <1>4 DEF Declared, AllNames
  <2>2. mRoot \notin Forbidden /\ \A i \in 1 .. Len(<<>>) : <<>>[i].name # mRoot
    <3>1. DOMAIN <<>> = {} /\ 1 .. Len(<<>>) = {}
        OBVIOUS
    <3> QED
        BY <1>2, <3>1, ForbiddenIs
  <2>3. CASE Stop("unsupported")
      BY <1>1, <2>3, StopKeeps
  <2>4. CASE /\ mRoot \notin mOdd /\ mOutcome' = "resolving"
             /\ mStack' = Push(<<>>, mRoot, mGroups[mRoot])
    <3>1. StackOk(Push(<<>>, mRoot, mGroups[mRoot]))
      <4>1. /\ mRoot \in Declared \ mOdd
            /\ \A i \in 1 .. Len(<<>>) : <<>>[i].name # mRoot /\ mRoot \in Below(<<>>[i].name)
          BY <2>1, <2>2, <2>4
      <4> QED
          BY <1>2, <4>1, EnterDeclared
    <3>2. Accounted(Push(<<>>, mRoot, mGroups[mRoot]), {}, {})
      <4>1. /\ <<>> \in Seq(Frames) /\ RefNames(mRoot) = RefsOf(Range(mGroups[mRoot]))
            /\ Accounted(<<>>, {}, {mRoot})
          BY EmptySeq, EmptyStack DEF RefNames
      <4> QED
          BY <2>1, <4>1, PushAccounts
    <3> QED
        BY <1>1, <1>2, <2>4, <3>1, <3>2, GoesOn
  <2> QED
      BY <1>2, <1>4, <2>2, <2>3, <2>4 DEF EnterGroup, Push
<1> QED
    BY <1>3, <1>4 DEF ResolveRoot

LEMMA ResolveMemberKeeps == ManifestInv /\ ResolveMember => ManifestInv'
<1> SUFFICES ASSUME ManifestInv, ResolveMember PROVE ManifestInv'
    OBVIOUS
<1> DEFINE n == Len(mStack)  next == MemberTaken(mStack)
<1>1. /\ mStack # <<>> /\ mStack[n].left # <<>> /\ UNCHANGED <<mRoot, mGroups, mOdd, mDone>>
      /\ Taken = next
    BY DEF ResolveMember, Inner, Taken, Last, MemberTaken
<1>2. PICK e : e = Head(mStack[n].left)
    OBVIOUS
<1>3. /\ mOutcome = "resolving" /\ mGroups \in [GroupNames -> Seq(Entry)]
      /\ StackOk(mStack) /\ DoneOk(mDone) /\ Accounted(mStack, mDone, {})
    BY <1>1 DEF ManifestInv
<1>4. /\ StackOk(next) /\ Accounted(next, mDone, RefsOf({e}))
      /\ \A i \in 1 .. n : mStack[i].name \in Declared =>
            RefsOf({e}) \cap Declared \subseteq Below(mStack[i].name)
      /\ e.kind = "group" =>
            mStack[n].name \in UnderRoot \cap Declared /\ e \in Range(mGroups[mStack[n].name])
    BY <1>1, <1>2, <1>3, TakeMember
<1>5. /\ mStack \in Seq(Frames) /\ next \in Seq(Frames) /\ Len(next) = n /\ next # <<>>
      /\ DOMAIN mStack = 1 .. n /\ n \in 1 .. n
      /\ \A i \in 1 .. n : next[i].name = mStack[i].name
  <2>1. mStack \in Seq(Frames)
      BY <1>3 DEF StackOk
  <2> HIDE DEF next
  <2> QED
      BY <1>1, <2>1, MemberTakenIs DEF next
<1>6. e \in Entry
    BY <1>1, <1>2, <1>5, ToComeOfNext
<1>7. /\ e.kind \in {"ref", "group"} /\ e.name \in AllNames /\ e.members \in Seq(Entry)
      /\ e.kind = "group" => e.name \in LooseNames
      /\ e.kind = "ref" => RefsOf({e}) = {e.name}
      /\ e.kind = "group" => RefsOf({e}) = RefsOf(Range(e.members))
    BY <1>6, EntriesAre, RefsOfEntry
<1> HIDE DEF next
\* The error: the group is inside of itself.
<1>8. CASE Stop("cycle") /\ e.name \in Forbidden
           /\ (e.kind = "group" \/ (e.kind = "ref" /\ e.name \in Declared))
  <2>1. NamesApart => Loops # {}
      BY <1>1, <1>2, <1>3, <1>8, LoopFound
  <2> QED
      BY <1>1, <1>3, <1>8, <2>1, StopKeeps
<1>9. CASE Stop("unsupported") \/ Stop("missing")
    BY <1>1, <1>3, <1>9, StopKeeps
<1>10. CASE e.kind = "ref" /\ e.name \in AgentNames /\ mStack' = next /\ UNCHANGED mOutcome
  <2>1. RefsOf({e}) \subseteq Settled(mDone)
      BY <1>7, <1>10 DEF Settled
  <2>2. Accounted(next, mDone, {})
      BY <1>4, <2>1 DEF Accounted
  <2> QED
      BY <1>1, <1>3, <1>4, <1>10, <2>2, GoesOn
\* The next group is entered.
<1>11. e.name \notin Forbidden => \A i \in 1 .. n : next[i].name # e.name
    BY <1>5, ForbiddenIs
<1>12. CASE /\ e.kind = "ref" /\ e.name \in Declared \ mOdd /\ e.name \notin Forbidden
            /\ mOutcome' = "resolving" /\ mStack' = Push(next, e.name, mGroups[e.name])
  <2>1. PICK name \in Declared \ mOdd : name = e.name
      BY <1>12
  <2>2. \A i \in 1 .. n : next[i].name \in Declared => name \in Below(next[i].name)
      BY <1>4, <1>5, <1>7, <1>12, <2>1
  <2>3. StackOk(Push(next, name, mGroups[name]))
      BY <1>3, <1>4, <1>5, <1>11, <1>12, <2>1, <2>2, EnterDeclared
  <2>4. name \in AllNames /\ mGroups[name] \in Seq(Entry)
        /\ RefNames(name) = RefsOf(Range(mGroups[name]))
      BY <1>3, <2>1 DEF Declared, AllNames, RefNames
  <2>5. Accounted(next, mDone, {name})
      BY <1>4, <1>7, <1>12, <2>1
  <2>6. Accounted(Push(next, name, mGroups[name]), mDone, {})
      BY <1>5, <2>1, <2>4, <2>5, PushAccounts
  <2> QED
      BY <1>1, <1>3, <1>12, <2>1, <2>3, <2>6, GoesOn
<1>13. CASE /\ e.kind = "group" /\ e.name \notin Forbidden
            /\ mOutcome' = "resolving" /\ mStack' = Push(next, e.name, e.members)
  <2>1. PICK name \in AllNames, members \in Seq(Entry) : name = e.name /\ members = e.members
      BY <1>7
  <2>2. /\ e \in Range(mGroups[next[n].name]) /\ next[n].name \in UnderRoot \cap Declared
        /\ \A i \in 1 .. n : next[i].name # name
        /\ \A i \in 1 .. n : next[i].name \in Declared =>
              RefsOf({e}) \cap Declared \subseteq Below(next[i].name)
      BY <1>4, <1>5, <1>11, <1>13, <2>1
  <2>3. StackOk(Push(next, name, members))
      BY <1>4, <1>5, <1>6, <1>13, <2>1, <2>2, EnterInPlace
  <2>4. name \notin Declared
      BY <1>7, <1>13, <2>1, ManifestAssumption DEF Declared
  <2>5. Accounted(next, mDone, RefsOf(Range(members)))
      BY <1>4, <1>7, <1>13, <2>1
  <2>6. Accounted(Push(next, name, members), mDone, {})
      BY <1>5, <2>1, <2>4, <2>5, PushAccounts
  <2> QED
      BY <1>1, <1>3, <1>13, <2>1, <2>3, <2>6, GoesOn
<1>14. \/ e.kind = "group" /\ EnterGroup(e.name, e.members, next)
       \/ e.kind = "ref" /\ e.name \in AgentNames /\ mStack' = next /\ UNCHANGED mOutcome
       \/ e.kind = "ref" /\ e.name \in Declared /\ EnterGroup(e.name, mGroups[e.name], next)
       \/ Stop("missing")
    BY <1>1, <1>2 DEF ResolveMember, Inner, Last, Declared
<1> QED
  <2>1. CASE e.kind = "group" /\ EnterGroup(e.name, e.members, next)
    <3>1. \/ e.name \in Forbidden /\ Stop("cycle")
          \/ Stop("unsupported")
          \/ /\ e.name \notin Forbidden /\ mOutcome' = "resolving"
             /\ mStack' = Push(next, e.name, e.members)
        BY <2>1 DEF EnterGroup, Push
    <3>2. CASE e.name \in Forbidden /\ Stop("cycle")
        BY <1>8, <2>1, <3>2
    <3>3. CASE Stop("unsupported")
        BY <1>9, <3>3
    <3>4. CASE /\ e.name \notin Forbidden /\ mOutcome' = "resolving"
               /\ mStack' = Push(next, e.name, e.members)
        BY <1>13, <2>1, <3>4
    <3> QED
        BY <3>1, <3>2, <3>3, <3>4
  <2>2. CASE e.kind = "ref" /\ e.name \in Declared /\ EnterGroup(e.name, mGroups[e.name], next)
      BY <1>8, <1>9, <1>12, <2>2 DEF EnterGroup, Push
  <2> QED
      BY <1>9, <1>10, <1>14, <2>1, <2>2

LEMMA LeaveGroupKeeps == ManifestInv /\ LeaveGroup => ManifestInv'
<1> SUFFICES ASSUME ManifestInv, LeaveGroup PROVE ManifestInv'
    OBVIOUS
<1> DEFINE n == Len(mStack)  after == mDone \cup {mStack[n].name}
           front == SubSeq(mStack, 1, n - 1)
<1>1. /\ mStack # <<>> /\ mStack[n].left = <<>> /\ UNCHANGED <<mRoot, mGroups, mOdd>>
      /\ mDone' = after /\ mStack' = front
      /\ mOutcome' = IF n = 1 THEN "group" ELSE mOutcome
    BY DEF LeaveGroup, Inner, Last, Front
<1>2. /\ mOutcome = "resolving" /\ mGroups \in [GroupNames -> Seq(Entry)]
      /\ StackOk(mStack) /\ DoneOk(mDone) /\ Accounted(mStack, mDone, {})
    BY <1>1 DEF ManifestInv
<1>3. StackOk(front) /\ DoneOk(after) /\ Accounted(front, after, {})
    BY <1>1, <1>2, LeaveTop
<1>4. n = 1 => mRoot \in after /\ front = <<>>
  <2>1. n = 1 => mRoot = mStack[n].name
      BY <1>1, <1>2 DEF StackOk
  <2>2. n = 1 => Len(front) = 0 /\ front \in Seq(Frames)
      BY <1>1, <1>2, FrontIs DEF StackOk
  <2> QED
      BY <2>1, <2>2, EmptySeq
<1> HIDE DEF n, after, front
<1>5. CASE n # 1
    BY <1>1, <1>2, <1>3, <1>5, GoesOn
<1>6. CASE n = 1
  <2>1. StackOk(mStack)' /\ DoneOk(mDone)' /\ Accounted(mStack, mDone, {})'
      BY <1>1, <1>3, SameManifest
  <2> QED
      BY <1>1, <1>2, <1>4, <1>6, <2>1 DEF ManifestInv
<1> QED
    BY <1>5, <1>6

LEMMA ManifestStep == ManifestInv /\ [ManifestNext]_manifestVars => ManifestInv'
<1>1. ManifestInv /\ UNCHANGED manifestVars => ManifestInv'
  <2> SUFFICES ASSUME ManifestInv, UNCHANGED manifestVars PROVE ManifestInv'
      OBVIOUS
  <2>1. StackOk(mStack)' /\ DoneOk(mDone)' /\ Accounted(mStack, mDone, {})'
      BY SameManifest DEF ManifestInv, manifestVars
  <2> QED
      BY <2>1, SameManifest DEF ManifestInv, manifestVars
<1> QED
    BY <1>1, LoadKeeps, ResolveRootKeeps, ResolveMemberKeeps, LeaveGroupKeeps DEF ManifestNext

(***************************************************************************)
(* A manifest resolves only if no groups under its root refer to each      *)
(* other in a loop, none of them is unsupported and nothing they name is   *)
(* undefined; and a loop is reported only where there is one, as long as   *)
(* groups in place have names of their own (ManifestResolver               *)
(* _resolve_group), for any agents, groups and members.                    *)
(***************************************************************************)
THEOREM CyclesAreReported == ManifestSpec => []CycleIsReported
<1>1. ManifestInv => CycleIsReported
  <2> SUFFICES ASSUME ManifestInv, mRoot \in Declared, mOutcome = "group"
               PROVE  /\ Loops = {} /\ UnderRoot \cap mOdd = {}
                      /\ \A g \in UnderRoot : RefNames(g) \subseteq GroupNames \cup AgentNames
      BY DEF ManifestInv, CycleIsReported
  <2>1. DoneOk(mDone) /\ mRoot \in mDone \cap Declared
      BY DEF ManifestInv
  <2>2. RefNames(mRoot) \cap Declared \subseteq mDone
      BY <2>1 DEF DoneOk, Settled, Declared
  <2>3. UnderRoot \subseteq mDone \cap Declared
      BY <2>1, <2>2, DoneIsClosed DEF UnderRoot, Below
  <2> QED
      BY <2>1, <2>3 DEF DoneOk, Settled, Loops, Declared
<1> QED
    BY <1>1, ManifestInitially, ManifestStep, PTL DEF ManifestSpec

-----------------------------------------------------------------------------
(***************************************************************************)
(* Toolsets.                                                               *)
(***************************************************************************)
\* A bundle includes bundles only.
SetsInv ==
    \A m \in DOMAIN xSets : xSets[m].includes \in Seq(DOMAIN xSets)

\* The sets a name cannot leave.
Closing(n) ==
    {S \in SUBSET DOMAIN xSets :
        n \in S /\ \A s \in S : ToSet(xSets[s].includes) \subseteq S}

\* A walk has or will come to all it must, and comes to nothing else.
WalkOf(n) ==
    /\ n \in xSeen \cup ToSet(xCalls)
    /\ \A s \in xSeen \cap DOMAIN xSets : ToSet(xSets[s].includes) \subseteq xSeen \cup ToSet(xCalls)
    /\ \A s \in xSeen \cup ToSet(xCalls) :
          IF n \in DOMAIN xSets THEN s \in DOMAIN xSets /\ \A S \in Closing(n) : s \in S
                                ELSE s = n

\* The tools of what a name leads to.
OwnTools(S) == UNION {xSets[m].tools : m \in S}
ToolsOf(n) == IF n \in DOMAIN xSets THEN OwnTools(Reachable(n)) ELSE {n} \cap Dotted
ToolsOfAll(names) == UNION {ToolsOf(k) : k \in names}

\* The tools of what the walk has visited.
VisitedTools ==
    OwnTools(xSeen \cap DOMAIN xSets) \cup ((xSeen \ DOMAIN xSets) \cap Dotted)

Nameable == SetNames \cup ToolNames \cup DOMAIN xSets

\* The names walked through have given their tools, and the one being walked those of
\* what it has visited.
WalkInv ==
    /\ xCalls \in Seq(Nameable)
    /\ xLeft \subseteq xAsked /\ xAsked \subseteq Nameable
    /\ \/ xLeft = xAsked /\ xCalls = <<>> /\ xOut = {}
       \/ \E n \in xAsked \ xLeft :
             /\ WalkOf(n)
             /\ xOut = ToolsOfAll(xAsked \ (xLeft \cup {n})) \cup VisitedTools

ToolsetInv == SetsInv /\ WalkInv

LEMMA OwnToolsIs ==
    ASSUME NEW S, NEW e
    PROVE  e \in OwnTools(S) <=> \E m \in S : e \in xSets[m].tools
BY DEF OwnTools

LEMMA ToolsOfAllIs ==
    ASSUME NEW names, NEW e
    PROVE  e \in ToolsOfAll(names) <=> \E k \in names : e \in ToolsOf(k)
BY DEF ToolsOfAll

\* Where the walk of a name has ended it has visited what the name leads to.
LEMMA WalkEnds ==
    ASSUME SetsInv, NEW n, WalkOf(n), xCalls = <<>>
    PROVE  VisitedTools = ToolsOf(n)
<1>1. ToSet(xCalls) = {}
  BY DEF ToSet
<1>2. n \in xSeen /\ \A s \in xSeen \cap DOMAIN xSets : ToSet(xSets[s].includes) \subseteq xSeen
  BY <1>1 DEF WalkOf
<1>3. CASE n \notin DOMAIN xSets
  <2>1. xSeen = {n}
    BY <1>2, <1>3 DEF WalkOf
  <2>2. xSeen \cap DOMAIN xSets = {} /\ (xSeen \ DOMAIN xSets) \cap Dotted = {n} \cap Dotted
    BY <1>3, <2>1
  <2>3. OwnTools(xSeen \cap DOMAIN xSets) = {}
    BY <2>2 DEF OwnTools
  <2>4. VisitedTools = {n} \cap Dotted
    BY <2>2, <2>3 DEF VisitedTools
  <2>5. ToolsOf(n) = {n} \cap Dotted
    BY <1>3 DEF ToolsOf
  <2> QED
    BY <2>4, <2>5
<1>4. CASE n \in DOMAIN xSets
  <2>1. xSeen \subseteq DOMAIN xSets /\ \A s \in xSeen : \A S \in Closing(n) : s \in S
    BY <1>4 DEF WalkOf
  <2>2. xSeen \in Closing(n)
    BY <1>2, <2>1 DEF Closing
  <2>3. Reachable(n) = {m \in DOMAIN xSets : \A S \in Closing(n) : m \in S}
    BY DEF Reachable, Closing
  <2>4. Reachable(n) = xSeen
    BY <2>1, <2>2, <2>3
  <2> QED
    BY <1>4, <2>1, <2>4 DEF VisitedTools, ToolsOf
<1> QED
  BY <1>3, <1>4

\* Between two walks what was found is what the names walked through lead to.
LEMMA BetweenWalks ==
    ASSUME ToolsetInv, xCalls = <<>>
    PROVE  xOut = ToolsOfAll(xAsked \ xLeft)
<1>1. CASE xLeft = xAsked /\ xOut = {}
  <2>1. xAsked \ xLeft = {}
    BY <1>1
  <2>2. ToolsOfAll({}) = {}
    BY ToolsOfAllIs
  <2> QED
    BY <1>1, <2>1, <2>2
<1>2. CASE ~(xLeft = xAsked /\ xOut = {})
  <2>1. PICK n \in xAsked \ xLeft :
            /\ WalkOf(n)
            /\ xOut = ToolsOfAll(xAsked \ (xLeft \cup {n})) \cup VisitedTools
    BY <1>2 DEF ToolsetInv, WalkInv
  <2>2. VisitedTools = ToolsOf(n)
    BY <2>1, WalkEnds DEF ToolsetInv
  <2>3. xAsked \ xLeft = (xAsked \ (xLeft \cup {n})) \cup {n}
    BY <2>1
  <2>4. PICK K : K = xAsked \ (xLeft \cup {n})
    OBVIOUS
  <2>5. ToolsOfAll(K \cup {n}) = ToolsOfAll(K) \cup ToolsOf(n)
    BY ToolsOfAllIs
  <2>6. xOut = ToolsOfAll(K \cup {n})
    BY <2>1, <2>2, <2>4, <2>5
  <2> QED
    BY <2>3, <2>4, <2>6
<1> QED
  BY <1>1, <1>2

\* What is yet to come: the next call and those after it.
LEMMA CallsAre ==
    ASSUME NEW T, NEW s \in Seq(T), s # <<>>
    PROVE  /\ Head(s) \in T /\ Tail(s) \in Seq(T)
           /\ ToSet(s) = {Head(s)} \cup ToSet(Tail(s))
<1>1. /\ Head(s) \in T /\ Tail(s) \in Seq(T) /\ Len(Tail(s)) = Len(s) - 1
      /\ \A i \in 1 .. Len(Tail(s)) : Tail(s)[i] = s[i + 1]
  BY HeadTailProperties
<1>2. /\ Len(s) \in Nat \ {0} /\ DOMAIN s = 1 .. Len(s) /\ Head(s) = s[1]
      /\ DOMAIN Tail(s) = 1 .. Len(s) - 1
  BY <1>1, EmptySeq, LenProperties
<1>3. \A i \in 1 .. Len(s) : i = 1 \/ (i - 1 \in 1 .. Len(s) - 1 /\ s[i] = Tail(s)[i - 1])
  BY <1>1, <1>2
<1>4. \A i \in 1 .. Len(s) - 1 : i + 1 \in 1 .. Len(s) /\ Tail(s)[i] = s[i + 1]
  BY <1>1, <1>2
<1>5. 1 \in 1 .. Len(s)
  BY <1>2
<1>6. PICK rest : rest = Tail(s)
  OBVIOUS
<1>7. \A e : e \in ToSet(rest) <=> \E i \in 1 .. Len(s) - 1 : rest[i] = e
  BY <1>2, <1>6 DEF ToSet
<1>8. \A e : e \in ToSet(s) <=> \E i \in 1 .. Len(s) : s[i] = e
  BY <1>2 DEF ToSet
<1>9. \A e : e \in ToSet(s) <=> e = s[1] \/ e \in ToSet(rest)
  BY <1>3, <1>4, <1>5, <1>6, <1>7, <1>8
<1> QED
  BY <1>1, <1>2, <1>6, <1>9

LEMMA BothAre ==
    ASSUME NEW T, NEW s \in Seq(T), NEW t \in Seq(T)
    PROVE  s \o t \in Seq(T) /\ ToSet(s \o t) = ToSet(s) \cup ToSet(t)
<1>1. /\ s \o t \in Seq(T) /\ Len(s \o t) = Len(s) + Len(t)
      /\ \A i \in 1 .. Len(s) + Len(t) :
            (s \o t)[i] = IF i <= Len(s) THEN s[i] ELSE t[i - Len(s)]
  BY ConcatProperties
<1>2. /\ Len(s) \in Nat /\ Len(t) \in Nat /\ DOMAIN s = 1 .. Len(s) /\ DOMAIN t = 1 .. Len(t)
      /\ DOMAIN (s \o t) = 1 .. Len(s) + Len(t)
  BY <1>1, LenProperties
<1>3. PICK x : x = s \o t
  OBVIOUS
<1>4. /\ \A i \in 1 .. Len(s) : i \in 1 .. Len(s) + Len(t) /\ x[i] = s[i]
      /\ \A i \in 1 .. Len(t) : i + Len(s) \in 1 .. Len(s) + Len(t) /\ x[i + Len(s)] = t[i]
  BY <1>1, <1>2, <1>3
<1>5. ASSUME NEW i \in 1 .. Len(s) + Len(t)
      PROVE  \/ i \in 1 .. Len(s) /\ x[i] = s[i]
             \/ i - Len(s) \in 1 .. Len(t) /\ x[i] = t[i - Len(s)]
  <2>1. CASE i <= Len(s)
    <3>1. i \in 1 .. Len(s)
      BY <1>2, <2>1
    <3> QED
      BY <1>4, <3>1
  <2>2. CASE ~(i <= Len(s))
    <3>1. i - Len(s) \in 1 .. Len(t)
      BY <1>2, <2>2
    <3>2. x[i] = t[i - Len(s)]
      BY <1>1, <1>3, <2>2
    <3> QED
      BY <3>1, <3>2
  <2> QED
    BY <2>1, <2>2
<1>6. \A e : e \in ToSet(x) <=> \E i \in 1 .. Len(s) + Len(t) : x[i] = e
  BY <1>2, <1>3 DEF ToSet
<1>7. \A e : e \in ToSet(s) <=> \E i \in 1 .. Len(s) : s[i] = e
  BY <1>2 DEF ToSet
<1>8. \A e : e \in ToSet(t) <=> \E i \in 1 .. Len(t) : t[i] = e
  BY <1>2 DEF ToSet
<1>9. \A e : e \in ToSet(x) <=> e \in ToSet(s) \/ e \in ToSet(t)
  BY <1>4, <1>5, <1>6, <1>7, <1>8
<1> QED
  BY <1>1, <1>3, <1>9

\* The tools of one bundle more.
LEMMA MoreTools ==
    ASSUME NEW S, NEW m
    PROVE  OwnTools(S \cup {m}) = OwnTools(S) \cup xSets[m].tools
BY OwnToolsIs

\* Before anything is registered nothing is expanded.
LEMMA ToolsetStarts == ToolsetInit => ToolsetInv
<1> SUFFICES ASSUME ToolsetInit PROVE ToolsetInv
  OBVIOUS
<1>1. xSets = <<>> /\ DOMAIN xSets = {}
  BY EmptySeq DEF ToolsetInit
<1>2. xCalls = <<>> /\ xLeft = {} /\ xAsked = {} /\ xOut = {} /\ <<>> \in Seq(Nameable)
  BY EmptySeq DEF ToolsetInit, NoWalk
<1> QED
  BY <1>1, <1>2 DEF ToolsetInv, SetsInv, WalkInv

\* A definition names bundles that are there, and none is ever taken away.
LEMMA DefineKeeps ==
    ASSUME SetsInv, NEW n, NEW tools, NEW includes \in Includable, Define(n, Bundle(tools, includes))
    PROVE  SetsInv'
<1> SUFFICES ASSUME NEW m \in DOMAIN xSets'
             PROVE  xSets'[m].includes \in Seq(DOMAIN xSets')
  BY DEF SetsInv
<1>1. /\ DOMAIN xSets' = DOMAIN xSets \cup {n}
      /\ xSets'[m] = IF m = n THEN Bundle(tools, includes) ELSE xSets[m]
  BY DEF Define
<1>2. includes \in Seq(DOMAIN xSets)
  BY DEF Includable, SeqOf
<1>3. xSets'[m].includes \in Seq(DOMAIN xSets)
  BY <1>1, <1>2 DEF Bundle, SetsInv
<1>4. \A T, U : T \subseteq U => Seq(T) \subseteq Seq(U)
  OBVIOUS
<1> QED
  BY <1>1, <1>3, <1>4

\* While nothing is registered names lead where they did.
LEMMA SameTools ==
    ASSUME UNCHANGED registered
    PROVE  /\ xSets' = xSets /\ Nameable' = Nameable /\ (SetsInv => SetsInv')
           /\ \A n : Closing(n)' = Closing(n)
           /\ \A S : OwnTools(S)' = OwnTools(S)
           /\ \A names : ToolsOfAll(names)' = ToolsOfAll(names)
<1>1. xSets' = xSets
  BY DEF registered
<1>2. Nameable' = Nameable /\ (SetsInv => SetsInv')
  BY <1>1 DEF Nameable, SetsInv
<1>3. \A n : Closing(n)' = Closing(n)
  BY <1>1 DEF Closing
<1>4. \A S : OwnTools(S)' = OwnTools(S)
  BY <1>1 DEF OwnTools
<1>5. \A names : ToolsOfAll(names)' = ToolsOfAll(names)
  BY <1>1 DEF ToolsOfAll, ToolsOf, OwnTools, Reachable
<1> QED
  BY <1>1, <1>2, <1>3, <1>4, <1>5

\* A step of a walk that has or will come to all it must, and adds the tools of what it visits.
LEMMA WalkOn ==
    ASSUME ToolsetInv, UNCHANGED registered, xAsked' = xAsked, xLeft' = xLeft,
           xCalls # <<>>, xCalls' \in Seq(Nameable),
           NEW gained, xOut' = xOut \cup gained, VisitedTools' = VisitedTools \cup gained,
           \A n : WalkOf(n) => WalkOf(n)'
    PROVE  ToolsetInv'
<1>1. PICK n \in xAsked \ xLeft :
          WalkOf(n) /\ xOut = ToolsOfAll(xAsked \ (xLeft \cup {n})) \cup VisitedTools
  BY DEF ToolsetInv, WalkInv
<1>2. PICK K : K = xAsked \ (xLeft \cup {n}) /\ K = xAsked' \ (xLeft' \cup {n})
  OBVIOUS
<1>3. ToolsOfAll(K)' = ToolsOfAll(K) /\ Nameable' = Nameable /\ SetsInv'
  BY SameTools DEF ToolsetInv
<1>4. xOut' = ToolsOfAll(K)' \cup VisitedTools'
  BY <1>1, <1>2, <1>3
<1>5. WalkOf(n)' /\ n \in xAsked' \ xLeft'
  BY <1>1
<1>6. xOut' = ToolsOfAll(xAsked \ (xLeft \cup {n}))' \cup VisitedTools'
  BY <1>2, <1>4
<1> QED
  BY <1>3, <1>5, <1>6 DEF ToolsetInv, WalkInv

\* A name visited already leads to nothing new.
LEMMA PassOverStep == ToolsetInv /\ PassOver => ToolsetInv'
<1> SUFFICES ASSUME ToolsetInv, PassOver PROVE ToolsetInv'
  OBVIOUS
<1>1. /\ UNCHANGED registered /\ xAsked' = xAsked /\ xLeft' = xLeft /\ xSeen' = xSeen
      /\ xOut' = xOut /\ xCalls # <<>> /\ Head(xCalls) \in xSeen /\ xCalls' = Tail(xCalls)
      /\ xCalls \in Seq(Nameable)
  BY DEF PassOver, ToolsetInv, WalkInv
<1>2. xCalls' \in Seq(Nameable) /\ ToSet(xCalls) = {Head(xCalls)} \cup ToSet(xCalls')
  BY <1>1, CallsAre
<1>3. xSeen' \cup ToSet(xCalls)' = xSeen \cup ToSet(xCalls)
  BY <1>1, <1>2
<1>4. \A n : WalkOf(n) => WalkOf(n)'
  BY <1>1, <1>3, SameTools DEF WalkOf
<1>5. VisitedTools' = VisitedTools \cup {} /\ xOut' = xOut \cup {}
  <2>1. OwnTools(xSeen \cap DOMAIN xSets)' = OwnTools(xSeen \cap DOMAIN xSets)
    BY <1>1, SameTools
  <2> QED
    BY <1>1, <2>1, SameTools DEF VisitedTools
<1> QED
  BY <1>1, <1>2, <1>4, <1>5, WalkOn

\* A name that is no bundle is one tool or none.
LEMMA VisitToolStep == ToolsetInv /\ VisitTool => ToolsetInv'
<1> SUFFICES ASSUME ToolsetInv, VisitTool PROVE ToolsetInv'
  OBVIOUS
<1>0. PICK h : h = Head(xCalls)
  OBVIOUS
<1>1. /\ UNCHANGED registered /\ xAsked' = xAsked /\ xLeft' = xLeft /\ xSeen' = xSeen \cup {h}
      /\ xOut' = xOut \cup ({h} \cap Dotted) /\ xCalls # <<>> /\ xCalls' = Tail(xCalls)
      /\ h \notin DOMAIN xSets /\ xCalls \in Seq(Nameable)
  BY <1>0 DEF VisitTool, FirstVisit, ToolsetInv, WalkInv
<1>2. xCalls' \in Seq(Nameable) /\ ToSet(xCalls) = {h} \cup ToSet(xCalls')
  BY <1>0, <1>1, CallsAre
<1>3. /\ xSeen' \cup ToSet(xCalls)' = xSeen \cup ToSet(xCalls)
      /\ xSeen' \cap DOMAIN xSets = xSeen \cap DOMAIN xSets
  BY <1>1, <1>2
<1>4. \A n : WalkOf(n) => WalkOf(n)'
  BY <1>1, <1>3, SameTools DEF WalkOf
<1>5. VisitedTools' = VisitedTools \cup ({h} \cap Dotted)
  <2>1. OwnTools(xSeen \cap DOMAIN xSets)' = OwnTools(xSeen \cap DOMAIN xSets)
    BY <1>1, <1>3, SameTools
  <2> QED
    BY <1>1, <2>1, SameTools DEF VisitedTools
<1> QED
  BY <1>1, <1>2, <1>4, <1>5, WalkOn

\* What a bundle includes is to come, and it leads there.
LEMMA VisitBundleStep == ToolsetInv /\ VisitBundle => ToolsetInv'
<1> SUFFICES ASSUME ToolsetInv, VisitBundle PROVE ToolsetInv'
  OBVIOUS
<1>0. PICK h : h = Head(xCalls)
  OBVIOUS
<1>1. /\ UNCHANGED registered /\ xAsked' = xAsked /\ xLeft' = xLeft /\ xSeen' = xSeen \cup {h}
      /\ xOut' = xOut \cup xSets[h].tools /\ xCalls # <<>>
      /\ xCalls' = xSets[h].includes \o Tail(xCalls)
      /\ h \in DOMAIN xSets /\ xCalls \in Seq(Nameable)
  BY <1>0 DEF VisitBundle, FirstVisit, ToolsetInv, WalkInv
<1>2. PICK included \in Seq(DOMAIN xSets) : included = xSets[h].includes
  BY <1>1 DEF ToolsetInv, SetsInv
<1>3. PICK rest \in Seq(Nameable) : rest = Tail(xCalls) /\ ToSet(xCalls) = {h} \cup ToSet(rest)
  BY <1>0, <1>1, CallsAre
<1>4. included \in Seq(Nameable) /\ ToSet(included) \subseteq DOMAIN xSets
  <2>1. \A i \in DOMAIN included : included[i] \in DOMAIN xSets
    BY LenProperties, ElementOfSeq
  <2>2. DOMAIN xSets \subseteq Nameable
    BY DEF Nameable
  <2>3. \A T, U : T \subseteq U => Seq(T) \subseteq Seq(U)
    OBVIOUS
  <2>4. included \in Seq(Nameable)
    BY <2>2, <2>3
  <2>5. ToSet(included) \subseteq DOMAIN xSets
    BY <2>1 DEF ToSet
  <2> QED
    BY <2>4, <2>5
<1>5. xCalls' \in Seq(Nameable) /\ ToSet(xCalls') = ToSet(included) \cup ToSet(rest)
  BY <1>1, <1>2, <1>3, <1>4, BothAre
<1>6. xSeen' \cup ToSet(xCalls)' = (xSeen \cup ToSet(xCalls)) \cup ToSet(included)
  BY <1>1, <1>3, <1>5
<1>7. ASSUME NEW n, WalkOf(n)
      PROVE  WalkOf(n)'
  <2>1. h \in ToSet(xCalls)
    BY <1>3
  <2>2. n \in DOMAIN xSets /\ \A S \in Closing(n) : h \in S
    BY <1>1, <1>7, <2>1 DEF WalkOf
  <2>3. \A s \in ToSet(included) : s \in DOMAIN xSets /\ \A S \in Closing(n) : s \in S
    BY <1>2, <1>4, <2>2 DEF Closing
  <2>4. \A s \in xSeen' \cap DOMAIN xSets :
            ToSet(xSets[s].includes) \subseteq xSeen' \cup ToSet(xCalls)'
    BY <1>1, <1>2, <1>6, <1>7 DEF WalkOf
  <2>5. \A s \in xSeen' \cup ToSet(xCalls)' : s \in DOMAIN xSets /\ \A S \in Closing(n) : s \in S
    BY <1>6, <1>7, <2>2, <2>3 DEF WalkOf
  <2>6. n \in xSeen' \cup ToSet(xCalls)'
    BY <1>6, <1>7 DEF WalkOf
  <2>7. xSets' = xSets /\ Closing(n)' = Closing(n)
    BY <1>1, SameTools
  <2> QED
    BY <2>2, <2>4, <2>5, <2>6, <2>7 DEF WalkOf
<1>8. VisitedTools' = VisitedTools \cup xSets[h].tools
  <2>1. OwnTools(xSeen \cap DOMAIN xSets)' = OwnTools((xSeen \cap DOMAIN xSets) \cup {h})
    <3>1. xSeen' \cap DOMAIN xSets' = (xSeen \cap DOMAIN xSets) \cup {h}
      BY <1>1, SameTools
    <3> QED
      BY <1>1, <3>1, SameTools
  <2>2. OwnTools((xSeen \cap DOMAIN xSets) \cup {h}) = OwnTools(xSeen \cap DOMAIN xSets) \cup xSets[h].tools
    BY MoreTools
  <2>3. xSeen' \ DOMAIN xSets' = xSeen \ DOMAIN xSets
    BY <1>1, SameTools
  <2> QED
    BY <2>1, <2>2, <2>3 DEF VisitedTools
<1> QED
  BY <1>1, <1>5, <1>7, <1>8, WalkOn

\* The walk of the next name begins when that of the last one has ended.
LEMMA WalkNameStep ==
    ASSUME ToolsetInv, NEW m \in xLeft, WalkName(m)
    PROVE  ToolsetInv'
<1>1. /\ UNCHANGED registered /\ xAsked' = xAsked /\ xLeft' = xLeft \ {m} /\ xOut' = xOut
      /\ xCalls = <<>> /\ xCalls' = <<m>> /\ xSeen' = {}
  BY DEF WalkName
<1>2. m \in xAsked /\ xAsked \subseteq Nameable /\ xLeft \subseteq xAsked
  BY DEF ToolsetInv, WalkInv
<1>3. xOut = ToolsOfAll(xAsked \ xLeft)
  BY <1>1, BetweenWalks
<1>4. ToSet(<<m>>) = {m} /\ <<m>> \in Seq(Nameable)
  BY <1>2 DEF ToSet
<1>5. WalkOf(m)'
  <2>1. xSeen' \cup ToSet(xCalls)' = {m} /\ xSeen' = {}
    BY <1>1, <1>4
  <2>2. \A S \in Closing(m)' : m \in S
    BY DEF Closing
  <2> QED
    BY <2>1, <2>2 DEF WalkOf
<1>6. VisitedTools' = {}
  <2>1. OwnTools({})' = {}
    BY DEF OwnTools
  <2>2. xSeen' \cap DOMAIN xSets' = {} /\ xSeen' \ DOMAIN xSets' = {}
    BY <1>1
  <2> QED
    BY <2>1, <2>2 DEF VisitedTools
<1>7. xOut' = ToolsOfAll(xAsked \ (xLeft \cup {m}))' \cup VisitedTools'
  <2>1. PICK K : K = xAsked \ xLeft /\ K = xAsked' \ (xLeft' \cup {m})
    BY <1>1
  <2>2. ToolsOfAll(K)' = ToolsOfAll(K)
    BY <1>1, SameTools
  <2> QED
    BY <1>1, <1>3, <1>6, <2>1, <2>2
<1>8. SetsInv' /\ Nameable' = Nameable
  BY <1>1, SameTools DEF ToolsetInv
<1>9. m \in xAsked' \ xLeft' /\ xLeft' \subseteq xAsked' /\ xAsked' \subseteq Nameable'
  BY <1>1, <1>2, <1>8
<1> QED
  BY <1>1, <1>4, <1>5, <1>7, <1>8, <1>9 DEF ToolsetInv, WalkInv

\* While nothing is expanded the invariant is about the bundles alone.
LEMMA NoWalkIs == NoWalk => WalkInv
BY EmptySeq DEF NoWalk, WalkInv

LEMMA ToolsetStep == ToolsetInv /\ [ToolsetNext]_toolsetVars => ToolsetInv'
<1> SUFFICES ASSUME ToolsetInv, [ToolsetNext]_toolsetVars PROVE ToolsetInv'
  OBVIOUS
<1>0. ASSUME NoWalk, UNCHANGED walk PROVE WalkInv'
  <2>1. NoWalk'
    BY <1>0 DEF NoWalk, walk
  <2>2. NoWalk' => WalkInv'
    BY NoWalkIs, PTL
  <2> QED
    BY <2>1, <2>2
<1>1. ASSUME NEW t \in ToolNames, RegisterTool(t) PROVE ToolsetInv'
  BY <1>0, <1>1 DEF RegisterTool, ToolsetInv, SetsInv, walk
<1>2. ASSUME NEW n \in SetNames, DefineToolset(n) PROVE ToolsetInv'
  <2>1. PICK t \in xTools : \E includes \in Includable : Define(n, Bundle({t}, includes))
    BY <1>2 DEF DefineToolset
  <2>2. SetsInv'
    BY <2>1, DefineKeeps DEF ToolsetInv
  <2>3. NoWalk /\ UNCHANGED walk
    BY <1>2 DEF DefineToolset, walk
  <2> QED
    BY <1>0, <2>2, <2>3 DEF ToolsetInv
<1>3. ASSUME NEW n \in SetNames, AddToolset(n) PROVE ToolsetInv'
  <2>1. PICK t \in ToolNames :
            (\E includes \in Includable : Define(n, Bundle({t}, includes))) \/ UNCHANGED xSets
    BY <1>3 DEF AddToolset
  <2>2. SetsInv'
    BY <2>1, DefineKeeps DEF ToolsetInv, SetsInv
  <2>3. NoWalk /\ UNCHANGED walk
    BY <1>3 DEF AddToolset, walk
  <2> QED
    BY <1>0, <2>2, <2>3 DEF ToolsetInv
<1>4. ASSUME NEW names \in SUBSET (SetNames \cup ToolNames), ResolveToolset(names) PROVE ToolsetInv'
  <2>1. /\ UNCHANGED registered /\ xAsked' = names /\ xLeft' = names
        /\ xCalls' = <<>> /\ xOut' = {}
    BY <1>4 DEF ResolveToolset, NoWalk
  <2>2. SetsInv' /\ Nameable' = Nameable /\ names \subseteq Nameable
    BY <2>1, SameTools DEF ToolsetInv, Nameable
  <2> QED
    BY <2>1, <2>2, EmptySeq DEF ToolsetInv, WalkInv
<1>5. ASSUME Return PROVE ToolsetInv'
  <2>1. UNCHANGED registered /\ NoWalk'
    BY <1>5 DEF Return, Resolved, NoWalk
  <2>2. NoWalk' => WalkInv'
    BY NoWalkIs, PTL
  <2>3. SetsInv'
    BY <2>1, SameTools DEF ToolsetInv
  <2> QED
    BY <2>1, <2>2, <2>3 DEF ToolsetInv
<1>6. CASE UNCHANGED toolsetVars
  <2>1. UNCHANGED registered /\ UNCHANGED walk
    BY <1>6 DEF toolsetVars
  <2>2. xSets' = xSets /\ xAsked' = xAsked /\ xLeft' = xLeft /\ xCalls' = xCalls
        /\ xSeen' = xSeen /\ xOut' = xOut
    BY <2>1 DEF registered, walk
  <2>3. SetsInv' /\ Nameable' = Nameable
    BY <2>1, SameTools DEF ToolsetInv
  <2>4. CASE xLeft = xAsked /\ xCalls = <<>> /\ xOut = {}
    BY <2>2, <2>3, <2>4 DEF ToolsetInv, WalkInv
  <2>5. CASE ~(xLeft = xAsked /\ xCalls = <<>> /\ xOut = {})
    <3>1. PICK n \in xAsked \ xLeft :
              WalkOf(n) /\ xOut = ToolsOfAll(xAsked \ (xLeft \cup {n})) \cup VisitedTools
      BY <2>5 DEF ToolsetInv, WalkInv
    <3>2. WalkOf(n)'
      BY <2>2, <3>1 DEF WalkOf, Closing
    <3>3. VisitedTools' = VisitedTools
      <4>1. OwnTools(xSeen \cap DOMAIN xSets)' = OwnTools(xSeen \cap DOMAIN xSets)
        BY <2>1, <2>2, SameTools
      <4> QED
        BY <2>2, <4>1 DEF VisitedTools
    <3>4. ToolsOfAll(xAsked \ (xLeft \cup {n}))' = ToolsOfAll(xAsked \ (xLeft \cup {n}))
      BY <2>1, <2>2, SameTools
    <3>5. xOut' = ToolsOfAll(xAsked \ (xLeft \cup {n}))' \cup VisitedTools'
      BY <2>2, <3>1, <3>3, <3>4
    <3> QED
      BY <2>2, <2>3, <3>2, <3>5 DEF ToolsetInv, WalkInv
  <2> QED
    BY <2>4, <2>5
<1> QED
  BY <1>1, <1>2, <1>3, <1>4, <1>5, <1>6, PassOverStep, VisitToolStep, VisitBundleStep,
     WalkNameStep DEF ToolsetNext

\* When every name has been walked through the property holds.
LEMMA ResolvedIs == ToolsetInv => ResolveIsReachable
<1> SUFFICES ASSUME ToolsetInv, Resolved
             PROVE  xOut = (UNION {ToolsUnder(n) : n \in xAsked \cap DOMAIN xSets})
                             \cup ((xAsked \ DOMAIN xSets) \cap Dotted)
  BY DEF ResolveIsReachable
<1>1. xLeft = {} /\ xCalls = <<>>
  BY DEF Resolved
<1>2. xOut = ToolsOfAll(xAsked)
  <2>1. xAsked \ xLeft = xAsked
    BY <1>1
  <2> QED
    BY <1>1, <2>1, BetweenWalks
<1>3. ASSUME NEW e
      PROVE  e \in xOut <=> \/ \E n \in xAsked \cap DOMAIN xSets : e \in ToolsUnder(n)
                            \/ e \in (xAsked \ DOMAIN xSets) \cap Dotted
  <2>1. e \in xOut <=> \E n \in xAsked : e \in ToolsOf(n)
    BY <1>2, ToolsOfAllIs
  <2>2. \A n \in xAsked \cap DOMAIN xSets : e \in ToolsOf(n) <=> e \in ToolsUnder(n)
    BY DEF ToolsOf, OwnTools, ToolsUnder
  <2>3. \A n \in xAsked \ DOMAIN xSets : e \in ToolsOf(n) <=> e = n /\ n \in Dotted
    BY DEF ToolsOf
  <2> QED
    BY <2>1, <2>2, <2>3
<1>4. PICK found : found = UNION {ToolsUnder(n) : n \in xAsked \cap DOMAIN xSets}
  OBVIOUS
<1>5. \A e : e \in found <=> \E n \in xAsked \cap DOMAIN xSets : e \in ToolsUnder(n)
  BY <1>4
<1>6. xOut = found \cup ((xAsked \ DOMAIN xSets) \cap Dotted)
  BY <1>3, <1>5
<1> QED
  BY <1>4, <1>6

(***************************************************************************)
(* resolve_toolset finds exactly the tools of the bundles that the names   *)
(* lead to, for any bundles, cycles among them, and any number of names.   *)
(***************************************************************************)
THEOREM ResolvesWhatIsReachable == ToolsetSpec => []ResolveIsReachable
<1>1. ToolsetSpec => []ToolsetInv
  BY ToolsetStarts, ToolsetStep, PTL DEF ToolsetSpec
<1> QED
  BY <1>1, ResolvedIs, PTL
=============================================================================
