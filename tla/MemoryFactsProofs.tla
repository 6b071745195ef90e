-------------------------- MODULE MemoryFactsProofs --------------------------
(***************************************************************************)
(* What is remembered, for any number of clients, tasks and operations.    *)
(* With approval required, the facts that are injected have been approved, *)
(* though operations overlap and fail; operations one after another leave  *)
(* what they would as single steps; and a knowledge base loses no word of  *)
(* what was ingested into it, however the document is cut.                 *)
(***************************************************************************)
EXTENDS MemoryFacts, RagIndex, SequenceTheorems, WellFoundedInduction, TLAPS

Keys == FactKeys \cup {"none"}
Values == FactValues \cup {"none"}
FactRecords == [key : Keys, value : Values]
Steps == [do : {"load", "need", "take", "put", "cut"}, store : Stores]
Operations == [todo : Seq(Steps), key : Keys, value : Values, view : Seq(FactRecords)]

MemoryTypeOK ==
    /\ mReady \in BOOLEAN /\ mApproval \in BOOLEAN
    /\ mStore \in [Stores -> Seq(FactRecords)]
    /\ mOp \in [Clients -> Operations]

\* The operations begin after the configuration.
NotBefore ==
    ~mReady => mStore["live"] = <<>> /\ \A c \in Clients : mOp[c] = NoOp

SavesLive(step) == step.store = "live" /\ step.do \in {"put", "cut"}

\* What is about to be saved in the live store was read from there, or is so next; and
\* the fact to be put there is approved, or is taken from the proposals first.
Prepared(op, facts) ==
    \A i \in 1 .. Len(op.todo) :
        /\ op.todo[i].do = "take" => i = 1
        /\ SavesLive(op.todo[i]) =>
              IF i = 1 THEN ToSet(op.view) \subseteq facts
              ELSE op.todo[i - 1].store = "live" /\ op.todo[i - 1].do \in {"load", "need"}
        /\ (SavesLive(op.todo[i]) /\ op.todo[i].do = "put") =>
              Fact(op.key, op.value) \in facts \/ op.todo[1].do = "take"

\* A key is taken out of a record that was found to have it.
Found(op) ==
    \A i \in 1 .. Len(op.todo) :
        op.todo[i].do = "cut" =>
            IF i = 1 THEN Has(op.view, op.key) ELSE op.todo[i - 1].do = "need"

MemoryInv ==
    /\ MemoryTypeOK /\ NotBefore
    /\ \A c \in Clients : Found(mOp[c])
    /\ mApproval => /\ ToSet(mStore["live"]) \subseteq mApproved
                    /\ \A c \in Clients : Prepared(mOp[c], mApproved)

-----------------------------------------------------------------------------
(***************************************************************************)
(* Records.                                                                *)
(***************************************************************************)
LEMMA RecordElements ==
    ASSUME NEW record \in Seq(FactRecords)
    PROVE  /\ \A i \in 1 .. Len(record) : record[i] \in FactRecords
           /\ DOMAIN record = 1 .. Len(record) /\ Len(record) \in Nat
           /\ \A i \in 1 .. Len(record) : record[i] \in ToSet(record)
BY LenProperties DEF ToSet

LEMMA ElementsIn ==
    ASSUME NEW record \in Seq(FactRecords), NEW S,
           \A i \in 1 .. Len(record) : record[i] \in S
    PROVE  ToSet(record) \subseteq S
BY LenProperties DEF ToSet

LEMMA FoundAt ==
    ASSUME NEW record \in Seq(FactRecords), NEW k, Has(record, k)
    PROVE  /\ Position(record, k) \in 1 .. Len(record)
           /\ record[Position(record, k)].key = k
BY RecordElements DEF Has, Position

\* merge_entities adds the one fact.
LEMMA MergedFacts ==
    ASSUME NEW record \in Seq(FactRecords), NEW k \in Keys, NEW v \in Values
    PROVE  /\ Merged(record, k, v) \in Seq(FactRecords)
           /\ ToSet(Merged(record, k, v)) \subseteq ToSet(record) \cup {Fact(k, v)}
<1>1. Fact(k, v) \in FactRecords
    BY DEF Fact, FactRecords
<1>2. CASE Has(record, k)
  <2> DEFINE put == [i \in DOMAIN record |->
                        IF record[i].key = k THEN Fact(k, v) ELSE record[i]]
  <2>1. DOMAIN record = 1 .. Len(record) /\ Len(record) \in Nat
      BY RecordElements
  <2>2. put \in [1 .. Len(record) -> FactRecords]
      BY <1>1, <2>1, RecordElements
  <2>3. put \in Seq(FactRecords)
      BY <2>1, <2>2, SeqDef
  <2>4. ToSet(put) \subseteq ToSet(record) \cup {Fact(k, v)}
      BY <2>1 DEF ToSet
  <2> QED
      BY <1>2, <2>3, <2>4 DEF Merged
<1>3. CASE ~Has(record, k)
  <2>1. /\ Append(record, Fact(k, v)) \in Seq(FactRecords)
        /\ Len(Append(record, Fact(k, v))) = Len(record) + 1
        /\ \A i \in 1 .. Len(record) : Append(record, Fact(k, v))[i] = record[i]
        /\ Append(record, Fact(k, v))[Len(record) + 1] = Fact(k, v)
      BY <1>1, AppendProperties
  <2>2. \A i \in 1 .. Len(Append(record, Fact(k, v))) :
            Append(record, Fact(k, v))[i] \in ToSet(record) \cup {Fact(k, v)}
    <3>1. ASSUME NEW i \in 1 .. Len(record) + 1
          PROVE  i \in 1 .. Len(record) \/ i = Len(record) + 1
        BY RecordElements
    <3> QED
        BY <2>1, <3>1, RecordElements
  <2>3. ToSet(Append(record, Fact(k, v))) \subseteq ToSet(record) \cup {Fact(k, v)}
      BY <2>1, <2>2, ElementsIn
  <2> QED
      BY <1>3, <2>1, <2>3 DEF Merged
<1> QED
    BY <1>2, <1>3

\* _cap_entities adds nothing.
LEMMA CapFacts ==
    ASSUME NEW record \in Seq(FactRecords)
    PROVE  /\ Cap(record) \in Seq(FactRecords)
           /\ ToSet(Cap(record)) \subseteq ToSet(record)
<1>1. CASE Len(record) <= MaxEntities
    BY <1>1 DEF Cap
<1>2. CASE ~(Len(record) <= MaxEntities)
  <2> DEFINE from == Len(record) - MaxEntities + 1
  <2>1. from \in Int /\ from > 1 /\ from <= Len(record) /\ Len(record) \in Nat
      BY <1>2, MemoryAssumption, RecordElements
  <2>2. \A i \in from .. Len(record) : record[i] \in FactRecords
      BY <2>1, RecordElements
  <2> HIDE DEF from
  <2>3. /\ SubSeq(record, from, Len(record)) \in Seq(FactRecords)
        /\ Len(SubSeq(record, from, Len(record))) = Len(record) - from + 1
        /\ \A i \in 1 .. Len(record) - from + 1 :
              SubSeq(record, from, Len(record))[i] = record[from + i - 1]
      BY <2>1, <2>2, SubSeqProperties
  <2>4. \A i \in 1 .. Len(record) - from + 1 : from + i - 1 \in 1 .. Len(record)
      BY <2>1
  <2>5. \A i \in 1 .. Len(SubSeq(record, from, Len(record))) :
            SubSeq(record, from, Len(record))[i] \in ToSet(record)
      BY <2>3, <2>4, RecordElements
  <2>6. ToSet(SubSeq(record, from, Len(record))) \subseteq ToSet(record)
      BY <2>3, <2>5, ElementsIn
  <2> QED
      BY <1>2, <2>3, <2>6 DEF Cap, from
<1> QED
    BY <1>1, <1>2

\* pop(key) leaves the others where they are.
LEMMA WithoutAt ==
    ASSUME NEW record \in Seq(FactRecords), NEW k, Has(record, k)
    PROVE  /\ Without(record, k) \in Seq(FactRecords)
           /\ Len(Without(record, k)) = Len(record) - 1
           /\ \A i \in 1 .. Len(record) - 1 :
                 /\ i < Position(record, k) => Without(record, k)[i] = record[i]
                 /\ i >= Position(record, k) => Without(record, k)[i] = record[i + 1]
<1> DEFINE at == Position(record, k)
           left == SubSeq(record, 1, at - 1)
           right == SubSeq(record, at + 1, Len(record))
<1>1. at \in 1 .. Len(record) /\ Len(record) \in Nat
    BY FoundAt, RecordElements
<1> HIDE DEF at
<1>2. /\ left \in Seq(FactRecords) /\ Len(left) = at - 1
      /\ \A i \in 1 .. at - 1 : left[i] = record[i]
    BY <1>1, RecordElements, SubSeqProperties
<1>3. /\ right \in Seq(FactRecords) /\ Len(right) = Len(record) - at
      /\ \A i \in 1 .. Len(record) - at : right[i] = record[at + i]
    BY <1>1, RecordElements, SubSeqProperties
<1> HIDE DEF left, right
<1>4. /\ left \o right \in Seq(FactRecords)
      /\ Len(left \o right) = Len(left) + Len(right)
      /\ \A i \in 1 .. Len(left) + Len(right) :
            (left \o right)[i] = IF i <= Len(left) THEN left[i] ELSE right[i - Len(left)]
    BY <1>2, <1>3, ConcatProperties
<1>5. Len(left) + Len(right) = Len(record) - 1
    BY <1>1, <1>2, <1>3
<1>6. ASSUME NEW i \in 1 .. Len(record) - 1
      PROVE  /\ i < at => (left \o right)[i] = record[i]
             /\ i >= at => (left \o right)[i] = record[i + 1]
  <2>1. (left \o right)[i] = IF i <= Len(left) THEN left[i] ELSE right[i - Len(left)]
      BY <1>4, <1>5
  <2>2. CASE i < at
    <3>1. i \in 1 .. at - 1 /\ i <= Len(left)
        BY <1>1, <1>2, <2>2
    <3>2. left[i] = record[i] /\ ~(i >= at)
        BY <1>1, <1>2, <2>2, <3>1
    <3>3. (left \o right)[i] = left[i]
        BY <2>1, <3>1
    <3> QED
        BY <3>2, <3>3
  <2>3. CASE i >= at
    <3>1. /\ i - Len(left) \in 1 .. Len(record) - at /\ ~(i <= Len(left))
          /\ at + (i - Len(left)) = i + 1
        BY <1>1, <1>2, <2>3
    <3>2. right[i - Len(left)] = record[at + (i - Len(left))]
        BY <1>3, <3>1
    <3> QED
        BY <1>1, <2>1, <2>3, <3>1, <3>2
  <2> QED
      BY <1>1, <2>2, <2>3
<1> QED
    BY <1>4, <1>5, <1>6 DEF Without, RemoveAt, at, left, right

\* It adds nothing.
LEMMA WithoutFacts ==
    ASSUME NEW record \in Seq(FactRecords), NEW k, Has(record, k)
    PROVE  /\ Without(record, k) \in Seq(FactRecords)
           /\ ToSet(Without(record, k)) \subseteq ToSet(record)
<1> DEFINE out == Without(record, k)
<1>1. Len(record) \in Nat /\ Position(record, k) \in 1 .. Len(record)
    BY FoundAt, RecordElements
<1>2. /\ out \in Seq(FactRecords) /\ Len(out) = Len(record) - 1
      /\ \A i \in 1 .. Len(record) - 1 : out[i] = record[i] \/ out[i] = record[i + 1]
    BY <1>1, WithoutAt
<1> HIDE DEF out
<1>3. \A i \in 1 .. Len(record) - 1 : i \in 1 .. Len(record) /\ i + 1 \in 1 .. Len(record)
    BY <1>1
<1>4. \A i \in 1 .. Len(out) : out[i] \in ToSet(record)
    BY <1>2, <1>3, RecordElements
<1>5. ToSet(out) \subseteq ToSet(record)
    BY <1>2, <1>4, ElementsIn
<1> QED
    BY <1>2, <1>5 DEF out

\* No key twice: a record is the set of its facts.
NoTwice(record) ==
    \A i, j \in 1 .. Len(record) : record[i].key = record[j].key => i = j

LEMMA MergedSet ==
    ASSUME NEW record \in Seq(FactRecords), NoTwice(record), NEW k \in Keys, NEW v \in Values
    PROVE  /\ NoTwice(Merged(record, k, v))
           /\ ToSet(Merged(record, k, v)) = Set(ToSet(record), k, v)
<1>1. PICK fact : fact = Fact(k, v)
    OBVIOUS
<1>2. fact \in FactRecords /\ fact.key = k
    BY <1>1 DEF Fact, FactRecords
<1>3. DOMAIN record = 1 .. Len(record) /\ Len(record) \in Nat
    BY RecordElements
<1>4. CASE Has(record, k)
  <2>1. PICK put : put = [i \in DOMAIN record |-> IF record[i].key = k THEN fact ELSE record[i]]
      OBVIOUS
  <2>2. Merged(record, k, v) = put
      BY <1>1, <1>4, <2>1 DEF Merged
  <2>3. /\ DOMAIN put = 1 .. Len(record)
        /\ \A i \in 1 .. Len(record) :
              put[i] = (IF record[i].key = k THEN fact ELSE record[i])
      BY <1>3, <2>1
  <2>4. Len(put) = Len(record)
    <3>1. put \in Seq(FactRecords)
        BY <2>2, MergedFacts
    <3> QED
        BY <1>3, <2>3, <3>1, LenProperties
  <2>5. \A i \in 1 .. Len(record) : put[i].key = record[i].key
      BY <1>2, <2>3
  <2>6. NoTwice(put)
      BY <2>4, <2>5 DEF NoTwice
  <2>7. ToSet(put) = Set(ToSet(record), k, v)
    <3>1. PICK at \in 1 .. Len(record) : record[at].key = k
        BY <1>3, <1>4 DEF Has
    <3>2. fact \in ToSet(put)
        BY <2>3, <3>1 DEF ToSet
    <3>3. ASSUME NEW f \in ToSet(record), f.key # k
          PROVE  f \in ToSet(put)
        BY <1>3, <2>3, <3>3 DEF ToSet
    <3>4. ASSUME NEW f \in ToSet(put)
          PROVE  f = fact \/ (f \in ToSet(record) /\ f.key # k)
        BY <1>3, <2>3, <3>4 DEF ToSet
    <3> QED
        BY <1>1, <3>2, <3>3, <3>4 DEF Set
  <2> QED
      BY <2>2, <2>6, <2>7
<1>5. CASE ~Has(record, k)
  <2>1. PICK put : put = Append(record, fact)
      OBVIOUS
  <2>2. Merged(record, k, v) = put
      BY <1>1, <1>5, <2>1 DEF Merged
  <2>3. /\ put \in Seq(FactRecords) /\ Len(put) = Len(record) + 1
        /\ \A i \in 1 .. Len(record) : put[i] = record[i] /\ record[i].key # k
        /\ put[Len(record) + 1] = fact
        /\ \A i \in 1 .. Len(record) + 1 : i \in 1 .. Len(record) \/ i = Len(record) + 1
      BY <1>2, <1>3, <1>5, <2>1 DEF Has
  <2>4. NoTwice(put)
      BY <1>2, <2>3 DEF NoTwice
  <2>5. ToSet(put) = Set(ToSet(record), k, v)
    <3>1. DOMAIN put = 1 .. Len(record) + 1
        BY <2>3, RecordElements
    <3>2. fact \in ToSet(put)
      <4>1. Len(record) + 1 \in 1 .. Len(record) + 1
          BY <1>3
      <4> QED
          BY <2>3, <3>1, <4>1 DEF ToSet
    <3>3. ASSUME NEW f \in ToSet(record)
          PROVE  f \in ToSet(put) /\ f.key # k
      <4>1. PICK i \in 1 .. Len(record) : f = record[i]
          BY <1>3, <3>3 DEF ToSet
      <4>2. i \in 1 .. Len(record) + 1
          BY <1>3
      <4> QED
          BY <2>3, <3>1, <4>1, <4>2 DEF ToSet
    <3>4. ASSUME NEW f \in ToSet(put)
          PROVE  f = fact \/ f \in ToSet(record)
      <4>1. PICK i \in 1 .. Len(record) + 1 : f = put[i]
          BY <3>1, <3>4 DEF ToSet
      <4> QED
          BY <1>3, <2>3, <4>1, RecordElements
    <3> QED
        BY <1>1, <3>2, <3>3, <3>4 DEF Set
  <2> QED
      BY <2>2, <2>4, <2>5
<1> QED
    BY <1>4, <1>5

LEMMA WithoutSet ==
    ASSUME NEW record \in Seq(FactRecords), NoTwice(record), NEW k, Has(record, k)
    PROVE  /\ NoTwice(Without(record, k))
           /\ ToSet(Without(record, k)) = Drop(ToSet(record), k)
<1>1. PICK at, out : at = Position(record, k) /\ out = Without(record, k)
    OBVIOUS
<1>2. /\ at \in 1 .. Len(record) /\ record[at].key = k /\ Len(record) \in Nat
      /\ DOMAIN record = 1 .. Len(record)
    BY <1>1, FoundAt, RecordElements
<1>3. /\ out \in Seq(FactRecords) /\ Len(out) = Len(record) - 1
      /\ \A i \in 1 .. Len(record) - 1 :
            (i < at => out[i] = record[i]) /\ (i >= at => out[i] = record[i + 1])
    BY <1>1, WithoutAt
<1>4. DOMAIN out = 1 .. Len(record) - 1
    BY <1>3, RecordElements
\* The place in the record of what is at place i without the key.
<1> DEFINE Old(i) == IF i < at THEN i ELSE i + 1
<1>5. ASSUME NEW i \in 1 .. Len(record) - 1
      PROVE  out[i] = record[Old(i)] /\ Old(i) \in 1 .. Len(record) /\ Old(i) # at
    BY <1>2, <1>3
<1>6. NoTwice(out)
  <2> SUFFICES ASSUME NEW i \in 1 .. Len(record) - 1, NEW j \in 1 .. Len(record) - 1,
                      out[i].key = out[j].key
               PROVE  i = j
      BY <1>3 DEF NoTwice
  <2>1. out[i].key = out[j].key
      OBVIOUS
  <2>2. Old(i) = Old(j)
    <3> HIDE DEF Old
    <3>1. /\ out[i] = record[Old(i)] /\ Old(i) \in 1 .. Len(record)
          /\ out[j] = record[Old(j)] /\ Old(j) \in 1 .. Len(record)
        BY <1>5
    <3>2. PICK a, b \in 1 .. Len(record) : a = Old(i) /\ b = Old(j)
        BY <3>1
    <3>3. record[a].key = record[b].key
        BY <2>1, <3>1, <3>2
    <3> QED
        BY <3>2, <3>3 DEF NoTwice
  <2> QED
      BY <1>2, <2>2
<1>7. ASSUME NEW f \in ToSet(out)
      PROVE  f \in ToSet(record) /\ f.key # k
  <2>1. PICK i \in 1 .. Len(record) - 1 : f = out[i]
      BY <1>4, <1>7 DEF ToSet
  <2> HIDE DEF Old
  <2>2. f = record[Old(i)] /\ Old(i) \in 1 .. Len(record) /\ Old(i) # at
      BY <1>5, <2>1
  <2> QED
      BY <1>2, <2>2, RecordElements DEF NoTwice
<1>8. ASSUME NEW f \in ToSet(record), f.key # k
      PROVE  f \in ToSet(out)
  <2>1. PICK j \in 1 .. Len(record) : f = record[j]
      BY <1>2, <1>8 DEF ToSet
  <2>2. j # at
      BY <1>2, <1>8, <2>1
  <2>3. CASE j < at
    <3>1. j \in 1 .. Len(record) - 1
        BY <1>2, <2>3
    <3> QED
        BY <1>3, <1>4, <2>1, <2>3, <3>1 DEF ToSet
  <2>4. CASE j > at
    <3>1. j - 1 \in 1 .. Len(record) - 1 /\ j - 1 >= at /\ (j - 1) + 1 = j
        BY <1>2, <2>4
    <3>2. out[j - 1] = record[j]
        BY <1>3, <3>1
    <3> QED
        BY <1>4, <2>1, <3>1, <3>2 DEF ToSet
  <2> QED
      BY <1>2, <2>2, <2>3, <2>4
<1> QED
    BY <1>1, <1>6, <1>7, <1>8 DEF Drop

\* The facts that have the key: the one, or none.
LEMMA WithKey ==
    ASSUME NEW record \in Seq(FactRecords), NoTwice(record), NEW k
    PROVE  /\ Has(record, k) => /\ \E f \in ToSet(record) : f.key = k
                                /\ {f \in ToSet(record) : f.key = k}
                                      = {Fact(k, ValueOf(record, k))}
           /\ ~Has(record, k) => /\ {f \in ToSet(record) : f.key = k} = {}
                                 /\ Drop(ToSet(record), k) = ToSet(record)
<1>1. Len(record) \in Nat /\ DOMAIN record = 1 .. Len(record)
    BY RecordElements
<1>2. CASE Has(record, k)
  <2>1. PICK at : at = Position(record, k)
      OBVIOUS
  <2>2. at \in 1 .. Len(record) /\ record[at].key = k /\ record[at] \in FactRecords
      BY <1>2, <2>1, FoundAt, RecordElements
  <2>3. record[at] = Fact(k, ValueOf(record, k))
      BY <2>1, <2>2 DEF Fact, ValueOf, FactRecords
  <2>4. record[at] \in ToSet(record)
      BY <2>2, RecordElements
  <2>5. ASSUME NEW f \in ToSet(record), f.key = k
        PROVE  f = record[at]
    <3>1. PICK i \in 1 .. Len(record) : f = record[i]
        BY <1>1, <2>5 DEF ToSet
    <3> QED
        BY <2>2, <2>5, <3>1 DEF NoTwice
  <2> QED
      BY <1>2, <2>2, <2>3, <2>4, <2>5
<1>3. CASE ~Has(record, k)
  <2>1. \A f \in ToSet(record) : f.key # k
      BY <1>1, <1>3 DEF Has, ToSet
  <2> QED
      BY <1>3, <2>1 DEF Drop
<1> QED
    BY <1>2, <1>3

-----------------------------------------------------------------------------
(***************************************************************************)
(* The operations, step by step.                                           *)
(***************************************************************************)
LEMMA DoIsStep ==
    \A do \in {"load", "need", "take", "put", "cut"}, store \in Stores : Do(do, store) \in Steps
BY DEF Do, Steps

LEMMA ThreeSteps ==
    ASSUME NEW a \in Steps, NEW b \in Steps, NEW c \in Steps
    PROVE  <<a>> \o <<b, c>> = <<a, b, c>>
<1>1. <<a>> \in Seq(Steps) /\ <<b, c>> \in Seq(Steps) /\ <<a, b, c>> \in Seq(Steps)
    OBVIOUS
<1>2. /\ Len(<<a>> \o <<b, c>>) = 3
      /\ \A i \in 1 .. 3 :
            (<<a>> \o <<b, c>>)[i] = IF i <= 1 THEN <<a>>[i] ELSE <<b, c>>[i - 1]
      /\ <<a>> \o <<b, c>> \in Seq(Steps)
    BY <1>1, ConcatProperties
<1>3. \A i \in 1 .. 3 : (<<a>> \o <<b, c>>)[i] = <<a, b, c>>[i]
  <2>1. /\ (<<a>> \o <<b, c>>)[1] = a
        /\ (<<a>> \o <<b, c>>)[2] = b
        /\ (<<a>> \o <<b, c>>)[3] = c
      BY <1>2
  <2> QED
      BY <2>1
<1> QED
    BY <1>1, <1>2, <1>3, SeqEqual

LEMMA FiveSteps ==
    ASSUME NEW a \in Steps, NEW b \in Steps, NEW c \in Steps, NEW d \in Steps, NEW e \in Steps
    PROVE  <<a, b, c>> \o <<d, e>> = <<a, b, c, d, e>>
<1>1. /\ <<a, b, c>> \in Seq(Steps) /\ <<d, e>> \in Seq(Steps)
      /\ <<a, b, c, d, e>> \in Seq(Steps)
    OBVIOUS
<1>2. /\ Len(<<a, b, c>> \o <<d, e>>) = 5
      /\ \A i \in 1 .. 5 :
            (<<a, b, c>> \o <<d, e>>)[i] = IF i <= 3 THEN <<a, b, c>>[i] ELSE <<d, e>>[i - 3]
      /\ <<a, b, c>> \o <<d, e>> \in Seq(Steps)
    BY <1>1, ConcatProperties
<1>3. \A i \in 1 .. 5 : (<<a, b, c>> \o <<d, e>>)[i] = <<a, b, c, d, e>>[i]
  <2>1. /\ (<<a, b, c>> \o <<d, e>>)[1] = a
        /\ (<<a, b, c>> \o <<d, e>>)[2] = b
        /\ (<<a, b, c>> \o <<d, e>>)[3] = c
        /\ (<<a, b, c>> \o <<d, e>>)[4] = d
        /\ (<<a, b, c>> \o <<d, e>>)[5] = e
      BY <1>2
  <2> QED
      BY <2>1
<1> QED
    BY <1>1, <1>2, <1>3, SeqEqual

LEMMA ApproveSteps ==
    Approve = <<Do("take", "pending"), Do("load", "live"), Do("put", "live"),
                Do("need", "pending"), Do("cut", "pending")>>
<1>1. <<Do("take", "pending")>> \o <<Do("load", "live"), Do("put", "live")>>
        = <<Do("take", "pending"), Do("load", "live"), Do("put", "live")>>
    BY DoIsStep, ThreeSteps DEF Stores
<1>2. <<Do("take", "pending"), Do("load", "live"), Do("put", "live")>>
            \o <<Do("need", "pending"), Do("cut", "pending")>>
        = <<Do("take", "pending"), Do("load", "live"), Do("put", "live"),
            Do("need", "pending"), Do("cut", "pending")>>
  <2>1. /\ Do("take", "pending") \in Steps /\ Do("load", "live") \in Steps
        /\ Do("put", "live") \in Steps /\ Do("need", "pending") \in Steps
        /\ Do("cut", "pending") \in Steps
      BY DoIsStep DEF Stores
  <2> QED
      BY <2>1, FiveSteps
<1> QED
    BY <1>1, <1>2 DEF Approve, Merge, Delete

LEMMA RejectSteps ==
    Reject = <<Do("need", "pending"), Do("need", "pending"), Do("cut", "pending")>>
BY DoIsStep, ThreeSteps DEF Reject, Delete, Stores

LEMMA EditSteps ==
    Edit = <<Do("need", "pending"), Do("load", "pending"), Do("put", "pending")>>
BY DoIsStep, ThreeSteps DEF Edit, Merge, Stores

\* An operation at its start.
Fresh(todo, k, v) == [todo |-> todo, key |-> k, value |-> v, view |-> <<>>]

\* Every operation is prepared and looks before it cuts.
Sound(todo) ==
    /\ todo \in Seq(Steps)
    /\ \A k \in Keys, v \in Values :
          /\ Found(Fresh(todo, k, v))
          /\ mApproval => Prepared(Fresh(todo, k, v), mApproved)

LEMMA WriteSound == Sound(Write)
<1>1. PICK store \in Stores : store = WriteTarget("live") /\ (mApproval => store = "pending")
    BY DEF WriteTarget, Stores
<1>2. Write = <<Do("load", store), Do("put", store)>>
    BY <1>1 DEF Write, Merge
<1> QED
    BY <1>1, <1>2 DEF Do, Sound, Steps, Stores, Fresh, Found, Prepared, SavesLive

LEMMA RemoveSound == Sound(Delete("live"))
<1>1. ToSet(<<>>) \subseteq mApproved
    BY DEF ToSet
<1> QED
    BY <1>1 DEF Delete, Do, Sound, Steps, Stores, Fresh, Found, Prepared, SavesLive

LEMMA ApproveSound == Sound(Approve)
BY ApproveSteps DEF Do, Sound, Steps, Stores, Fresh, Found, Prepared, SavesLive

LEMMA RejectSound == Sound(Reject)
BY RejectSteps DEF Do, Sound, Steps, Stores, Fresh, Found, Prepared, SavesLive

LEMMA EditSound == Sound(Edit)
BY EditSteps DEF Do, Sound, Steps, Stores, Fresh, Found, Prepared, SavesLive

LEMMA OpKeeps ==
    ASSUME MemoryInv, NEW c \in Clients, NEW todo, Sound(todo),
           NEW k \in Keys, NEW v \in Values, MemoryOp(c, todo, k, v)
    PROVE  MemoryInv'
<1>1. /\ mReady
      /\ mOp' = [mOp EXCEPT ![c] = Fresh(todo, k, v)]
      /\ UNCHANGED <<mReady, mApproval, mStore, mApproved>>
    BY DEF MemoryOp, Fresh
<1>2. Fresh(todo, k, v) \in Operations
    BY DEF Sound, Fresh, Operations
<1>3. /\ mOp' \in [Clients -> Operations]
      /\ \A d \in Clients : mOp'[d] = IF d = c THEN Fresh(todo, k, v) ELSE mOp[d]
    BY <1>1, <1>2 DEF MemoryInv, MemoryTypeOK
<1>4. /\ Found(Fresh(todo, k, v))
      /\ mApproval => Prepared(Fresh(todo, k, v), mApproved)
    BY DEF Sound
<1>5. MemoryTypeOK' /\ NotBefore'
    BY <1>1, <1>3 DEF MemoryInv, MemoryTypeOK, NotBefore
<1> QED
    BY <1>1, <1>3, <1>4, <1>5 DEF MemoryInv

\* What the preparation says of a step that is not the first.
LEMMA LaterStep ==
    ASSUME NEW op, NEW i \in Nat \ {0}, i + 1 \in 1 .. Len(op.todo)
    PROVE  /\ Found(op) => (op.todo[i + 1].do = "cut" => op.todo[i].do = "need")
           /\ \A facts : Prepared(op, facts) =>
                 /\ op.todo[i + 1].do # "take"
                 /\ SavesLive(op.todo[i + 1]) =>
                       op.todo[i].store = "live" /\ op.todo[i].do \in {"load", "need"}
                 /\ (SavesLive(op.todo[i + 1]) /\ op.todo[i + 1].do = "put") =>
                       Fact(op.key, op.value) \in facts \/ op.todo[1].do = "take"
<1> DEFINE j == i + 1
<1>1. j \in 1 .. Len(op.todo) /\ j # 1 /\ j - 1 = i
    OBVIOUS
<1> HIDE DEF j
<1>2. Found(op) => (op.todo[j].do = "cut" => op.todo[i].do = "need")
    BY <1>1 DEF Found
<1>3. ASSUME NEW facts, Prepared(op, facts)
      PROVE  /\ op.todo[j].do # "take"
             /\ SavesLive(op.todo[j]) =>
                   op.todo[i].store = "live" /\ op.todo[i].do \in {"load", "need"}
             /\ (SavesLive(op.todo[j]) /\ op.todo[j].do = "put") =>
                   Fact(op.key, op.value) \in facts \/ op.todo[1].do = "take"
    BY <1>1, <1>3 DEF Prepared
<1> QED
    BY <1>2, <1>3 DEF j

\* What is left of an operation after a load.
LEMMA LoadedSound ==
    ASSUME NEW op \in Operations, op.todo # <<>>,
           Head(op.todo).do \in {"load", "need", "take"},
           NEW record \in Seq(FactRecords), NEW value \in Values,
           Head(op.todo).do # "load" => Has(record, op.key),
           Found(op)
    PROVE  /\ Loaded(op, record, value) \in Operations
           /\ Found(Loaded(op, record, value))
           /\ \A facts, more :
                 (/\ Prepared(op, facts) /\ facts \subseteq more
                  /\ Head(op.todo).store = "live" => ToSet(record) \subseteq more
                  /\ IF Head(op.todo).do = "take" THEN Fact(op.key, value) \in more
                                                  ELSE value = op.value)
                 => Prepared(Loaded(op, record, value), more)
<1> DEFINE next == Loaded(op, record, value)
<1>1. /\ op.todo \in Seq(Steps) /\ Len(op.todo) \in Nat /\ op.todo[1] = Head(op.todo)
      /\ next.todo \in Seq(Steps) /\ Len(next.todo) = Len(op.todo) - 1
      /\ \A i \in 1 .. Len(next.todo) : next.todo[i] = op.todo[i + 1]
    BY HeadTailProperties, LenProperties DEF Operations, Loaded
<1>2. next.key = op.key /\ next.value = value /\ next.view = record
    BY DEF Loaded
<1>3. next \in Operations
    BY <1>1 DEF Operations, Loaded
<1> HIDE DEF next
<1>4. ASSUME NEW i \in 1 .. Len(next.todo)
      PROVE  /\ i \in Nat \ {0} /\ i + 1 \in 1 .. Len(op.todo)
             /\ next.todo[i] = op.todo[i + 1]
             /\ i # 1 => i - 1 \in 1 .. Len(next.todo) /\ next.todo[i - 1] = op.todo[i]
  <2>1. i \in Nat \ {0} /\ i + 1 \in 1 .. Len(op.todo)
      BY <1>1
  <2>2. ASSUME i # 1
        PROVE  i - 1 \in 1 .. Len(next.todo) /\ (i - 1) + 1 = i
      BY <1>1, <2>1, <2>2
  <2> QED
      BY <1>1, <2>1, <2>2
<1>5. Found(next)
  <2> SUFFICES ASSUME NEW i \in 1 .. Len(next.todo), next.todo[i].do = "cut"
               PROVE  IF i = 1 THEN Has(next.view, next.key) ELSE next.todo[i - 1].do = "need"
      BY DEF Found
  <2>1. op.todo[i].do = "need"
    <3>1. i \in Nat \ {0} /\ i + 1 \in 1 .. Len(op.todo) /\ op.todo[i + 1].do = "cut"
        BY <1>4
    <3>2. op.todo[i + 1].do = "cut" => op.todo[i].do = "need"
        BY <3>1, LaterStep
    <3> QED
        BY <3>1, <3>2
  <2> QED
      BY <1>1, <1>2, <1>4, <2>1
<1>6. ASSUME NEW facts, NEW more, Prepared(op, facts), facts \subseteq more,
             Head(op.todo).store = "live" => ToSet(record) \subseteq more,
             IF Head(op.todo).do = "take" THEN Fact(op.key, value) \in more
                                          ELSE value = op.value
      PROVE  Prepared(next, more)
  <2> SUFFICES ASSUME NEW i \in 1 .. Len(next.todo)
               PROVE  /\ next.todo[i].do = "take" => i = 1
                      /\ SavesLive(next.todo[i]) =>
                            IF i = 1 THEN ToSet(next.view) \subseteq more
                            ELSE /\ next.todo[i - 1].store = "live"
                                 /\ next.todo[i - 1].do \in {"load", "need"}
                      /\ (SavesLive(next.todo[i]) /\ next.todo[i].do = "put") =>
                            Fact(next.key, next.value) \in more \/ next.todo[1].do = "take"
      BY DEF Prepared
  <2>1. /\ next.todo[i].do # "take"
        /\ SavesLive(next.todo[i]) =>
              op.todo[i].store = "live" /\ op.todo[i].do \in {"load", "need"}
        /\ (SavesLive(next.todo[i]) /\ next.todo[i].do = "put") =>
              Fact(op.key, op.value) \in facts \/ op.todo[1].do = "take"
    <3>1. /\ i \in Nat \ {0} /\ i + 1 \in 1 .. Len(op.todo)
          /\ next.todo[i] = op.todo[i + 1]
        BY <1>4
    <3>2. /\ op.todo[i + 1].do # "take"
          /\ SavesLive(op.todo[i + 1]) =>
                op.todo[i].store = "live" /\ op.todo[i].do \in {"load", "need"}
          /\ (SavesLive(op.todo[i + 1]) /\ op.todo[i + 1].do = "put") =>
                Fact(op.key, op.value) \in facts \/ op.todo[1].do = "take"
        BY <1>6, <3>1, LaterStep
    <3> QED
        BY <3>1, <3>2
  <2>2. ASSUME SavesLive(next.todo[i])
        PROVE  IF i = 1 THEN ToSet(next.view) \subseteq more
               ELSE next.todo[i - 1].store = "live" /\ next.todo[i - 1].do \in {"load", "need"}
    <3>1. CASE i = 1
      <4>1. Head(op.todo).store = "live"
          BY <1>1, <2>1, <2>2, <3>1
      <4> QED
          BY <1>2, <1>6, <3>1, <4>1
    <3>2. CASE i # 1
        BY <1>4, <2>1, <2>2, <3>2
    <3> QED
        BY <3>1, <3>2
  <2>3. ASSUME SavesLive(next.todo[i]), next.todo[i].do = "put"
        PROVE  Fact(next.key, next.value) \in more
    <3>1. CASE Head(op.todo).do = "take"
        BY <1>2, <1>6, <3>1
    <3>2. CASE Head(op.todo).do # "take"
      <4>1. value = op.value
          BY <1>6, <3>2
      <4>2. Fact(op.key, op.value) \in facts
          BY <1>1, <2>1, <2>3, <3>2
      <4> QED
          BY <1>2, <1>6, <4>1, <4>2
    <3> QED
        BY <3>1, <3>2
  <2> QED
      BY <2>1, <2>2, <2>3
<1> QED
    BY <1>3, <1>5, <1>6 DEF next

\* What is left of it after a save.
LEMMA SavedSound ==
    ASSUME NEW op \in Operations, op.todo # <<>>,
           Head(op.todo).do \in {"put", "cut"}, Found(op)
    PROVE  /\ [op EXCEPT !.todo = Tail(@)] \in Operations
           /\ Found([op EXCEPT !.todo = Tail(@)])
           /\ \A facts : Prepared(op, facts) => Prepared([op EXCEPT !.todo = Tail(@)], facts)
<1> DEFINE next == [op EXCEPT !.todo = Tail(@)]
<1>1. /\ op.todo \in Seq(Steps) /\ Len(op.todo) \in Nat /\ op.todo[1] = Head(op.todo)
      /\ next.todo \in Seq(Steps) /\ Len(next.todo) = Len(op.todo) - 1
      /\ \A i \in 1 .. Len(next.todo) : next.todo[i] = op.todo[i + 1]
    BY HeadTailProperties, LenProperties DEF Operations
<1>2. next \in Operations /\ next.key = op.key /\ next.value = op.value
    BY <1>1 DEF Operations
<1> HIDE DEF next
<1>3. ASSUME NEW i \in 1 .. Len(next.todo)
      PROVE  /\ i \in Nat \ {0} /\ i + 1 \in 1 .. Len(op.todo)
             /\ next.todo[i] = op.todo[i + 1]
             /\ i # 1 => i - 1 \in 1 .. Len(next.todo) /\ next.todo[i - 1] = op.todo[i]
  <2>1. i \in Nat \ {0} /\ i + 1 \in 1 .. Len(op.todo)
      BY <1>1
  <2>2. ASSUME i # 1
        PROVE  i - 1 \in 1 .. Len(next.todo) /\ (i - 1) + 1 = i
      BY <1>1, <2>1, <2>2
  <2> QED
      BY <1>1, <2>1, <2>2
<1>4. Found(next)
  <2> SUFFICES ASSUME NEW i \in 1 .. Len(next.todo), next.todo[i].do = "cut"
               PROVE  i # 1 /\ next.todo[i - 1].do = "need"
      BY DEF Found
  <2>1. op.todo[i].do = "need"
    <3>1. i \in Nat \ {0} /\ i + 1 \in 1 .. Len(op.todo) /\ op.todo[i + 1].do = "cut"
        BY <1>3
    <3>2. op.todo[i + 1].do = "cut" => op.todo[i].do = "need"
        BY <3>1, LaterStep
    <3> QED
        BY <3>1, <3>2
  <2> QED
      BY <1>1, <1>3, <2>1
<1>5. ASSUME NEW facts, Prepared(op, facts)
      PROVE  Prepared(next, facts)
  <2> SUFFICES ASSUME NEW i \in 1 .. Len(next.todo)
               PROVE  /\ next.todo[i].do # "take"
                      /\ SavesLive(next.todo[i]) =>
                            /\ i # 1
                            /\ next.todo[i - 1].store = "live"
                            /\ next.todo[i - 1].do \in {"load", "need"}
                      /\ (SavesLive(next.todo[i]) /\ next.todo[i].do = "put") =>
                            Fact(next.key, next.value) \in facts
      BY DEF Prepared
  <2>1. /\ next.todo[i].do # "take"
        /\ SavesLive(next.todo[i]) =>
              op.todo[i].store = "live" /\ op.todo[i].do \in {"load", "need"}
        /\ (SavesLive(next.todo[i]) /\ next.todo[i].do = "put") =>
              Fact(op.key, op.value) \in facts \/ op.todo[1].do = "take"
    <3>1. /\ i \in Nat \ {0} /\ i + 1 \in 1 .. Len(op.todo)
          /\ next.todo[i] = op.todo[i + 1]
        BY <1>3
    <3>2. /\ op.todo[i + 1].do # "take"
          /\ SavesLive(op.todo[i + 1]) =>
                op.todo[i].store = "live" /\ op.todo[i].do \in {"load", "need"}
          /\ (SavesLive(op.todo[i + 1]) /\ op.todo[i + 1].do = "put") =>
                Fact(op.key, op.value) \in facts \/ op.todo[1].do = "take"
        BY <1>5, <3>1, LaterStep
    <3> QED
        BY <3>1, <3>2
  <2>2. op.todo[1].do # "take" /\ op.todo[1].do \notin {"load", "need"}
      BY <1>1
  <2> QED
      BY <1>2, <1>3, <2>1, <2>2
<1> QED
    BY <1>2, <1>4, <1>5 DEF next

\* Nothing is left of an operation that is over.
LEMMA NoOpSound ==
    NoOp \in Operations /\ Found(NoOp) /\ \A facts : Prepared(NoOp, facts)
BY DEF NoOp, Operations, Keys, Values, Found, Prepared

\* More facts approved, the same preparation.
LEMMA PreparedMore ==
    ASSUME NEW op, NEW facts, NEW more, facts \subseteq more, Prepared(op, facts)
    PROVE  Prepared(op, more)
BY DEF Prepared

LEMMA LoadKeeps ==
    ASSUME MemoryInv, NEW c \in Clients, MemoryLoad(c)
    PROVE  MemoryInv'
<1> DEFINE op == mOp[c]
           step == Head(op.todo)
           record == mStore[step.store]
           taken == IF step.do = "take" THEN ValueOf(record, op.key) ELSE op.value
<1>1. /\ op \in Operations /\ op.todo # <<>> /\ step \in Steps
      /\ record \in Seq(FactRecords) /\ Found(op) /\ mReady
  <2>1. op \in Operations /\ op.todo # <<>> /\ Found(op)
      BY DEF MemoryInv, MemoryTypeOK, MemoryLoad, Busy
  <2>2. step \in Steps
      BY <2>1, HeadTailProperties DEF Operations
  <2>3. mReady
      BY <2>1 DEF MemoryInv, NotBefore, NoOp
  <2> QED
      BY <2>1, <2>2, <2>3 DEF MemoryInv, MemoryTypeOK, Steps
<1>2. /\ step.do \in {"load", "need", "take"}
      /\ UNCHANGED <<mReady, mApproval, mStore>>
      /\ \/ mOp' = [mOp EXCEPT ![c] = NoOp] /\ mApproved' = mApproved
         \/ /\ step.do # "load" => Has(record, op.key)
            /\ mOp' = [mOp EXCEPT ![c] = Loaded(op, record, taken)]
            /\ mApproved' = IF step.do = "take" THEN mApproved \cup {Fact(op.key, taken)}
                                               ELSE mApproved
    BY DEF MemoryLoad
<1>3. \/ taken \in Values /\ (step.do # "take" => taken = op.value)
      \/ step.do = "take" /\ ~Has(record, op.key)
  <2>1. ASSUME step.do = "take", Has(record, op.key)
        PROVE  taken \in Values
      BY <1>1, <2>1, FoundAt, RecordElements DEF FactRecords, ValueOf
  <2>2. op.value \in Values
      BY <1>1 DEF Operations
  <2> QED
      BY <2>1, <2>2
<1>4. step.store = "live" => record = mStore["live"]
    OBVIOUS
<1> HIDE DEF step, record, taken
<1>5. CASE mOp' = [mOp EXCEPT ![c] = NoOp] /\ mApproved' = mApproved
    BY <1>1, <1>2, <1>5, NoOpSound DEF MemoryInv, MemoryTypeOK, NotBefore
<1>6. CASE /\ step.do # "load" => Has(record, op.key)
           /\ mOp' = [mOp EXCEPT ![c] = Loaded(op, record, taken)]
           /\ mApproved' = IF step.do = "take" THEN mApproved \cup {Fact(op.key, taken)}
                                              ELSE mApproved
  <2>1. taken \in Values /\ (step.do # "take" => taken = op.value)
      BY <1>2, <1>3, <1>6
  <2>2. step = Head(op.todo)
      BY DEF step
  <2>3. /\ Loaded(op, record, taken) \in Operations
        /\ Found(Loaded(op, record, taken))
        /\ \A facts, more :
              (/\ Prepared(op, facts) /\ facts \subseteq more
               /\ step.store = "live" => ToSet(record) \subseteq more
               /\ IF step.do = "take" THEN Fact(op.key, taken) \in more
                                      ELSE taken = op.value)
              => Prepared(Loaded(op, record, taken), more)
      BY <1>1, <1>2, <1>6, <2>1, <2>2, LoadedSound
  <2>4. /\ mOp' \in [Clients -> Operations]
        /\ \A d \in Clients :
              mOp'[d] = IF d = c THEN Loaded(op, record, taken) ELSE mOp[d]
      BY <1>6, <2>3 DEF MemoryInv, MemoryTypeOK
  <2>5. MemoryTypeOK' /\ NotBefore'
      BY <1>1, <1>2, <2>4 DEF MemoryInv, MemoryTypeOK, NotBefore
  <2>6. \A d \in Clients : Found(mOp'[d])
      BY <2>3, <2>4 DEF MemoryInv
  <2>7. ASSUME mApproval
        PROVE  /\ ToSet(mStore'["live"]) \subseteq mApproved'
               /\ \A d \in Clients : Prepared(mOp'[d], mApproved')
    <3>1. mApproved \subseteq mApproved' /\ ToSet(mStore["live"]) \subseteq mApproved
        BY <1>6, <2>7 DEF MemoryInv
    <3>2. Prepared(op, mApproved)
        BY <2>7 DEF MemoryInv
    <3>3. step.store = "live" => ToSet(record) \subseteq mApproved'
        BY <1>4, <3>1
    <3>4. IF step.do = "take" THEN Fact(op.key, taken) \in mApproved' ELSE taken = op.value
        BY <1>6, <2>1
    <3>5. Prepared(Loaded(op, record, taken), mApproved')
        BY <2>3, <3>1, <3>2, <3>3, <3>4
    <3>6. \A d \in Clients : Prepared(mOp[d], mApproved')
        BY <2>7, <3>1, PreparedMore DEF MemoryInv
    <3> QED
        BY <1>2, <2>4, <3>1, <3>5, <3>6
  <2> QED
      BY <1>2, <2>5, <2>6, <2>7 DEF MemoryInv
<1> QED
    BY <1>2, <1>5, <1>6

LEMMA SaveKeeps ==
    ASSUME MemoryInv, NEW c \in Clients, MemorySave(c)
    PROVE  MemoryInv'
<1> DEFINE op == mOp[c]
           step == Head(op.todo)
           put == Merged(op.view, op.key, op.value)
           saved == IF step.do = "put" THEN Cap(put) ELSE Without(op.view, op.key)
           next == IF Len(op.todo) = 1 THEN NoOp ELSE [op EXCEPT !.todo = Tail(@)]
<1>1. /\ op \in Operations /\ op.todo # <<>> /\ step \in Steps
      /\ step = op.todo[1] /\ 1 \in 1 .. Len(op.todo)
      /\ Found(op) /\ mReady
  <2>1. op \in Operations /\ op.todo # <<>> /\ Found(op)
      BY DEF MemoryInv, MemoryTypeOK, MemorySave, Busy
  <2>2. step \in Steps /\ step = op.todo[1] /\ 1 \in 1 .. Len(op.todo)
      BY <2>1, HeadTailProperties, LenProperties DEF Operations
  <2>3. mReady
      BY <2>1 DEF MemoryInv, NotBefore, NoOp
  <2> QED
      BY <2>1, <2>2, <2>3
<1>2. /\ step.do \in {"put", "cut"}
      /\ mStore' = [mStore EXCEPT ![step.store] = saved]
      /\ mOp' = [mOp EXCEPT ![c] = next]
      /\ UNCHANGED <<mReady, mApproval, mApproved>>
    BY DEF MemorySave
<1>3. /\ next \in Operations /\ Found(next)
      /\ \A facts : Prepared(op, facts) => Prepared(next, facts)
    BY <1>1, <1>2, NoOpSound, SavedSound
<1>4. op.view \in Seq(FactRecords) /\ op.key \in Keys /\ op.value \in Values
    BY <1>1 DEF Operations
<1>5. /\ saved \in Seq(FactRecords)
      /\ ToSet(saved) \subseteq ToSet(op.view) \cup
            IF step.do = "put" THEN {Fact(op.key, op.value)} ELSE {}
  <2>1. CASE step.do = "put"
    <3>1. /\ put \in Seq(FactRecords)
          /\ ToSet(put) \subseteq ToSet(op.view) \cup {Fact(op.key, op.value)}
        BY <1>4, MergedFacts
    <3> HIDE DEF put
    <3>2. Cap(put) \in Seq(FactRecords) /\ ToSet(Cap(put)) \subseteq ToSet(put)
        BY <3>1, CapFacts
    <3> QED
        BY <2>1, <3>1, <3>2
  <2>2. CASE step.do = "cut"
    <3>1. Has(op.view, op.key)
        BY <1>1, <2>2 DEF Found
    <3> QED
        BY <1>4, <2>2, <3>1, WithoutFacts
  <2> QED
      BY <1>2, <2>1, <2>2
<1>6. ASSUME mApproval, step.store = "live"
      PROVE  ToSet(saved) \subseteq mApproved
  <2>1. Prepared(op, mApproved) /\ SavesLive(step)
      BY <1>2, <1>6 DEF MemoryInv, SavesLive
  <2>2. ToSet(op.view) \subseteq mApproved
      BY <1>1, <2>1 DEF Prepared
  <2>3. step.do = "put" => Fact(op.key, op.value) \in mApproved
      BY <1>1, <2>1 DEF Prepared
  <2> QED
      BY <1>5, <2>2, <2>3
<1> HIDE DEF saved, next
<1>7. /\ mStore' \in [Stores -> Seq(FactRecords)]
      /\ mStore'["live"] = IF step.store = "live" THEN saved ELSE mStore["live"]
    BY <1>1, <1>2, <1>5 DEF MemoryInv, MemoryTypeOK, Steps, Stores
<1>8. /\ mOp' \in [Clients -> Operations]
      /\ \A d \in Clients : mOp'[d] = IF d = c THEN next ELSE mOp[d]
    BY <1>2, <1>3 DEF MemoryInv, MemoryTypeOK
<1>9. MemoryTypeOK' /\ NotBefore'
    BY <1>1, <1>2, <1>7, <1>8 DEF MemoryInv, MemoryTypeOK, NotBefore
<1>10. \A d \in Clients : Found(mOp'[d])
    BY <1>3, <1>8 DEF MemoryInv
<1>11. ASSUME mApproval
       PROVE  /\ ToSet(mStore'["live"]) \subseteq mApproved
              /\ \A d \in Clients : Prepared(mOp'[d], mApproved)
    BY <1>3, <1>6, <1>7, <1>8, <1>11 DEF MemoryInv
<1> QED
    BY <1>2, <1>9, <1>10, <1>11 DEF MemoryInv

LEMMA MemoryInitially == MemoryInit => MemoryInv
<1> SUFFICES ASSUME MemoryInit
             PROVE  MemoryInv
    OBVIOUS
<1>1. /\ mReady = FALSE /\ mApproval = FALSE
      /\ mStore = [s \in Stores |-> <<>>] /\ mOp = [c \in Clients |-> NoOp]
    BY DEF MemoryInit
<1>2. <<>> \in Seq(FactRecords)
    BY EmptySeq
<1>3. MemoryTypeOK
    BY <1>1, <1>2, NoOpSound DEF MemoryTypeOK
<1>4. NotBefore
    BY <1>1 DEF NotBefore, Stores
<1> QED
    BY <1>1, <1>3, <1>4, NoOpSound DEF MemoryInv

LEMMA ConfigureKeeps == MemoryInv /\ MemoryConfigure => MemoryInv'
<1> SUFFICES ASSUME MemoryInv, MemoryConfigure
             PROVE  MemoryInv'
    OBVIOUS
<1>1. /\ mReady' = TRUE /\ mApproval' \in BOOLEAN
      /\ UNCHANGED <<mStore, mOp, mApproved>>
      /\ mStore["live"] = <<>> /\ \A c \in Clients : mOp[c] = NoOp
    BY DEF MemoryConfigure, MemoryInv, NotBefore
<1>2. ToSet(<<>>) = {}
    BY DEF ToSet
<1>3. MemoryTypeOK' /\ NotBefore'
    BY <1>1 DEF MemoryInv, MemoryTypeOK, NotBefore
<1> QED
    BY <1>1, <1>2, <1>3, NoOpSound DEF MemoryInv

LEMMA MemoryStep == MemoryInv /\ [MemoryNext]_memoryVars => MemoryInv'
<1> SUFFICES ASSUME MemoryInv, [MemoryNext]_memoryVars
             PROVE  MemoryInv'
    OBVIOUS
<1>1. CASE MemoryConfigure
    BY <1>1, ConfigureKeeps
<1>2. ASSUME NEW c \in Clients, MemoryWrite(c)
      PROVE  MemoryInv'
    BY <1>2, WriteSound, OpKeeps DEF MemoryWrite, Keys, Values
<1>3. ASSUME NEW c \in Clients, MemoryRemove(c)
      PROVE  MemoryInv'
    BY <1>3, RemoveSound, OpKeeps DEF MemoryRemove, Keys, Values
<1>4. ASSUME NEW c \in Clients, MemoryApprove(c)
      PROVE  MemoryInv'
    BY <1>4, ApproveSound, OpKeeps DEF MemoryApprove, Keys, Values
<1>5. ASSUME NEW c \in Clients, MemoryReject(c)
      PROVE  MemoryInv'
    BY <1>5, RejectSound, OpKeeps DEF MemoryReject, Keys, Values
<1>6. ASSUME NEW c \in Clients, MemoryEdit(c)
      PROVE  MemoryInv'
    BY <1>6, EditSound, OpKeeps DEF MemoryEdit, Keys, Values
<1>7. ASSUME NEW c \in Clients, MemoryLoad(c) \/ MemorySave(c)
      PROVE  MemoryInv'
    BY <1>7, LoadKeeps, SaveKeeps
<1>8. ASSUME NEW c \in Clients, MemoryFail(c)
      PROVE  MemoryInv'
  <2>1. /\ mOp' = [mOp EXCEPT ![c] = NoOp] /\ mOp[c] # NoOp
        /\ UNCHANGED <<mReady, mApproval, mStore, mApproved>>
      BY <1>8 DEF MemoryFail, Busy, NoOp
  <2> QED
      BY <2>1, NoOpSound DEF MemoryInv, MemoryTypeOK, NotBefore
<1>9. CASE UNCHANGED memoryVars
    BY <1>9 DEF memoryVars, MemoryInv, MemoryTypeOK, NotBefore
<1> QED
    BY <1>1, <1>2, <1>3, <1>4, <1>5, <1>6, <1>7, <1>8, <1>9 DEF MemoryNext

(***************************************************************************)
(* Where approval is required, every injected fact has been approved with  *)
(* the value it has (_write_store, _persist_store_name, approve), whatever *)
(* overlaps or fails.                                                      *)
(***************************************************************************)
THEOREM InjectedIsApproved == MemorySpec => []OnlyApprovedInjected
<1>1. MemorySpec => []MemoryInv
    BY MemoryInitially, MemoryStep, PTL DEF MemorySpec
<1>2. MemoryInv => OnlyApprovedInjected
    BY DEF MemoryInv, OnlyApprovedInjected, ToSet
<1> QED
    BY <1>1, <1>2, PTL

-----------------------------------------------------------------------------
(***************************************************************************)
(* Operations one after another.  While one is under way, the ideal is     *)
(* what the rest of it makes of the stores: Goal says so for every rest    *)
(* that an operation can have.                                             *)
(***************************************************************************)
Approving == <<Do("load", "live"), Do("put", "live"), Do("need", "pending"), Do("cut", "pending")>>
Approval == <<Do("put", "live"), Do("need", "pending"), Do("cut", "pending")>>

\* The ideal of the other store is what it holds.
Kept(store, ideal, s) == \A t \in Stores : t # s => ideal[t] = ToSet(store[t])

GoalSet(op, store, ideal) ==
    \E s \in Stores :
        /\ op.todo \in {Merge(s), <<Do("put", s)>>}
        /\ ideal[s] = Set(ToSet(store[s]), op.key, op.value) /\ Kept(store, ideal, s)

GoalDrop(op, store, ideal) ==
    \E s \in Stores :
        /\ op.todo \in {Delete(s), <<Do("cut", s)>>}
        /\ ideal[s] = Drop(ToSet(store[s]), op.key) /\ Kept(store, ideal, s)

Proposed(store, k) == {f \in ToSet(store["pending"]) : f.key = k}

GoalApprove(op, store, ideal) ==
    /\ op.todo = Approve
    /\ ideal["live"] = IF Proposed(store, op.key) = {} THEN ToSet(store["live"])
                       ELSE Drop(ToSet(store["live"]), op.key) \cup Proposed(store, op.key)
    /\ ideal["pending"] = Drop(ToSet(store["pending"]), op.key)

GoalApproving(op, store, ideal) ==
    /\ op.todo \in {Approving, Approval}
    /\ ideal["live"] = Set(ToSet(store["live"]), op.key, op.value)
    /\ ideal["pending"] = Drop(ToSet(store["pending"]), op.key)

GoalReject(op, store, ideal) ==
    /\ op.todo = Reject
    /\ ideal["pending"] = Drop(ToSet(store["pending"]), op.key)
    /\ Kept(store, ideal, "pending")

GoalEdit(op, store, ideal) ==
    /\ op.todo = Edit
    /\ ideal["pending"] = IF \E f \in ToSet(store["pending"]) : f.key = op.key
                          THEN Set(ToSet(store["pending"]), op.key, op.value)
                          ELSE ToSet(store["pending"])
    /\ Kept(store, ideal, "pending")

Goal(op, store, ideal) ==
    \/ GoalSet(op, store, ideal) \/ GoalDrop(op, store, ideal)
    \/ GoalApprove(op, store, ideal) \/ GoalApproving(op, store, ideal)
    \/ GoalReject(op, store, ideal) \/ GoalEdit(op, store, ideal)

\* What is about to be saved is what the store holds.
InSync(op, store) ==
    Head(op.todo).do \in {"put", "cut"} => op.view = store[Head(op.todo).store]

Alike(store, ideal) == \A s \in Stores : ideal[s] = ToSet(store[s])

InOrder(store, ideal, ops) ==
    /\ \A s \in Stores : NoTwice(store[s])
    /\ \A c, d \in Clients : ops[c].todo # <<>> /\ ops[d].todo # <<>> => c = d
    /\ \A c \in Clients :
          ops[c].todo # <<>> => Goal(ops[c], store, ideal) /\ InSync(ops[c], store)
    /\ (\A c \in Clients : ops[c].todo = <<>>) => Alike(store, ideal)

SerialInv ==
    /\ MemoryInv
    /\ mIdeal \in [Stores -> SUBSET FactRecords]
    /\ mClean => InOrder(mStore, mIdeal, mOp)

\* The client that works is the only one.
LEMMA OneInOrder ==
    ASSUME NEW ops \in [Clients -> Operations], NEW store, NEW ideal, NEW c \in Clients,
           NEW next \in Operations, \A d \in Clients : d # c => ops[d].todo = <<>>,
           \A s \in Stores : NoTwice(store[s]),
           next.todo # <<>> => Goal(next, store, ideal) /\ InSync(next, store),
           next.todo = <<>> => Alike(store, ideal)
    PROVE  InOrder(store, ideal, [ops EXCEPT ![c] = next])
<1>1. PICK new : new = [ops EXCEPT ![c] = next]
    OBVIOUS
<1>2. new[c] = next /\ \A d \in Clients : d # c => new[d].todo = <<>>
    BY <1>1
<1> QED
    BY <1>1, <1>2 DEF InOrder

LEMMA StepTuples ==
    /\ \A a \in Steps : Head(<<a>>) = a /\ Len(<<a>>) = 1
    /\ \A a, b \in Steps :
          Head(<<a, b>>) = a /\ Tail(<<a, b>>) = <<b>> /\ Len(<<a, b>>) = 2
    /\ \A a, b, c \in Steps :
          Head(<<a, b, c>>) = a /\ Tail(<<a, b, c>>) = <<b, c>> /\ Len(<<a, b, c>>) = 3
    /\ \A a, b, c, d \in Steps :
          /\ Head(<<a, b, c, d>>) = a /\ Tail(<<a, b, c, d>>) = <<b, c, d>>
          /\ Len(<<a, b, c, d>>) = 4
    /\ \A a, b, c, d, e \in Steps :
          /\ Head(<<a, b, c, d, e>>) = a /\ Tail(<<a, b, c, d, e>>) = <<b, c, d, e>>
          /\ Len(<<a, b, c, d, e>>) = 5
OBVIOUS

\* The operations as they begin and as they go on.
LEMMA StepsLeft ==
    /\ \A s \in Stores :
          /\ Merge(s) # <<>> /\ Head(Merge(s)) = Do("load", s)
          /\ Tail(Merge(s)) = <<Do("put", s)>> /\ <<Do("put", s)>> # <<>>
          /\ Head(<<Do("put", s)>>) = Do("put", s) /\ Len(<<Do("put", s)>>) = 1
          /\ Delete(s) # <<>> /\ Head(Delete(s)) = Do("need", s)
          /\ Tail(Delete(s)) = <<Do("cut", s)>> /\ <<Do("cut", s)>> # <<>>
          /\ Head(<<Do("cut", s)>>) = Do("cut", s) /\ Len(<<Do("cut", s)>>) = 1
    /\ Approve # <<>> /\ Head(Approve) = Do("take", "pending") /\ Tail(Approve) = Approving
    /\ Approving # <<>> /\ Head(Approving) = Do("load", "live") /\ Tail(Approving) = Approval
    /\ Approval # <<>> /\ Head(Approval) = Do("put", "live") /\ Len(Approval) = 3
    /\ Tail(Approval) = Delete("pending")
    /\ Reject # <<>> /\ Head(Reject) = Do("need", "pending") /\ Tail(Reject) = Delete("pending")
    /\ Edit # <<>> /\ Head(Edit) = Do("need", "pending") /\ Tail(Edit) = Merge("pending")
<1>1. \A do \in {"load", "need", "take", "put", "cut"}, s \in Stores : Do(do, s) \in Steps
    BY DoIsStep
<1>2. "live" \in Stores /\ "pending" \in Stores
    BY DEF Stores
<1> HIDE DEF Do
<1>3. ASSUME NEW s \in Stores
      PROVE  /\ Merge(s) # <<>> /\ Head(Merge(s)) = Do("load", s)
             /\ Tail(Merge(s)) = <<Do("put", s)>> /\ <<Do("put", s)>> # <<>>
             /\ Head(<<Do("put", s)>>) = Do("put", s) /\ Len(<<Do("put", s)>>) = 1
             /\ Delete(s) # <<>> /\ Head(Delete(s)) = Do("need", s)
             /\ Tail(Delete(s)) = <<Do("cut", s)>> /\ <<Do("cut", s)>> # <<>>
             /\ Head(<<Do("cut", s)>>) = Do("cut", s) /\ Len(<<Do("cut", s)>>) = 1
    BY <1>1, <1>3, StepTuples DEF Merge, Delete
<1>4. Approve # <<>> /\ Head(Approve) = Do("take", "pending") /\ Tail(Approve) = Approving
    BY <1>1, <1>2, StepTuples, ApproveSteps DEF Approving
<1>5. Approving # <<>> /\ Head(Approving) = Do("load", "live") /\ Tail(Approving) = Approval
    BY <1>1, <1>2, StepTuples DEF Approving, Approval
<1>6. /\ Approval # <<>> /\ Head(Approval) = Do("put", "live") /\ Len(Approval) = 3
      /\ Tail(Approval) = Delete("pending")
    BY <1>1, <1>2, StepTuples DEF Approval, Delete
<1>7. /\ Reject # <<>> /\ Head(Reject) = Do("need", "pending")
      /\ Tail(Reject) = Delete("pending")
    BY <1>1, <1>2, StepTuples, RejectSteps DEF Delete
<1>8. Edit # <<>> /\ Head(Edit) = Do("need", "pending") /\ Tail(Edit) = Merge("pending")
    BY <1>1, <1>2, StepTuples, EditSteps DEF Merge
<1> QED
    BY <1>3, <1>4, <1>5, <1>6, <1>7, <1>8

\* No two operations are the same series of steps.
LEMMA OpsDiffer ==
    /\ Write # Delete("live") /\ Write # Approve /\ Write # Reject /\ Write # Edit
    /\ Delete("live") # Approve /\ Delete("live") # Reject /\ Delete("live") # Edit
    /\ Approve # Reject /\ Approve # Edit /\ Reject # Edit
<1>1. WriteTarget("live") \in Stores /\ "live" \in Stores /\ "pending" \in Stores
    BY DEF WriteTarget, Stores
<1>2. Head(Write).do = "load"
  <2>1. Head(Write) = Do("load", WriteTarget("live"))
      BY <1>1, StepsLeft DEF Write
  <2> QED
      BY <2>1 DEF Do
<1>3. /\ Head(Delete("live")).do = "need" /\ Head(Delete("live")).store = "live"
      /\ Head(Delete("pending")).do = "need" /\ Head(Merge("pending")).do = "load"
  <2>1. /\ Head(Delete("live")) = Do("need", "live")
        /\ Head(Delete("pending")) = Do("need", "pending")
        /\ Head(Merge("pending")) = Do("load", "pending")
      BY <1>1, StepsLeft
  <2> QED
      BY <2>1 DEF Do
<1>4. Head(Approve).do = "take"
    BY StepsLeft DEF Do
<1>5. /\ Head(Reject).do = "need" /\ Head(Reject).store = "pending"
      /\ Head(Edit).do = "need" /\ Head(Edit).store = "pending"
    BY StepsLeft DEF Do
<1>6. Write # Delete("live") /\ Write # Approve /\ Write # Reject /\ Write # Edit
    BY <1>2, <1>3, <1>4, <1>5
<1>7. Delete("live") # Approve /\ Approve # Reject /\ Approve # Edit
    BY <1>3, <1>4, <1>5
<1>8. Delete("live") # Reject /\ Delete("live") # Edit
    BY <1>3, <1>5
<1>9. Reject # Edit
  <2>1. Tail(Reject) = Delete("pending") /\ Tail(Edit) = Merge("pending")
      BY StepsLeft
  <2>2. Delete("pending") # Merge("pending")
      BY <1>3
  <2> QED
      BY <2>1, <2>2
<1> QED
    BY <1>6, <1>7, <1>8, <1>9

(***************************************************************************)
(* How each kind of step goes on, of an operation that is the only one.    *)
(***************************************************************************)
SerialStores(store, ideal) ==
    /\ store \in [Stores -> Seq(FactRecords)]
    /\ ideal \in [Stores -> SUBSET FactRecords]
    /\ \A s \in Stores : NoTwice(store[s])

\* The first step of each.
LEMMA FirstSteps ==
    /\ \A s \in Stores :
          /\ Head(Merge(s)).do = "load" /\ Head(Merge(s)).store = s
          /\ Head(<<Do("put", s)>>).do = "put" /\ Head(<<Do("put", s)>>).store = s
          /\ Head(Delete(s)).do = "need" /\ Head(Delete(s)).store = s
          /\ Head(<<Do("cut", s)>>).do = "cut" /\ Head(<<Do("cut", s)>>).store = s
    /\ Head(Approve).do = "take" /\ Head(Approve).store = "pending"
    /\ Head(Approving).do = "load" /\ Head(Approving).store = "live"
    /\ Head(Approval).do = "put" /\ Head(Approval).store = "live"
    /\ Head(Reject).do = "need" /\ Head(Reject).store = "pending"
    /\ Head(Edit).do = "need" /\ Head(Edit).store = "pending"
<1>1. ASSUME NEW s \in Stores
      PROVE  /\ Head(Merge(s)).do = "load" /\ Head(Merge(s)).store = s
             /\ Head(<<Do("put", s)>>).do = "put" /\ Head(<<Do("put", s)>>).store = s
             /\ Head(Delete(s)).do = "need" /\ Head(Delete(s)).store = s
             /\ Head(<<Do("cut", s)>>).do = "cut" /\ Head(<<Do("cut", s)>>).store = s
  <2>1. /\ Head(Merge(s)) = Do("load", s) /\ Head(<<Do("put", s)>>) = Do("put", s)
        /\ Head(Delete(s)) = Do("need", s) /\ Head(<<Do("cut", s)>>) = Do("cut", s)
      BY <1>1, StepsLeft
  <2>2. /\ Do("load", s).do = "load" /\ Do("load", s).store = s
        /\ Do("put", s).do = "put" /\ Do("put", s).store = s
        /\ Do("need", s).do = "need" /\ Do("need", s).store = s
        /\ Do("cut", s).do = "cut" /\ Do("cut", s).store = s
      BY DEF Do
  <2> QED
      BY <2>1, <2>2
<1>2. Head(Approve).do = "take" /\ Head(Approve).store = "pending"
    BY StepsLeft DEF Do
<1>3. Head(Approving).do = "load" /\ Head(Approving).store = "live"
    BY StepsLeft DEF Do
<1>4. Head(Approval).do = "put" /\ Head(Approval).store = "live"
    BY StepsLeft DEF Do
<1>5. /\ Head(Reject).do = "need" /\ Head(Reject).store = "pending"
      /\ Head(Edit).do = "need" /\ Head(Edit).store = "pending"
    BY StepsLeft DEF Do
<1> QED
    BY <1>1, <1>2, <1>3, <1>4, <1>5

\* What an operation may have left, by its next step.
LEMMA LoadsLeft ==
    ASSUME NEW op, NEW store, NEW ideal, Goal(op, store, ideal),
           Head(op.todo).do \in {"load", "need", "take"}
    PROVE  \/ \E s \in Stores :
                 /\ op.todo = Merge(s)
                 /\ ideal[s] = Set(ToSet(store[s]), op.key, op.value) /\ Kept(store, ideal, s)
           \/ \E s \in Stores :
                 /\ op.todo = Delete(s)
                 /\ ideal[s] = Drop(ToSet(store[s]), op.key) /\ Kept(store, ideal, s)
           \/ GoalApprove(op, store, ideal)
           \/ GoalApproving(op, store, ideal) /\ op.todo = Approving
           \/ GoalReject(op, store, ideal)
           \/ GoalEdit(op, store, ideal)
<1>1. ASSUME GoalSet(op, store, ideal)
      PROVE  \E s \in Stores :
                 /\ op.todo = Merge(s)
                 /\ ideal[s] = Set(ToSet(store[s]), op.key, op.value) /\ Kept(store, ideal, s)
    BY <1>1, FirstSteps DEF GoalSet
<1>2. ASSUME GoalDrop(op, store, ideal)
      PROVE  \E s \in Stores :
                 /\ op.todo = Delete(s)
                 /\ ideal[s] = Drop(ToSet(store[s]), op.key) /\ Kept(store, ideal, s)
    BY <1>2, FirstSteps DEF GoalDrop
<1>3. ASSUME GoalApproving(op, store, ideal)
      PROVE  op.todo = Approving
    BY <1>3, FirstSteps DEF GoalApproving
<1> QED
    BY <1>1, <1>2, <1>3 DEF Goal

LEMMA SavesLeft ==
    ASSUME NEW op, NEW store, NEW ideal, Goal(op, store, ideal),
           Head(op.todo).do \in {"put", "cut"}
    PROVE  \/ \E s \in Stores :
                 /\ op.todo = <<Do("put", s)>>
                 /\ ideal[s] = Set(ToSet(store[s]), op.key, op.value) /\ Kept(store, ideal, s)
           \/ \E s \in Stores :
                 /\ op.todo = <<Do("cut", s)>>
                 /\ ideal[s] = Drop(ToSet(store[s]), op.key) /\ Kept(store, ideal, s)
           \/ GoalApproving(op, store, ideal) /\ op.todo = Approval
<1>1. ASSUME GoalSet(op, store, ideal)
      PROVE  \E s \in Stores :
                 /\ op.todo = <<Do("put", s)>>
                 /\ ideal[s] = Set(ToSet(store[s]), op.key, op.value) /\ Kept(store, ideal, s)
    BY <1>1, FirstSteps DEF GoalSet
<1>2. ASSUME GoalDrop(op, store, ideal)
      PROVE  \E s \in Stores :
                 /\ op.todo = <<Do("cut", s)>>
                 /\ ideal[s] = Drop(ToSet(store[s]), op.key) /\ Kept(store, ideal, s)
    BY <1>2, FirstSteps DEF GoalDrop
<1>3. ASSUME GoalApproving(op, store, ideal)
      PROVE  op.todo = Approval
    BY <1>3, FirstSteps DEF GoalApproving
<1>4. ~GoalApprove(op, store, ideal) /\ ~GoalReject(op, store, ideal)
      /\ ~GoalEdit(op, store, ideal)
    BY FirstSteps DEF GoalApprove, GoalReject, GoalEdit
<1> QED
    BY <1>1, <1>2, <1>3, <1>4 DEF Goal

\* After a load the rest of the operation has its goal, or there is nothing left to do.
Goes(next, store, ideal) ==
    next.todo # <<>> /\ Goal(next, store, ideal) /\ InSync(next, store)

LEMMA LoadGoes ==
    ASSUME NEW op \in Operations, NEW store, NEW ideal, SerialStores(store, ideal),
           Goal(op, store, ideal), NEW step, step = Head(op.todo),
           step.do \in {"load", "need", "take"}, NEW record, record = store[step.store],
           NEW value, value = IF step.do = "take" THEN ValueOf(record, op.key) ELSE op.value
    PROVE  /\ (step.do # "load" /\ ~Has(record, op.key)) => Alike(store, ideal)
           /\ (step.do = "load" \/ Has(record, op.key)) =>
                 Goes(Loaded(op, record, value), store, ideal)
<1>1. PICK next : next = Loaded(op, record, value)
    OBVIOUS
<1>2. /\ next.todo = Tail(op.todo) /\ next.key = op.key /\ next.value = value
      /\ next.view = record
    BY <1>1 DEF Loaded
<1>3. "live" \in Stores /\ "pending" \in Stores /\ \A t \in Stores : t \in {"live", "pending"}
    BY DEF Stores
<1>4. ASSUME NEW s \in Stores
      PROVE  /\ ~Has(store[s], op.key) => Drop(ToSet(store[s]), op.key) = ToSet(store[s])
             /\ ~Has(store[s], op.key) => {f \in ToSet(store[s]) : f.key = op.key} = {}
             /\ Has(store[s], op.key) =>
                   /\ \E f \in ToSet(store[s]) : f.key = op.key
                   /\ {f \in ToSet(store[s]) : f.key = op.key}
                         = {Fact(op.key, ValueOf(store[s], op.key))}
    BY <1>4, WithKey DEF SerialStores
<1>5. SUFFICES /\ (step.do # "load" /\ ~Has(record, op.key)) => Alike(store, ideal)
               /\ (step.do = "load" \/ Has(record, op.key)) => Goes(next, store, ideal)
    BY <1>1
<1>6. ASSUME NEW s \in Stores, op.todo = Merge(s),
             ideal[s] = Set(ToSet(store[s]), op.key, op.value), Kept(store, ideal, s)
      PROVE  step.do = "load" /\ Goes(next, store, ideal)
  <2>1. step.do = "load" /\ record = store[s] /\ value = op.value
      BY <1>6, FirstSteps
  <2>2. next.todo = <<Do("put", s)>> /\ next.todo # <<>>
      BY <1>2, <1>6, StepsLeft
  <2>3. InSync(next, store)
    <3>1. Head(next.todo).store = s
        BY <1>6, <2>2, FirstSteps
    <3> QED
        BY <1>2, <2>1, <3>1 DEF InSync
  <2>4. GoalSet(next, store, ideal)
      BY <1>2, <1>6, <2>1, <2>2 DEF GoalSet
  <2> QED
      BY <2>1, <2>2, <2>3, <2>4 DEF Goes, Goal
<1>7. ASSUME NEW s \in Stores, op.todo = Delete(s),
             ideal[s] = Drop(ToSet(store[s]), op.key), Kept(store, ideal, s)
      PROVE  /\ step.do = "need"
             /\ ~Has(record, op.key) => Alike(store, ideal)
             /\ Has(record, op.key) => Goes(next, store, ideal)
  <2>1. step.do = "need" /\ record = store[s] /\ value = op.value
      BY <1>7, FirstSteps
  <2>2. next.todo = <<Do("cut", s)>> /\ next.todo # <<>>
      BY <1>2, <1>7, StepsLeft
  <2>3. InSync(next, store)
    <3>1. Head(next.todo).store = s
        BY <1>7, <2>2, FirstSteps
    <3> QED
        BY <1>2, <2>1, <3>1 DEF InSync
  <2>4. GoalDrop(next, store, ideal)
      BY <1>2, <1>7, <2>1, <2>2 DEF GoalDrop
  <2>5. ~Has(record, op.key) => Alike(store, ideal)
      BY <1>4, <1>7, <2>1 DEF Alike, Kept
  <2> QED
      BY <2>1, <2>2, <2>3, <2>4, <2>5 DEF Goes, Goal
<1>8. ASSUME GoalApprove(op, store, ideal)
      PROVE  /\ step.do = "take"
             /\ ~Has(record, op.key) => Alike(store, ideal)
             /\ Has(record, op.key) => Goes(next, store, ideal)
  <2>1. /\ step.do = "take" /\ record = store["pending"]
        /\ value = ValueOf(record, op.key)
      BY <1>8, FirstSteps DEF GoalApprove
  <2>2. next.todo = Approving /\ next.todo # <<>>
      BY <1>2, <1>8, StepsLeft DEF GoalApprove
  <2>3. InSync(next, store)
      BY <2>2, FirstSteps DEF InSync
  <2>4. ASSUME Has(record, op.key)
        PROVE  GoalApproving(next, store, ideal)
    <3>1. Proposed(store, op.key) = {Fact(op.key, value)}
        BY <1>3, <1>4, <2>1, <2>4 DEF Proposed
    <3> QED
        BY <1>2, <1>8, <2>2, <3>1 DEF GoalApprove, GoalApproving, Set, Drop
  <2>5. ASSUME ~Has(record, op.key)
        PROVE  Alike(store, ideal)
    <3>1. Proposed(store, op.key) = {}
        BY <1>3, <1>4, <2>1, <2>5 DEF Proposed
    <3>2. ideal["live"] = ToSet(store["live"]) /\ ideal["pending"] = ToSet(store["pending"])
        BY <1>3, <1>4, <1>8, <2>1, <2>5, <3>1 DEF GoalApprove
    <3> QED
        BY <1>3, <3>2 DEF Alike
  <2> QED
      BY <2>1, <2>2, <2>3, <2>4, <2>5 DEF Goes, Goal
<1>9. ASSUME GoalApproving(op, store, ideal), op.todo = Approving
      PROVE  step.do = "load" /\ Goes(next, store, ideal)
  <2>1. step.do = "load" /\ record = store["live"] /\ value = op.value
      BY <1>9, FirstSteps
  <2>2. next.todo = Approval /\ next.todo # <<>>
      BY <1>2, <1>9, StepsLeft
  <2>3. InSync(next, store)
      BY <1>2, <2>1, <2>2, FirstSteps DEF InSync
  <2>4. GoalApproving(next, store, ideal)
      BY <1>2, <1>9, <2>1, <2>2 DEF GoalApproving
  <2> QED
      BY <2>1, <2>2, <2>3, <2>4 DEF Goes, Goal
<1>10. ASSUME GoalReject(op, store, ideal)
       PROVE  /\ step.do = "need"
              /\ ~Has(record, op.key) => Alike(store, ideal)
              /\ Has(record, op.key) => Goes(next, store, ideal)
  <2>1. step.do = "need" /\ record = store["pending"] /\ value = op.value
      BY <1>10, FirstSteps DEF GoalReject
  <2>2. next.todo = Delete("pending") /\ next.todo # <<>>
      BY <1>2, <1>3, <1>10, StepsLeft DEF GoalReject
  <2>3. InSync(next, store)
      BY <1>3, <2>2, FirstSteps DEF InSync
  <2>4. GoalDrop(next, store, ideal)
      BY <1>2, <1>3, <1>10, <2>1, <2>2 DEF GoalDrop, GoalReject
  <2>5. ~Has(record, op.key) => Alike(store, ideal)
      BY <1>3, <1>4, <1>10, <2>1 DEF Alike, Kept, GoalReject
  <2> QED
      BY <2>1, <2>2, <2>3, <2>4, <2>5 DEF Goes, Goal
<1>11. ASSUME GoalEdit(op, store, ideal)
       PROVE  /\ step.do = "need"
              /\ ~Has(record, op.key) => Alike(store, ideal)
              /\ Has(record, op.key) => Goes(next, store, ideal)
  <2>1. step.do = "need" /\ record = store["pending"] /\ value = op.value
      BY <1>11, FirstSteps DEF GoalEdit
  <2>2. next.todo = Merge("pending") /\ next.todo # <<>>
      BY <1>2, <1>3, <1>11, StepsLeft DEF GoalEdit
  <2>3. InSync(next, store)
      BY <1>3, <2>2, FirstSteps DEF InSync
  <2>4. ASSUME Has(record, op.key)
        PROVE  GoalSet(next, store, ideal)
    <3>1. \E f \in ToSet(store["pending"]) : f.key = op.key
        BY <1>3, <1>4, <2>1, <2>4
    <3> QED
        BY <1>2, <1>3, <1>11, <2>1, <2>2, <3>1 DEF GoalSet, GoalEdit
  <2>5. ASSUME ~Has(record, op.key)
        PROVE  Alike(store, ideal)
    <3>1. ~\E f \in ToSet(store["pending"]) : f.key = op.key
        BY <1>3, <1>4, <2>1, <2>5
    <3> QED
        BY <1>3, <1>11, <3>1 DEF Alike, Kept, GoalEdit
  <2> QED
      BY <2>1, <2>2, <2>3, <2>4, <2>5 DEF Goes, Goal
<1> QED
    BY <1>6, <1>7, <1>8, <1>9, <1>10, <1>11, LoadsLeft

\* What a save makes of one store.
LEMMA SaveGoes ==
    ASSUME NEW op \in Operations, NEW store, NEW ideal, SerialStores(store, ideal),
           Goal(op, store, ideal), InSync(op, store), Found(op), NEW step,
           step = Head(op.todo), step.do \in {"put", "cut"}, op.todo # <<>>,
           NEW put, put = Merged(op.view, op.key, op.value),
           step.do = "put" => Len(put) <= MaxEntities,
           NEW saved, saved = IF step.do = "put" THEN Cap(put) ELSE Without(op.view, op.key),
           NEW after, after = [store EXCEPT ![step.store] = saved],
           NEW next, next = IF Len(op.todo) = 1 THEN NoOp ELSE [op EXCEPT !.todo = Tail(@)]
    PROVE  /\ \A s \in Stores : NoTwice(after[s])
           /\ next.todo = <<>> => Alike(after, ideal)
           /\ next.todo # <<>> => Goal(next, after, ideal) /\ InSync(next, after)
<1>1. /\ op.key \in Keys /\ op.value \in Values /\ op.todo \in Seq(Steps)
      /\ step \in Steps /\ step = op.todo[1] /\ 1 \in 1 .. Len(op.todo)
      /\ DOMAIN store = Stores /\ step.store \in Stores
  <2>1. op.todo \in Seq(Steps) /\ op.key \in Keys /\ op.value \in Values
      BY DEF Operations
  <2>2. step \in Steps /\ step = op.todo[1] /\ 1 \in 1 .. Len(op.todo)
      BY <2>1, HeadTailProperties, LenProperties
  <2> QED
      BY <2>1, <2>2 DEF Steps, SerialStores
<1>2. PICK at : at = step.store
    OBVIOUS
<1>3. /\ at \in Stores /\ op.view = store[at] /\ store[at] \in Seq(FactRecords)
      /\ NoTwice(store[at])
    BY <1>1, <1>2 DEF InSync, SerialStores
<1>4. ASSUME step.do = "put"
      PROVE  NoTwice(saved) /\ ToSet(saved) = Set(ToSet(store[at]), op.key, op.value)
  <2>1. /\ NoTwice(Merged(store[at], op.key, op.value))
        /\ ToSet(Merged(store[at], op.key, op.value)) = Set(ToSet(store[at]), op.key, op.value)
      BY <1>1, <1>3, MergedSet
  <2>2. put = Merged(store[at], op.key, op.value) /\ saved = put
      BY <1>3, <1>4 DEF Cap
  <2> QED
      BY <2>1, <2>2
<1>5. ASSUME step.do = "cut"
      PROVE  NoTwice(saved) /\ ToSet(saved) = Drop(ToSet(store[at]), op.key)
  <2>1. Has(store[at], op.key)
      BY <1>1, <1>3, <1>5 DEF Found
  <2> QED
      BY <1>3, <1>5, <2>1, WithoutSet
<1>6. after[at] = saved /\ \A s \in Stores : s # at => after[s] = store[s]
    BY <1>1, <1>2
<1>7. \A s \in Stores : NoTwice(after[s])
    BY <1>4, <1>5, <1>6 DEF SerialStores
<1>8. ASSUME NEW s \in Stores, op.todo = <<Do("put", s)>>,
             ideal[s] = Set(ToSet(store[s]), op.key, op.value), Kept(store, ideal, s)
      PROVE  next.todo = <<>> /\ Alike(after, ideal)
  <2>1. step.do = "put" /\ at = s /\ Len(op.todo) = 1
      BY <1>2, <1>8, FirstSteps, StepsLeft
  <2> QED
      BY <1>4, <1>6, <1>8, <2>1 DEF NoOp, Alike, Kept
<1>9. ASSUME NEW s \in Stores, op.todo = <<Do("cut", s)>>,
             ideal[s] = Drop(ToSet(store[s]), op.key), Kept(store, ideal, s)
      PROVE  next.todo = <<>> /\ Alike(after, ideal)
  <2>1. step.do = "cut" /\ at = s /\ Len(op.todo) = 1
      BY <1>2, <1>9, FirstSteps, StepsLeft
  <2> QED
      BY <1>5, <1>6, <1>9, <2>1 DEF NoOp, Alike, Kept
<1>10. ASSUME GoalApproving(op, store, ideal), op.todo = Approval
       PROVE  next.todo # <<>> /\ Goal(next, after, ideal) /\ InSync(next, after)
  <2>1. step.do = "put" /\ at = "live" /\ Len(op.todo) = 3
      BY <1>2, <1>10, FirstSteps, StepsLeft
  <2>2. next.todo = Delete("pending") /\ next.key = op.key
    <3>1. next = [op EXCEPT !.todo = Tail(@)]
        BY <2>1
    <3>2. next.todo = Tail(op.todo) /\ next.key = op.key
        BY <3>1 DEF Operations
    <3> QED
        BY <1>10, <3>2, StepsLeft
  <2>3. "pending" \in Stores /\ "live" \in Stores /\ \A t \in Stores : t \in {"live", "pending"}
      BY DEF Stores
  <2>4. next.todo # <<>> /\ InSync(next, after)
    <3>1. next.todo # <<>>
        BY <2>2, <2>3, StepsLeft
    <3>2. Head(next.todo).do = "need"
      <4>1. Head(Delete("pending")).do = "need"
          BY <2>3, FirstSteps
      <4> QED
          BY <2>2, <4>1
    <3> QED
        BY <3>1, <3>2 DEF InSync
  <2>5. after["pending"] = store["pending"] /\ ToSet(after["live"]) = ideal["live"]
      BY <1>4, <1>6, <1>10, <2>1, <2>3 DEF GoalApproving
  <2>6. GoalDrop(next, after, ideal)
    <3>1. Kept(after, ideal, "pending")
        BY <2>3, <2>5 DEF Kept
    <3>2. ideal["pending"] = Drop(ToSet(after["pending"]), next.key)
        BY <1>10, <2>2, <2>5 DEF GoalApproving
    <3> QED
        BY <2>2, <2>3, <3>1, <3>2 DEF GoalDrop
  <2> QED
      BY <2>4, <2>6 DEF Goal
<1>11. \/ \E s \in Stores :
             /\ op.todo = <<Do("put", s)>>
             /\ ideal[s] = Set(ToSet(store[s]), op.key, op.value) /\ Kept(store, ideal, s)
       \/ \E s \in Stores :
             /\ op.todo = <<Do("cut", s)>>
             /\ ideal[s] = Drop(ToSet(store[s]), op.key) /\ Kept(store, ideal, s)
       \/ GoalApproving(op, store, ideal) /\ op.todo = Approval
    BY SavesLeft
<1> QED
    BY <1>7, <1>8, <1>9, <1>10, <1>11

\* The ideal of each operation.
Begun == {Write, Delete("live"), Approve, Reject, Edit}

LEMMA IdealOf ==
    ASSUME NEW k, NEW v
    PROVE  /\ Ideal(Write, k, v) = [mIdeal EXCEPT ![WriteTarget("live")] = Set(@, k, v)]
           /\ Ideal(Delete("live"), k, v) = [mIdeal EXCEPT !["live"] = Drop(@, k)]
           /\ Ideal(Approve, k, v) =
                 [mIdeal EXCEPT
                     !["live"] = IF {f \in mIdeal["pending"] : f.key = k} = {} THEN @
                                 ELSE Drop(@, k) \cup {f \in mIdeal["pending"] : f.key = k},
                     !["pending"] = Drop(@, k)]
           /\ Ideal(Reject, k, v) = [mIdeal EXCEPT !["pending"] = Drop(@, k)]
           /\ Ideal(Edit, k, v) =
                 [mIdeal EXCEPT !["pending"] =
                     IF \E f \in @ : f.key = k THEN Set(@, k, v) ELSE @]
<1> HIDE DEF Write, Delete, Approve, Reject, Edit
<1>1. Ideal(Write, k, v) = [mIdeal EXCEPT ![WriteTarget("live")] = Set(@, k, v)]
    BY OpsDiffer DEF Ideal
<1>2. Ideal(Delete("live"), k, v) = [mIdeal EXCEPT !["live"] = Drop(@, k)]
    BY OpsDiffer DEF Ideal
<1>3. Ideal(Approve, k, v) =
         [mIdeal EXCEPT
             !["live"] = IF {f \in mIdeal["pending"] : f.key = k} = {} THEN @
                         ELSE Drop(@, k) \cup {f \in mIdeal["pending"] : f.key = k},
             !["pending"] = Drop(@, k)]
    BY OpsDiffer DEF Ideal
<1>4. Ideal(Reject, k, v) = [mIdeal EXCEPT !["pending"] = Drop(@, k)]
    BY OpsDiffer DEF Ideal
<1>5. Ideal(Edit, k, v) =
         [mIdeal EXCEPT !["pending"] = IF \E f \in @ : f.key = k THEN Set(@, k, v) ELSE @]
    BY OpsDiffer DEF Ideal
<1> QED
    BY <1>1, <1>2, <1>3, <1>4, <1>5

\* They stay facts.
LEMMA IdealFacts ==
    ASSUME NEW facts \in SUBSET FactRecords, NEW k \in Keys, NEW v \in Values
    PROVE  Set(facts, k, v) \in SUBSET FactRecords /\ Drop(facts, k) \in SUBSET FactRecords
BY DEF Set, Drop, Fact, FactRecords

LEMMA IdealType ==
    ASSUME mIdeal \in [Stores -> SUBSET FactRecords], NEW todo \in Begun,
           NEW k \in Keys, NEW v \in Values
    PROVE  Ideal(todo, k, v) \in [Stores -> SUBSET FactRecords]
<1>1. WriteTarget("live") \in Stores /\ "live" \in Stores /\ "pending" \in Stores
    BY DEF WriteTarget, Stores
<1>2. \A s \in Stores : /\ mIdeal[s] \in SUBSET FactRecords
                        /\ Set(mIdeal[s], k, v) \in SUBSET FactRecords
                        /\ Drop(mIdeal[s], k) \in SUBSET FactRecords
    BY IdealFacts
<1> HIDE DEF Set, Drop, Write, Delete, Approve, Reject, Edit, WriteTarget, FactRecords
<1>3. Ideal(Write, k, v) \in [Stores -> SUBSET FactRecords]
    BY <1>1, <1>2, IdealOf
<1>4. Ideal(Delete("live"), k, v) \in [Stores -> SUBSET FactRecords]
    BY <1>1, <1>2, IdealOf
<1>5. Ideal(Approve, k, v) \in [Stores -> SUBSET FactRecords]
  <2>1. PICK approved : approved = {f \in mIdeal["pending"] : f.key = k}
      OBVIOUS
  <2>2. approved \in SUBSET FactRecords
      BY <1>1, <1>2, <2>1
  <2>3. PICK now \in SUBSET FactRecords :
            now = IF approved = {} THEN mIdeal["live"] ELSE Drop(mIdeal["live"], k) \cup approved
      BY <1>1, <1>2, <2>2
  <2>4. Ideal(Approve, k, v) =
           [mIdeal EXCEPT !["live"] = now, !["pending"] = Drop(mIdeal["pending"], k)]
      BY <1>1, <2>1, <2>3, IdealOf
  <2> QED
      BY <1>1, <1>2, <2>4
<1>6. Ideal(Reject, k, v) \in [Stores -> SUBSET FactRecords]
    BY <1>1, <1>2, IdealOf
<1>7. Ideal(Edit, k, v) \in [Stores -> SUBSET FactRecords]
    BY <1>1, <1>2, IdealOf
<1> QED
    BY <1>3, <1>4, <1>5, <1>6, <1>7 DEF Begun

\* An operation begins with its goal.
LEMMA GoalAtFirst ==
    ASSUME mIdeal \in [Stores -> SUBSET FactRecords], NEW store, Alike(store, mIdeal),
           NEW todo \in Begun, NEW k \in Keys, NEW v \in Values
    PROVE  Goes(Fresh(todo, k, v), store, Ideal(todo, k, v))
<1>1. WriteTarget("live") \in Stores /\ "live" \in Stores /\ "pending" \in Stores
    BY DEF WriteTarget, Stores
<1>2. PICK op, ideal : op = Fresh(todo, k, v) /\ ideal = Ideal(todo, k, v)
    OBVIOUS
<1>3. op.todo = todo /\ op.key = k /\ op.value = v
    BY <1>2 DEF Fresh
<1>4. \A s \in Stores : mIdeal[s] = ToSet(store[s]) /\ s \in DOMAIN mIdeal
    BY DEF Alike
<1> HIDE DEF Set, Drop, WriteTarget
<1>5. ASSUME todo = Write
      PROVE  Goes(op, store, ideal)
  <2>1. PICK s \in Stores : s = WriteTarget("live")
      BY <1>1
  <2>2. op.todo = Merge(s)
      BY <1>3, <1>5, <2>1 DEF Write
  <2>3. ideal = [mIdeal EXCEPT ![s] = Set(mIdeal[s], k, v)]
      BY <1>2, <1>5, <2>1, IdealOf
  <2>4. ideal[s] = Set(ToSet(store[s]), k, v) /\ Kept(store, ideal, s)
      BY <1>4, <2>3 DEF Kept
  <2>5. GoalSet(op, store, ideal)
      BY <1>3, <2>2, <2>4 DEF GoalSet
  <2>6. op.todo # <<>> /\ InSync(op, store)
      BY <2>2, FirstSteps, StepsLeft DEF InSync
  <2> QED
      BY <2>5, <2>6 DEF Goes, Goal
<1>6. ASSUME todo = Delete("live")
      PROVE  Goes(op, store, ideal)
  <2>1. ideal = [mIdeal EXCEPT !["live"] = Drop(mIdeal["live"], k)]
      BY <1>2, <1>6, IdealOf
  <2>2. ideal["live"] = Drop(ToSet(store["live"]), k) /\ Kept(store, ideal, "live")
      BY <1>1, <1>4, <2>1 DEF Kept
  <2>3. GoalDrop(op, store, ideal)
      BY <1>1, <1>3, <1>6, <2>2 DEF GoalDrop
  <2>4. op.todo # <<>> /\ InSync(op, store)
      BY <1>1, <1>3, <1>6, FirstSteps, StepsLeft DEF InSync
  <2> QED
      BY <2>3, <2>4 DEF Goes, Goal
<1>7. ASSUME todo = Approve
      PROVE  Goes(op, store, ideal)
  <2>1. PICK now :
            now = IF Proposed(store, k) = {} THEN mIdeal["live"]
                  ELSE Drop(mIdeal["live"], k) \cup Proposed(store, k)
      OBVIOUS
  <2>2. ideal = [mIdeal EXCEPT !["live"] = now, !["pending"] = Drop(mIdeal["pending"], k)]
      BY <1>1, <1>2, <1>4, <1>7, <2>1, IdealOf DEF Proposed
  <2>3. ideal["live"] = now /\ ideal["pending"] = Drop(ToSet(store["pending"]), k)
      BY <1>1, <1>4, <2>2
  <2>4. GoalApprove(op, store, ideal)
      BY <1>1, <1>3, <1>4, <1>7, <2>1, <2>3 DEF GoalApprove
  <2>5. op.todo # <<>> /\ InSync(op, store)
      BY <1>3, <1>7, FirstSteps, StepsLeft DEF InSync
  <2> QED
      BY <2>4, <2>5 DEF Goes, Goal
<1>8. ASSUME todo = Reject
      PROVE  Goes(op, store, ideal)
  <2>1. ideal = [mIdeal EXCEPT !["pending"] = Drop(mIdeal["pending"], k)]
      BY <1>2, <1>8, IdealOf
  <2>2. ideal["pending"] = Drop(ToSet(store["pending"]), k) /\ Kept(store, ideal, "pending")
      BY <1>1, <1>4, <2>1 DEF Kept
  <2>3. GoalReject(op, store, ideal)
      BY <1>3, <1>8, <2>2 DEF GoalReject
  <2>4. op.todo # <<>> /\ InSync(op, store)
      BY <1>3, <1>8, FirstSteps, StepsLeft DEF InSync
  <2> QED
      BY <2>3, <2>4 DEF Goes, Goal
<1>9. ASSUME todo = Edit
      PROVE  Goes(op, store, ideal)
  <2>1. PICK now :
            now = IF \E f \in ToSet(store["pending"]) : f.key = k
                  THEN Set(ToSet(store["pending"]), k, v) ELSE ToSet(store["pending"])
      OBVIOUS
  <2>2. ideal = [mIdeal EXCEPT !["pending"] = now]
      BY <1>1, <1>2, <1>4, <1>9, <2>1, IdealOf
  <2>3. ideal["pending"] = now /\ Kept(store, ideal, "pending")
      BY <1>1, <1>4, <2>2 DEF Kept
  <2>4. GoalEdit(op, store, ideal)
      BY <1>3, <1>9, <2>1, <2>3 DEF GoalEdit
  <2>5. op.todo # <<>> /\ InSync(op, store)
      BY <1>3, <1>9, FirstSteps, StepsLeft DEF InSync
  <2> QED
      BY <2>4, <2>5 DEF Goes, Goal
<1> QED
    BY <1>2, <1>5, <1>6, <1>7, <1>8, <1>9 DEF Begun

(***************************************************************************)
(* The order is kept by every step.                                        *)
(***************************************************************************)
LEMMA OpOrdered ==
    ASSUME SerialInv, MemoryInv', NEW c \in Clients, NEW todo \in Begun, NEW k \in Keys,
           NEW v \in Values, MemoryOp(c, todo, k, v)
    PROVE  SerialInv'
<1>1. PICK op : op = Fresh(todo, k, v)
    OBVIOUS
<1>2. /\ mOp' = [mOp EXCEPT ![c] = op] /\ mIdeal' = Ideal(todo, k, v)
      /\ mClean' = (mClean /\ \A d \in Clients : mOp[d].todo = <<>>) /\ mStore' = mStore
    BY <1>1 DEF MemoryOp, Fresh, Busy
<1>3. mIdeal' \in [Stores -> SUBSET FactRecords]
    BY <1>2, IdealType DEF SerialInv
<1>4. op \in Operations /\ mOp \in [Clients -> Operations]
  <2>1. mOp' \in [Clients -> Operations] /\ mOp \in [Clients -> Operations]
      BY DEF SerialInv, MemoryInv, MemoryTypeOK
  <2> QED
      BY <1>2, <2>1
<1>5. ASSUME mClean'
      PROVE  InOrder(mStore', mIdeal', mOp')
  <2>1. /\ \A d \in Clients : mOp[d].todo = <<>>
        /\ \A s \in Stores : NoTwice(mStore[s])
        /\ Alike(mStore, mIdeal)
      BY <1>2, <1>5 DEF SerialInv, InOrder
  <2>2. Goes(Fresh(todo, k, v), mStore, Ideal(todo, k, v))
      BY <2>1, GoalAtFirst DEF SerialInv
  <2>3. Goes(op, mStore, mIdeal')
      BY <1>1, <1>2, <2>2
  <2>4. op.todo # <<>> /\ Goal(op, mStore, mIdeal') /\ InSync(op, mStore)
      BY <2>3 DEF Goes
  <2>5. InOrder(mStore, mIdeal', [mOp EXCEPT ![c] = op])
      BY <1>4, <2>1, <2>4, OneInOrder
  <2> QED
      BY <1>2, <2>5
<1> QED
    BY <1>3, <1>5 DEF SerialInv

LEMMA LoadOrdered ==
    ASSUME SerialInv, MemoryInv', NEW c \in Clients, MemoryLoad(c)
    PROVE  SerialInv'
<1>1. PICK op, step : op = mOp[c] /\ step = Head(op.todo)
    OBVIOUS
<1>2. PICK record : record = mStore[step.store]
    OBVIOUS
<1>3. PICK value : value = IF step.do = "take" THEN ValueOf(record, op.key) ELSE op.value
    OBVIOUS
<1>4. PICK next : next = IF step.do # "load" /\ ~Has(record, op.key) THEN NoOp
                         ELSE Loaded(op, record, value)
    OBVIOUS
<1>5. /\ op.todo # <<>> /\ step.do \in {"load", "need", "take"}
      /\ mOp' = [mOp EXCEPT ![c] = next]
      /\ mStore' = mStore /\ mIdeal' = mIdeal /\ mClean' = mClean
    BY <1>1, <1>2, <1>3, <1>4 DEF MemoryLoad, Busy
<1>6. /\ op \in Operations /\ next \in Operations /\ mOp \in [Clients -> Operations]
      /\ mStore \in [Stores -> Seq(FactRecords)]
  <2>1. mOp' \in [Clients -> Operations] /\ mOp \in [Clients -> Operations]
      BY DEF SerialInv, MemoryInv, MemoryTypeOK
  <2> QED
      BY <1>1, <1>5, <2>1 DEF SerialInv, MemoryInv, MemoryTypeOK
<1>7. ASSUME mClean
      PROVE  InOrder(mStore, mIdeal, [mOp EXCEPT ![c] = next])
  <2>1. /\ \A s \in Stores : NoTwice(mStore[s])
        /\ \A d \in Clients : d # c => mOp[d].todo = <<>>
        /\ Goal(op, mStore, mIdeal)
      BY <1>1, <1>5, <1>7 DEF SerialInv, InOrder
  <2>2. SerialStores(mStore, mIdeal)
      BY <1>6, <2>1 DEF SerialInv, SerialStores
  <2>3. /\ (step.do # "load" /\ ~Has(record, op.key)) => Alike(mStore, mIdeal)
        /\ (step.do = "load" \/ Has(record, op.key)) =>
              Goes(Loaded(op, record, value), mStore, mIdeal)
      BY <1>1, <1>2, <1>3, <1>5, <1>6, <2>1, <2>2, LoadGoes
  <2>4. /\ next.todo # <<>> => Goal(next, mStore, mIdeal) /\ InSync(next, mStore)
        /\ next.todo = <<>> => Alike(mStore, mIdeal)
    <3>1. CASE step.do # "load" /\ ~Has(record, op.key)
      <4>1. next.todo = <<>>
          BY <1>4, <3>1 DEF NoOp
      <4> QED
          BY <2>3, <3>1, <4>1
    <3>2. CASE step.do = "load" \/ Has(record, op.key)
      <4>1. Goes(next, mStore, mIdeal)
          BY <1>4, <2>3, <3>2
      <4> QED
          BY <4>1 DEF Goes
    <3> QED
        BY <3>1, <3>2
  <2> QED
      BY <1>6, <2>1, <2>4, OneInOrder
<1> QED
    BY <1>5, <1>7 DEF SerialInv

LEMMA SaveOrdered ==
    ASSUME SerialInv, MemoryInv', NEW c \in Clients, MemorySave(c)
    PROVE  SerialInv'
<1>1. PICK op, step : op = mOp[c] /\ step = Head(op.todo)
    OBVIOUS
<1>2. PICK put : put = Merged(op.view, op.key, op.value)
    OBVIOUS
<1>3. PICK saved : saved = IF step.do = "put" THEN Cap(put) ELSE Without(op.view, op.key)
    OBVIOUS
<1>4. PICK after, next :
          /\ after = [mStore EXCEPT ![step.store] = saved]
          /\ next = IF Len(op.todo) = 1 THEN NoOp ELSE [op EXCEPT !.todo = Tail(@)]
    OBVIOUS
<1>5. /\ op.todo # <<>> /\ step.do \in {"put", "cut"}
      /\ mOp' = [mOp EXCEPT ![c] = next] /\ mStore' = after /\ mIdeal' = mIdeal
      /\ mClean' = (mClean /\ (step.do = "put" => Len(put) <= MaxEntities))
    BY <1>1, <1>2, <1>3, <1>4 DEF MemorySave, Busy
<1>6. /\ op \in Operations /\ next \in Operations /\ mOp \in [Clients -> Operations]
      /\ mStore \in [Stores -> Seq(FactRecords)] /\ Found(op)
  <2>1. mOp' \in [Clients -> Operations] /\ mOp \in [Clients -> Operations]
      BY DEF SerialInv, MemoryInv, MemoryTypeOK
  <2> QED
      BY <1>1, <1>5, <2>1 DEF SerialInv, MemoryInv, MemoryTypeOK
<1>7. ASSUME mClean'
      PROVE  InOrder(after, mIdeal, [mOp EXCEPT ![c] = next])
  <2>1. mClean /\ (step.do = "put" => Len(put) <= MaxEntities)
      BY <1>5, <1>7
  <2>2. /\ \A s \in Stores : NoTwice(mStore[s])
        /\ \A d \in Clients : d # c => mOp[d].todo = <<>>
        /\ Goal(op, mStore, mIdeal) /\ InSync(op, mStore)
      BY <1>1, <1>5, <2>1 DEF SerialInv, InOrder
  <2>3. SerialStores(mStore, mIdeal)
      BY <1>6, <2>2 DEF SerialInv, SerialStores
  <2>4. /\ \A s \in Stores : NoTwice(after[s])
        /\ next.todo = <<>> => Alike(after, mIdeal)
        /\ next.todo # <<>> => Goal(next, after, mIdeal) /\ InSync(next, after)
    <3>1. /\ op \in Operations /\ SerialStores(mStore, mIdeal) /\ Goal(op, mStore, mIdeal)
          /\ InSync(op, mStore) /\ Found(op) /\ step = Head(op.todo)
          /\ step.do \in {"put", "cut"} /\ op.todo # <<>>
          /\ put = Merged(op.view, op.key, op.value)
          /\ step.do = "put" => Len(put) <= MaxEntities
        BY <1>1, <1>2, <1>5, <1>6, <2>1, <2>2, <2>3
    <3> HIDE DEF SerialStores, Goal, InSync, Found, Merged, Cap, Without
    <3> QED
        BY <1>3, <1>4, <3>1, SaveGoes
  <2> QED
      BY <1>6, <2>2, <2>4, OneInOrder
<1> QED
    BY <1>5, <1>7 DEF SerialInv

LEMMA SerialInitially == MemoryInit => SerialInv
<1> SUFFICES ASSUME MemoryInit
             PROVE  SerialInv
    OBVIOUS
<1>1. /\ mStore = [s \in Stores |-> <<>>] /\ mOp = [c \in Clients |-> NoOp]
      /\ mIdeal = [s \in Stores |-> {}]
    BY DEF MemoryInit
<1>2. ToSet(<<>>) = {} /\ NoTwice(<<>>) /\ NoOp.todo = <<>>
    BY DEF ToSet, NoTwice, NoOp
<1>3. InOrder(mStore, mIdeal, mOp)
    BY <1>1, <1>2 DEF InOrder, Alike
<1> QED
    BY <1>1, <1>3, MemoryInitially DEF SerialInv

LEMMA SerialStep == SerialInv /\ [MemoryNext]_memoryVars => SerialInv'
<1> SUFFICES ASSUME SerialInv, [MemoryNext]_memoryVars
             PROVE  SerialInv'
    OBVIOUS
<1>1. MemoryInv'
    BY MemoryStep DEF SerialInv
<1>2. CASE MemoryConfigure
  <2>1. UNCHANGED <<mStore, mOp, mIdeal, mClean>>
      BY <1>2 DEF MemoryConfigure
  <2> QED
      BY <1>1, <2>1 DEF SerialInv
<1>3. ASSUME NEW c \in Clients, MemoryWrite(c)
      PROVE  SerialInv'
    BY <1>1, <1>3, OpOrdered DEF MemoryWrite, Begun, Keys, Values
<1>4. ASSUME NEW c \in Clients, MemoryRemove(c)
      PROVE  SerialInv'
    BY <1>1, <1>4, OpOrdered DEF MemoryRemove, Begun, Keys, Values
<1>5. ASSUME NEW c \in Clients, MemoryApprove(c)
      PROVE  SerialInv'
    BY <1>1, <1>5, OpOrdered DEF MemoryApprove, Begun, Keys, Values
<1>6. ASSUME NEW c \in Clients, MemoryReject(c)
      PROVE  SerialInv'
    BY <1>1, <1>6, OpOrdered DEF MemoryReject, Begun, Keys, Values
<1>7. ASSUME NEW c \in Clients, MemoryEdit(c)
      PROVE  SerialInv'
    BY <1>1, <1>7, OpOrdered DEF MemoryEdit, Begun, Keys, Values
<1>8. ASSUME NEW c \in Clients, MemoryLoad(c) \/ MemorySave(c)
      PROVE  SerialInv'
    BY <1>1, <1>8, LoadOrdered, SaveOrdered
<1>9. ASSUME NEW c \in Clients, MemoryFail(c)
      PROVE  SerialInv'
  <2>1. mIdeal' = mIdeal /\ mClean' = FALSE
      BY <1>9 DEF MemoryFail
  <2> QED
      BY <1>1, <2>1 DEF SerialInv
<1>10. CASE UNCHANGED memoryVars
    BY <1>1, <1>10 DEF memoryVars, SerialInv
<1> QED
    BY <1>2, <1>3, <1>4, <1>5, <1>6, <1>7, <1>8, <1>9, <1>10 DEF MemoryNext

(***************************************************************************)
(* As long as no two operations overlap, none fails and the cap is not     *)
(* reached, both stores hold what the operations, each taken as one step,  *)
(* have made of them, and no key twice (merge_entities, remove, approve,   *)
(* reject, edit_pending).                                                  *)
(***************************************************************************)
THEOREM SerialFacts == MemorySpec => []SerialOpsKeepFacts
<1>1. MemorySpec => []SerialInv
    BY SerialInitially, SerialStep, PTL DEF MemorySpec
<1>2. SerialInv => SerialOpsKeepFacts
  <2> SUFFICES ASSUME SerialInv, mClean, \A c \in Clients : ~Busy(c), NEW s \in Stores
               PROVE  /\ ToSet(mStore[s]) = mIdeal[s]
                      /\ \A i, j \in DOMAIN mStore[s] :
                            mStore[s][i].key = mStore[s][j].key => i = j
      BY DEF SerialOpsKeepFacts
  <2>1. InOrder(mStore, mIdeal, mOp) /\ \A c \in Clients : mOp[c].todo = <<>>
      BY DEF SerialInv, Busy
  <2>2. Alike(mStore, mIdeal) /\ NoTwice(mStore[s]) /\ mStore[s] \in Seq(FactRecords)
      BY <2>1 DEF InOrder, SerialInv, MemoryInv, MemoryTypeOK
  <2>3. DOMAIN mStore[s] = 1 .. Len(mStore[s])
      BY <2>2, RecordElements
  <2> QED
      BY <2>2, <2>3 DEF Alike, NoTwice
<1> QED
    BY <1>1, <1>2, PTL

-----------------------------------------------------------------------------
(* A knowledge base: no word is lost in cutting a document, nor later.      *)

LEMMA LeastIs ==
    ASSUME NEW S \in SUBSET Nat, S # {}
    PROVE  \E i \in S : \A j \in S : i <= j
<1>1. PICK i \in S : \A j \in S : ~(<<j, i>> \in OpToRel(<, Nat))
  BY WFMin, NatLessThanWellFounded
<1>2. \A j \in S : ~(j < i)
  BY <1>1 DEF OpToRel
<1> QED
  BY <1>2

LEMMA MinIs ==
    ASSUME NEW S \in SUBSET Nat, S # {}
    PROVE  Min(S) \in S /\ \A i \in S : Min(S) <= i
BY LeastIs DEF Min

\* A set of numbers up to n has a greatest, the one least far from n.
LEMMA MaxIs ==
    ASSUME NEW n \in Nat, NEW S \in SUBSET (0 .. n), S # {}
    PROVE  Max(S) \in S /\ \A i \in S : i <= Max(S)
<1> DEFINE T == {k \in 0 .. n : n - k \in S}
<1>1. T \in SUBSET Nat /\ T # {}
  <2>1. PICK i \in S : TRUE
    OBVIOUS
  <2>2. i \in 0 .. n /\ n - i \in 0 .. n /\ n - (n - i) = i
    BY <2>1
  <2>3. n - i \in T
    BY <2>1, <2>2
  <2>4. T \in SUBSET Nat
    OBVIOUS
  <2> HIDE DEF T
  <2> QED
    BY <2>3, <2>4
<1> HIDE DEF T
<1>2. PICK k \in T : \A j \in T : k <= j
  BY <1>1, LeastIs
<1> USE DEF T
<1>3. n - k \in S /\ \A i \in S : i <= n - k
  <2>1. ASSUME NEW i \in S
        PROVE  i <= n - k
    <3>1. n - i \in T
      OBVIOUS
    <3> QED
      BY <1>2, <3>1
  <2> QED
    BY <1>2, <2>1
<1>4. \E x \in S : \A y \in S : x >= y
  BY <1>3
<1> QED
  BY <1>4 DEF Max

\* Every piece is of this text; the pieces show this position.
AreOf(pieces, text) == \A p \in pieces : p \subseteq text
Show(pieces, i) == \E p \in pieces : i \in p

\* These are positions of a document of n characters.
IsText(text, n) == n \in Nat /\ text \subseteq 1 .. n

(***************************************************************************)
(* A chunk begins no later than the one before ends, so each character is  *)
(* in the last chunk that begins before it.                                *)
(***************************************************************************)
LEMMA StepIs ==
    ASSUME NEW size \in Nat \ {0}, NEW overlap \in Nat
    PROVE  Step(size, overlap) \in Nat \ {0} /\ Step(size, overlap) <= size
BY DEF Step

LEMMA FixedCovers ==
    ASSUME NEW n \in Nat, NEW text \in SUBSET (1 .. n), NEW size \in Nat \ {0}, NEW overlap \in Nat
    PROVE  /\ AreOf(FixedCut(text, size, overlap), text)
           /\ \A i \in text : Show(FixedCut(text, size, overlap), i)
<1> DEFINE step == Step(size, overlap)
           low == Min(text)
           high == Max(text)
           starts == {s \in {low + k * step : k \in 0 .. high} :
                         s <= high /\ (s = low \/ s - step + size <= high)}
<1>1. FixedCut(text, size, overlap) = {{i \in text : s <= i /\ i < s + size} : s \in starts}
  BY DEF FixedCut
<1>2. ASSUME NEW i \in text
      PROVE  \E s \in starts : s <= i /\ i < s + size
  <2>1. low \in text /\ low <= i /\ high \in text /\ i <= high
    <3>1. text \in SUBSET Nat /\ text \in SUBSET (0 .. n) /\ text # {}
      BY <1>2
    <3> QED
      BY <1>2, <3>1, MinIs, MaxIs
  <2>2. step \in Nat \ {0} /\ step <= size
    BY StepIs
  <2> HIDE DEF step, low, high
  <2>9. low \in Nat /\ high \in Nat /\ i \in Nat
    BY <1>2, <2>1
  <2> DEFINE S == {s \in starts : s <= i}
  <2>3. low \in S
    <3>1. low + 0 * step = low /\ 0 \in 0 .. high
      BY <2>2, <2>9
    <3> QED
      BY <2>1, <3>1
  <2>4. S \in SUBSET (0 .. i)
    <3>1. \A k \in 0 .. high : low + k * step \in Nat
      BY <2>2, <2>9
    <3> QED
      BY <3>1, <2>2, <2>9
  <2>10. \E s \in S : \A r \in S : r <= s
    <3> HIDE DEF S
    <3> QED
      BY <2>9, <2>3, <2>4, MaxIs
  <2>5. PICK s \in S : \A r \in S : r <= s
    BY <2>10
  <2>6. PICK k \in 0 .. high : s = low + k * step
    BY <2>5
  <2>7. s \in Nat /\ s <= i /\ s \in starts
    BY <2>4, <2>5
  <2>8. i < s + size
    <3> SUFFICES ASSUME s + size <= i
                 PROVE  FALSE
      BY <2>2, <2>9, <2>7
    <3>1. s + step = low + (k + 1) * step
      BY <2>2, <2>9, <2>6
    <3>2. (s + step) - step + size <= high /\ s + step <= i /\ s + step <= high
      BY <2>1, <2>2, <2>9, <2>7
    <3>3. k + 1 <= (k + 1) * step
      <4>1. (k + 1) * step = (k + 1) + (k + 1) * (step - 1)
        BY <2>2, <2>9
      <4>2. (k + 1) * (step - 1) \in Nat
        BY <2>2, <2>9
      <4> QED
        BY <2>2, <2>9, <4>1, <4>2
    <3>4. k + 1 \in 0 .. high
      BY <2>1, <2>2, <2>9, <3>1, <3>2, <3>3
    <3>5. s + step \in S
      BY <3>1, <3>2, <3>4
    <3>6. s + step <= s
      <4> HIDE DEF S
      <4> QED
        BY <2>5, <3>5
    <3> QED
      BY <2>2, <2>7, <3>6
  <2> QED
    BY <2>7, <2>8
<1> HIDE DEF starts
<1>3. ASSUME NEW i \in text
      PROVE  \E p \in FixedCut(text, size, overlap) : i \in p
  <2>1. PICK s \in starts : s <= i /\ i < s + size
    BY <1>2
  <2>2. i \in {j \in text : s <= j /\ j < s + size}
    BY <2>1
  <2>3. {j \in text : s <= j /\ j < s + size} \in FixedCut(text, size, overlap)
    BY <1>1
  <2> QED
    BY <2>2, <2>3
<1>4. AreOf(FixedCut(text, size, overlap), text)
  BY <1>1 DEF AreOf
<1> QED
  BY <1>3, <1>4 DEF Show

-----------------------------------------------------------------------------
LEMMA BetweenCovers ==
    ASSUME NEW n \in Nat, NEW doc, NEW text \in SUBSET (1 .. n), NEW sep,
           NEW i \in text, doc[i] # sep
    PROVE  \E m \in Marks(doc, text, sep) : i \in Between(doc, text, sep, m, m)
<1> DEFINE S == {c \in Marks(doc, text, sep) : c < i}
<1>1. i \in 1 .. n /\ i \in Nat
  OBVIOUS
<1>2. S \in SUBSET (0 .. n) /\ 0 \in S
  <2>1. (\A c \in Marks(doc, text, sep) : c \in 0 .. n) /\ 0 \in Marks(doc, text, sep)
    <3>1. \A c \in text : c \in 0 .. n
      OBVIOUS
    <3> QED
      BY <3>1 DEF Marks
  <2> QED
    BY <1>1, <2>1
<1>3. Max(S) \in S /\ \A c \in S : c <= Max(S)
  <2> HIDE DEF S
  <2> QED
    BY <1>2, MaxIs
<1> DEFINE m == Max(S)
<1>4. m \in Marks(doc, text, sep) /\ m < i /\ m \in 0 .. n
  BY <1>2, <1>3
<1> HIDE DEF m
<1>5. ASSUME NEW j \in text, m < j, j <= i
      PROVE  doc[j] # sep
  <2> SUFFICES ASSUME doc[j] = sep
               PROVE  FALSE
    OBVIOUS
  <2>1. j \in 1 .. n /\ j # i
    OBVIOUS
  <2>2. j \in S
    BY <1>1, <1>5, <2>1 DEF Marks
  <2>3. j <= m
    BY <1>3, <2>2 DEF m
  <2> QED
    BY <1>4, <1>5, <2>1, <2>3
<1> QED
  BY <1>4, <1>5 DEF Between

LEMMA PackedIs ==
    ASSUME NEW doc, NEW text, NEW sep, NEW size
    PROVE  AreOf(PackedCut(doc, text, sep, size), text)
<1> DEFINE marks == Marks(doc, text, sep)
           begin == Buffers(doc, text, sep, size)
           part(b, c) == Between(doc, text, sep, b, c)
           along(m) == {c \in marks : begin[c] = begin[m]}
           piece(m) == UNION {part(b, c) : b, c \in along(m)}
<1>1. PackedCut(doc, text, sep, size) = {piece(m) : m \in marks} \ {{}}
  BY DEF PackedCut
<1>2. \A b, c : part(b, c) \subseteq text
  BY DEF Between
<1> HIDE DEF part
<1>3. \A m : piece(m) \subseteq text
  BY <1>2
<1> HIDE DEF piece
<1> QED
  BY <1>1, <1>3 DEF AreOf

\* What is between two separators is put into some buffer.
LEMMA PackedCovers ==
    ASSUME NEW n, NEW doc, NEW text, NEW sep, NEW size, IsText(text, n),
           NEW i, i \in text, doc[i] # sep
    PROVE  Show(PackedCut(doc, text, sep, size), i)
<1> DEFINE marks == Marks(doc, text, sep)
           begin == Buffers(doc, text, sep, size)
           part(b, c) == Between(doc, text, sep, b, c)
           along(m) == {c \in marks : begin[c] = begin[m]}
           piece(m) == UNION {part(b, c) : b, c \in along(m)}
<1>1. PackedCut(doc, text, sep, size) = {piece(m) : m \in marks} \ {{}}
  BY DEF PackedCut
<1>2. PICK m \in marks : i \in part(m, m)
  BY BetweenCovers DEF IsText
<1>3. m \in along(m)
  OBVIOUS
<1> HIDE DEF part, along
<1>4. part(m, m) \in {part(b, c) : b, c \in along(m)}
  BY <1>3
<1>5. i \in piece(m)
  BY <1>2, <1>4
<1> HIDE DEF piece, marks
<1>6. piece(m) \in PackedCut(doc, text, sep, size)
  BY <1>1, <1>2, <1>5
<1> QED
  BY <1>5, <1>6 DEF Show

LEMMA CutAtCovers ==
    ASSUME NEW n \in Nat, NEW doc, NEW pieces, AreOf(pieces, 1 .. n), NEW sep, NEW size
    PROVE  /\ AreOf(CutAt(doc, pieces, sep, size), 1 .. n)
           /\ \A i \in 1 .. n : doc[i] # sep /\ Show(pieces, i) => Show(CutAt(doc, pieces, sep, size), i)
<1> DEFINE cut(p) == IF Cardinality(p) <= size THEN {p} ELSE PackedCut(doc, p, sep, size)
<1>1. CutAt(doc, pieces, sep, size) = UNION {cut(p) : p \in pieces}
  BY DEF CutAt
<1>2. ASSUME NEW p \in pieces
      PROVE  /\ AreOf(cut(p), p) /\ p \in SUBSET (1 .. n)
             /\ \A i \in p : doc[i] # sep => Show(cut(p), i)
  <2>1. p \in SUBSET (1 .. n)
    BY DEF AreOf
  <2>2. CASE Cardinality(p) <= size
    BY <2>1, <2>2 DEF AreOf, Show
  <2>3. CASE ~(Cardinality(p) <= size)
    <3>1. cut(p) = PackedCut(doc, p, sep, size)
      BY <2>3
    <3> HIDE DEF cut
    <3>2. AreOf(PackedCut(doc, p, sep, size), p)
      BY PackedIs
    <3>3. ASSUME NEW i \in p, doc[i] # sep
          PROVE  Show(PackedCut(doc, p, sep, size), i)
      <4>1. IsText(p, n)
        BY <2>1 DEF IsText
      <4> QED
        BY <3>3, <4>1, PackedCovers
    <3> QED
      BY <2>1, <3>1, <3>2, <3>3
  <2> QED
    BY <2>2, <2>3
<1> HIDE DEF cut
<1>3. AreOf(CutAt(doc, pieces, sep, size), 1 .. n)
  BY <1>1, <1>2 DEF AreOf
<1>4. ASSUME NEW i \in 1 .. n, doc[i] # sep, Show(pieces, i)
      PROVE  Show(CutAt(doc, pieces, sep, size), i)
  <2>1. PICK p \in pieces : i \in p
    BY <1>4 DEF Show
  <2>2. PICK q \in cut(p) : i \in q
    BY <1>2, <1>4, <2>1 DEF Show
  <2>3. q \in CutAt(doc, pieces, sep, size)
    BY <1>1, <2>2
  <2> QED
    BY <2>2, <2>3 DEF Show
<1> QED
  BY <1>3, <1>4

\* The positions of words.
Words(doc) == {i \in DOMAIN doc : doc[i] = "x"}

LEMMA RecursiveCovers ==
    ASSUME NEW n \in Nat, NEW doc, DOMAIN doc = 1 .. n, NEW size \in Nat \ {0}
    PROVE  /\ AreOf(RecursiveCut(doc, size), 1 .. n)
           /\ \A i \in Words(doc) : Show(RecursiveCut(doc, size), i)
<1> DEFINE whole == {DOMAIN doc}
           paragraphs == CutAt(doc, whole, Separators[1], size)
           sentences == CutAt(doc, paragraphs, Separators[2], size)
           words == CutAt(doc, sentences, Separators[3], size)
           cut(p) == FixedCut(p, size, 0)
<1>1. RecursiveCut(doc, size) = UNION {cut(p) : p \in words}
  BY DEF RecursiveCut
<1>2. \A i \in Words(doc) : i \in 1 .. n /\ doc[i] # Separators[1] /\ doc[i] # Separators[2]
                            /\ doc[i] # Separators[3]
  BY DEF Words, Separators
<1>3. AreOf(whole, 1 .. n) /\ \A i \in Words(doc) : Show(whole, i)
  BY DEF AreOf, Words, Show
<1> HIDE DEF whole
<1>4. AreOf(paragraphs, 1 .. n) /\ \A i \in Words(doc) : Show(paragraphs, i)
  BY <1>2, <1>3, CutAtCovers
<1> HIDE DEF paragraphs
<1>5. AreOf(sentences, 1 .. n) /\ \A i \in Words(doc) : Show(sentences, i)
  BY <1>2, <1>4, CutAtCovers
<1> HIDE DEF sentences
<1>6. AreOf(words, 1 .. n) /\ \A i \in Words(doc) : Show(words, i)
  BY <1>2, <1>5, CutAtCovers
<1> HIDE DEF words
<1>7. ASSUME NEW p \in words
      PROVE  p \in SUBSET (1 .. n) /\ AreOf(cut(p), p) /\ \A i \in p : Show(cut(p), i)
  <2>1. p \in SUBSET (1 .. n) /\ 0 \in Nat
    BY <1>6 DEF AreOf
  <2> QED
    BY <2>1, FixedCovers
<1> HIDE DEF cut
<1>8. AreOf(RecursiveCut(doc, size), 1 .. n)
  BY <1>1, <1>7 DEF AreOf
<1>9. ASSUME NEW i \in Words(doc)
      PROVE  Show(RecursiveCut(doc, size), i)
  <2>1. PICK p \in words : i \in p
    BY <1>6 DEF Show
  <2>2. PICK q \in cut(p) : i \in q
    BY <1>7, <2>1 DEF Show
  <2>3. q \in RecursiveCut(doc, size)
    BY <1>1, <2>2
  <2> QED
    BY <2>2, <2>3 DEF Show
<1> QED
  BY <1>8, <1>9

LEMMA OverlapCovers ==
    ASSUME NEW pieces, NEW overlap, NEW i, Show(pieces, i)
    PROVE  Show(WithOverlap(pieces, overlap), i)
<1> DEFINE End(q) == {k \in q : k + overlap > Max(q)}
           Before(p) == {q \in pieces : Number(q, pieces) + 1 = Number(p, pieces)}
           longer(p) == p \cup UNION {End(q) : q \in Before(p)}
<1>1. WithOverlap(pieces, overlap) = {longer(p) : p \in pieces}
  BY DEF WithOverlap
<1>2. PICK p \in pieces : i \in p
  BY DEF Show
<1>3. i \in longer(p)
  BY <1>2
<1> HIDE DEF longer
<1>4. longer(p) \in WithOverlap(pieces, overlap)
  BY <1>1, <1>2
<1> QED
  BY <1>3, <1>4 DEF Show

LEMMA SemanticCovers ==
    ASSUME NEW n \in Nat, NEW doc, DOMAIN doc = 1 .. n, NEW size \in Nat \ {0},
           NEW overlap \in Nat, NEW alike, NEW i \in Words(doc)
    PROVE  Show(SemanticCut(doc, size, overlap, alike), i)
<1> DEFINE begin == Groups(doc, size, alike)
           along(m) == {c \in Sentences(doc) : begin[c] = begin[m]}
           group(m) == UNION {Sentence(doc, c) : c \in along(m)}
<1>1. i \in DOMAIN doc /\ doc[i] = "x"
  BY DEF Words
<1>2. CASE Cardinality(Sentences(doc)) <= 1
  <2>1. SemanticCut(doc, size, overlap, alike) = FixedCut(DOMAIN doc, size, overlap)
    BY <1>2 DEF SemanticCut
  <2>2. DOMAIN doc \in SUBSET (1 .. n)
    OBVIOUS
  <2>3. Show(FixedCut(DOMAIN doc, size, overlap), i)
    BY <1>1, <2>2, FixedCovers
  <2> QED
    BY <2>1, <2>3
<1>3. CASE ~(Cardinality(Sentences(doc)) <= 1)
  <2>1. SemanticCut(doc, size, overlap, alike) = {group(m) : m \in Sentences(doc)}
    BY <1>3 DEF SemanticCut
  <2>2. \E m \in Marks(doc, DOMAIN doc, "stop") : i \in Between(doc, DOMAIN doc, "stop", m, m)
    <3>1. DOMAIN doc \in SUBSET (1 .. n) /\ doc[i] # "stop"
      BY <1>1
    <3> QED
      BY <1>1, <3>1, BetweenCovers
  <2>3. PICK m \in Marks(doc, DOMAIN doc, "stop") : i \in Sentence(doc, m)
    BY <2>2 DEF Sentence
  <2>4. m \in Sentences(doc)
    BY <1>1, <2>3 DEF Sentences, Blank
  <2>5. i \in group(m)
    <3>1. m \in along(m)
      BY <2>4
    <3> HIDE DEF along
    <3> QED
      BY <2>3, <3>1
  <2> HIDE DEF group
  <2>6. group(m) \in SemanticCut(doc, size, overlap, alike)
    BY <2>1, <2>4
  <2> QED
    BY <2>5, <2>6 DEF Show
<1> QED
  BY <1>2, <1>3

RagConfigs == [provider : {"in_memory", "pgvector"}, chunker : Chunkers,
               size : ChunkSizes, overlap : Overlaps]

LEMMA PiecesCover ==
    ASSUME NEW doc \in Documents, NEW config \in RagConfigs, NEW alike, NEW i \in Words(doc)
    PROVE  Show(PiecesOf(doc, config, alike), i)
<1>1. PICK n \in 1 .. MaxDoc : doc \in [1 .. n -> {"x"} \cup ToSet(Separators)]
  BY DEF Documents
<1>2. n \in Nat /\ DOMAIN doc = 1 .. n
  BY <1>1
<1>3. config.size \in Nat \ {0} /\ config.overlap \in Nat /\ config.chunker \in Chunkers
  BY RagAssumption DEF RagConfigs
<1>4. i \in DOMAIN doc /\ DOMAIN doc \in SUBSET (1 .. n)
  BY <1>2 DEF Words
<1>5. CASE config.chunker = "fixed"
  <2>1. Show(FixedCut(DOMAIN doc, config.size, config.overlap), i)
    BY <1>2, <1>3, <1>4, FixedCovers
  <2> QED
    BY <1>5, <2>1 DEF PiecesOf
<1>6. CASE config.chunker = "recursive"
  <2>1. Show(RecursiveCut(doc, config.size), i)
    BY <1>2, <1>3, RecursiveCovers
  <2>2. Show(WithOverlap(RecursiveCut(doc, config.size), config.overlap), i)
    BY <2>1, OverlapCovers
  <2> QED
    BY <1>6, <2>2 DEF PiecesOf
<1>7. CASE config.chunker = "semantic"
  <2>1. Show(SemanticCut(doc, config.size, config.overlap, alike), i)
    BY <1>2, <1>3, SemanticCovers
  <2> QED
    BY <1>7, <2>1 DEF PiecesOf
<1>8. CASE config.chunker = "none"
  <2>1. Show({DOMAIN doc}, i)
    BY <1>4 DEF Show
  <2> QED
    BY <1>8, <2>1 DEF PiecesOf
<1> QED
  BY <1>3, <1>5, <1>6, <1>7, <1>8 DEF Chunkers

\* Every word of the document is in one of these chunks.
Shown(doc, chunks) == \A i \in Words(doc) : \E chunk \in chunks : i \in chunk.shows

LEMMA ChunksShow ==
    ASSUME NEW doc \in Documents, NEW config \in RagConfigs, NEW alike
    PROVE  Shown(doc, ChunksOf(doc, config, alike))
<1> DEFINE pieces == PiecesOf(doc, config, alike)
           chunk(p) == [id |-> <<Number(p, pieces), AtPlaces(doc, p)>>, shows |-> p]
           kept == {q \in pieces : config.chunker # "recursive" \/ \E i \in q : ~Blank(doc[i])}
<1>1. ChunksOf(doc, config, alike) = {chunk(p) : p \in kept}
  BY DEF ChunksOf
<1>2. ASSUME NEW i \in Words(doc)
      PROVE  \E c \in ChunksOf(doc, config, alike) : i \in c.shows
  <2>1. PICK p \in pieces : i \in p
    BY PiecesCover DEF Show
  <2>2. ~Blank(doc[i])
    BY DEF Blank, Words
  <2>3. p \in kept
    BY <2>1, <2>2
  <2>4. chunk(p) \in ChunksOf(doc, config, alike)
    <3> HIDE DEF chunk, kept
    <3> QED
      BY <1>1, <2>3
  <2>5. chunk(p).shows = p
    OBVIOUS
  <2> HIDE DEF chunk
  <2> QED
    BY <2>1, <2>4, <2>5
<1> QED
  BY <1>2 DEF Shown

-----------------------------------------------------------------------------
(* RagIndex: what was cut stays stored                                     *)

InMemory == rConfig.provider = "in_memory"

\* The chunks are stored; rows are never taken out, whatever collection they are in.
RowsOf(chunks) == \A chunk \in chunks : chunk.id \in DOMAIN rRows
Stored(c, chunks) == IF InMemory THEN chunks \subseteq rStored[c] ELSE RowsOf(chunks)

Inserting(task) ==
    /\ task.state = "inserting" /\ task.collection \in Collections
    /\ Shown(task.doc, task.all) /\ RowsOf(task.all \ task.chunks)

RagInv ==
    /\ rStored = [c \in Collections |-> rStored[c]]
    /\ rIngested = [c \in Collections |-> rIngested[c]]
    /\ rTask = [t \in Ingesters |-> rTask[t]]
    /\ \/ /\ rConfig = NoProvider
          /\ \A c \in Collections : rIngested[c] = {}
          /\ \A t \in Ingesters : rTask[t] = NotIngesting
       \/ rConfig \in RagConfigs
    /\ \A t \in Ingesters :
          rTask[t] = NotIngesting \/ (~InMemory /\ Inserting(rTask[t]))
    /\ \A c \in Collections : \A e \in rIngested[c] : Shown(e.doc, e.chunks) /\ Stored(c, e.chunks)

LEMMA RagStarts == RagInit => RagInv
BY DEF RagInit, RagInv

LEMMA ConfigIs == RagInv /\ rConfig # NoProvider => rConfig \in RagConfigs
BY DEF RagInv

LEMMA BuildProviderKeeps == RagInv /\ BuildProvider => RagInv'
<1> SUFFICES ASSUME RagInv, BuildProvider
             PROVE  RagInv'
  OBVIOUS
<1>1. rConfig' \in RagConfigs
  BY DEF BuildProvider, RagConfigs
<1>2. UNCHANGED <<rStored, rRows, rTask, rIngested>> /\ rConfig = NoProvider
  BY DEF BuildProvider
<1>3. NoProvider \notin RagConfigs
  BY DEF NoProvider, RagConfigs, Chunkers
<1>4. /\ \A c \in Collections : rIngested[c] = {}
      /\ \A t \in Ingesters : rTask[t] = NotIngesting
  BY <1>2, <1>3 DEF RagInv
<1> QED
  BY <1>1, <1>2, <1>4 DEF RagInv

\* Rows are only added.
LEMMA RowsStay ==
    ASSUME DOMAIN rRows \subseteq (DOMAIN rRows)', NEW chunks, RowsOf(chunks)
    PROVE  RowsOf(chunks)'
BY DEF RowsOf

\* What a step leaves the configuration and adds to what is stored, stays stored.
LEMMA StoredStays ==
    ASSUME rConfig' = rConfig, DOMAIN rRows \subseteq (DOMAIN rRows)',
           NEW c, rStored[c] \subseteq rStored'[c]
    PROVE  \A chunks : Stored(c, chunks) => Stored(c, chunks)'
<1> SUFFICES ASSUME NEW chunks, Stored(c, chunks)
             PROVE  Stored(c, chunks)'
  OBVIOUS
<1>1. InMemory' = InMemory
  BY DEF InMemory
<1>2. CASE InMemory
  BY <1>1, <1>2 DEF Stored
<1>3. CASE ~InMemory
  <2>1. RowsOf(chunks)'
    BY <1>3, RowsStay DEF Stored
  <2> QED
    BY <1>1, <1>3, <2>1 DEF Stored
<1> QED
  BY <1>2, <1>3

LEMMA TasksStay ==
    ASSUME RagInv, rConfig' = rConfig, DOMAIN rRows \subseteq (DOMAIN rRows)',
           NEW t \in Ingesters, rTask'[t] = rTask[t]
    PROVE  (rTask[t] = NotIngesting \/ (~InMemory /\ Inserting(rTask[t])))'
<1>1. CASE rTask[t] = NotIngesting
  BY <1>1
<1>2. CASE ~InMemory /\ Inserting(rTask[t])
  <2>1. (~InMemory)'
    BY <1>2 DEF InMemory
  <2>2. RowsOf(rTask[t].all \ rTask[t].chunks)'
    <3> DEFINE chunks == rTask[t].all \ rTask[t].chunks
    <3>1. RowsOf(chunks)
      BY <1>2 DEF Inserting
    <3>2. \A chunk \in chunks : chunk.id \in (DOMAIN rRows)'
      BY <3>1 DEF RowsOf
    <3>3. (rTask[t].all \ rTask[t].chunks)' = chunks
      OBVIOUS
    <3> QED
      BY <3>2, <3>3 DEF RowsOf
  <2>3. Inserting(rTask[t])'
    BY <1>2, <2>2 DEF Inserting, Shown
  <2> QED
    BY <2>1, <2>3
<1> QED
  BY <1>1, <1>2 DEF RagInv

\* A step of one task, that stores more, and what it adds to what was ingested.
LEMMA RagStepIs ==
    ASSUME RagInv, rConfig \in RagConfigs, rConfig' = rConfig,
           DOMAIN rRows \subseteq (DOMAIN rRows)',
           rStored' = [c \in Collections |-> rStored'[c]],
           \A c \in Collections : rStored[c] \subseteq rStored'[c],
           rIngested' = [c \in Collections |-> rIngested'[c]],
           \A c \in Collections : \A e \in rIngested'[c] \ rIngested[c] :
               Shown(e.doc, e.chunks) /\ Stored(c, e.chunks)',
           rTask' = [t \in Ingesters |-> rTask'[t]],
           \A t \in Ingesters :
               \/ rTask'[t] = rTask[t]
               \/ (rTask[t] = NotIngesting \/ (~InMemory /\ Inserting(rTask[t])))'
    PROVE  RagInv'
<1>1. \A t \in Ingesters : (rTask[t] = NotIngesting \/ (~InMemory /\ Inserting(rTask[t])))'
  BY TasksStay
<1>2. ASSUME NEW c \in Collections, NEW e \in rIngested'[c]
      PROVE  Shown(e.doc, e.chunks) /\ Stored(c, e.chunks)'
  <2>1. CASE e \in rIngested[c]
    <3>1. Shown(e.doc, e.chunks) /\ Stored(c, e.chunks)
      BY <2>1 DEF RagInv
    <3> QED
      BY <3>1, StoredStays
  <2> QED
    BY <2>1
<1>3. (\A c \in Collections : \A e \in rIngested[c] : Shown(e.doc, e.chunks) /\ Stored(c, e.chunks))'
  BY <1>2
<1>4. (rConfig \in RagConfigs)'
  BY DEF RagConfigs
<1> QED
  BY <1>1, <1>3, <1>4 DEF RagInv

LEMMA IngestKeeps ==
    ASSUME RagInv, rConfig # NoProvider, NEW t \in Ingesters, NEW c \in Collections,
           NEW doc \in Documents, NEW alike, Ingest(t, c, doc, alike)
    PROVE  RagInv'
<1> DEFINE chunks == ChunksOf(doc, rConfig, alike)
           entry == [doc |-> doc, chunks |-> chunks]
           task == [state |-> "inserting", collection |-> c, doc |-> doc, all |-> chunks,
                    chunks |-> chunks]
<1>1. rConfig \in RagConfigs
  BY ConfigIs
<1>2. Shown(doc, chunks)
  BY <1>1, ChunksShow
<1>3. rConfig' = rConfig /\ rRows' = rRows
  BY DEF Ingest
<1>4. CASE InMemory
  <2>1. /\ rStored' = [rStored EXCEPT ![c] = @ \cup chunks]
        /\ rIngested' = [rIngested EXCEPT ![c] = @ \cup {entry}]
        /\ rTask' = rTask
    BY <1>4 DEF Ingest, InMemory
  <2> HIDE DEF chunks
  <2>2. /\ rStored' = [d \in Collections |-> rStored'[d]]
        /\ \A d \in Collections : rStored[d] \subseteq rStored'[d]
        /\ chunks \subseteq rStored'[c]
    BY <2>1 DEF RagInv
  <2>3. rIngested' = [d \in Collections |-> rIngested'[d]]
    BY <2>1 DEF RagInv
  <2>4. ASSUME NEW d \in Collections, NEW e \in rIngested'[d] \ rIngested[d]
        PROVE  d = c /\ e = entry
    BY <2>1 DEF RagInv
  <2>5. InMemory'
    BY <1>3, <1>4 DEF InMemory
  <2>6. entry.doc = doc /\ entry.chunks = chunks
    OBVIOUS
  <2>7. rTask' = [u \in Ingesters |-> rTask'[u]]
    BY <2>1 DEF RagInv
  <2> HIDE DEF entry
  <2>8. ASSUME NEW d \in Collections, NEW e \in rIngested'[d] \ rIngested[d]
        PROVE  Shown(e.doc, e.chunks) /\ Stored(d, e.chunks)'
    <3>1. d = c /\ e.doc = doc /\ e.chunks = chunks
      BY <2>4, <2>6
    <3>2. e.chunks \subseteq rStored'[d]
      BY <2>2, <3>1
    <3> QED
      BY <1>2, <2>5, <3>1, <3>2 DEF Stored
  <2> QED
    BY <1>1, <1>3, <2>1, <2>2, <2>3, <2>7, <2>8, RagStepIs
<1>5. CASE ~InMemory
  <2>1. /\ rTask' = [rTask EXCEPT ![t] = task]
        /\ UNCHANGED <<rStored, rIngested>>
    BY <1>5 DEF Ingest, InMemory
  <2> HIDE DEF chunks
  <2>2. rTask' = [u \in Ingesters |-> rTask'[u]] /\ rTask'[t] = task
        /\ \A u \in Ingesters : u # t => rTask'[u] = rTask[u]
    BY <2>1 DEF RagInv
  <2>3. task.state = "inserting" /\ task.collection = c /\ task.doc = doc
        /\ task.all = chunks /\ task.chunks = chunks
    OBVIOUS
  <2> HIDE DEF task
  <2>4. (~InMemory)'
    BY <1>3, <1>5 DEF InMemory
  <2>5. Inserting(rTask[t])'
    <3>1. RowsOf(rTask[t].all \ rTask[t].chunks)'
      BY <2>2, <2>3 DEF RowsOf
    <3> QED
      BY <1>2, <2>2, <2>3, <3>1 DEF Inserting, Shown
  <2>6. \A u \in Ingesters :
            \/ rTask'[u] = rTask[u]
            \/ (rTask[u] = NotIngesting \/ (~InMemory /\ Inserting(rTask[u])))'
    BY <2>2, <2>4, <2>5
  <2>7. /\ rStored' = [d \in Collections |-> rStored'[d]]
        /\ rIngested' = [d \in Collections |-> rIngested'[d]]
        /\ \A d \in Collections : rStored[d] \subseteq rStored'[d]
        /\ \A d \in Collections : rIngested'[d] \ rIngested[d] = {}
    BY <2>1 DEF RagInv
  <2> QED
    BY <1>1, <1>3, <2>2, <2>6, <2>7, RagStepIs
<1> QED
  BY <1>4, <1>5

LEMMA InsertRowKeeps ==
    ASSUME RagInv, NEW t \in Ingesters, InsertRow(t)
    PROVE  RagInv'
<1>1. PICK chunk \in rTask[t].chunks :
          /\ DOMAIN rRows' = DOMAIN rRows \cup {chunk.id}
          /\ rTask' = [rTask EXCEPT ![t].chunks = @ \ {chunk}]
  BY DEF InsertRow
<1>2. ~InMemory /\ Inserting(rTask[t]) /\ rTask[t] # NotIngesting
  BY DEF InsertRow, RagInv, NotIngesting
<1>3. rConfig \in RagConfigs /\ rConfig' = rConfig /\ UNCHANGED <<rStored, rIngested>>
  BY <1>2 DEF RagInv, InsertRow
<1>4. (~InMemory)'
  BY <1>2, <1>3 DEF InMemory
<1>5. /\ rTask' = [u \in Ingesters |-> rTask'[u]]
      /\ rTask'[t] = [rTask[t] EXCEPT !.chunks = @ \ {chunk}]
      /\ \A u \in Ingesters : u # t => rTask'[u] = rTask[u]
  BY <1>1 DEF RagInv
<1>6. /\ rTask'[t].state = rTask[t].state /\ rTask'[t].collection = rTask[t].collection
      /\ rTask'[t].doc = rTask[t].doc /\ rTask'[t].all = rTask[t].all
      /\ rTask'[t].chunks = rTask[t].chunks \ {chunk}
  BY <1>5
<1>7. Inserting(rTask[t])'
  <2>1. RowsOf(rTask[t].all \ rTask[t].chunks)'
    BY <1>1, <1>2, <1>6 DEF RowsOf, Inserting
  <2> QED
    BY <1>2, <1>6, <2>1 DEF Inserting, Shown
<1>8. \A u \in Ingesters :
          \/ rTask'[u] = rTask[u]
          \/ (rTask[u] = NotIngesting \/ (~InMemory /\ Inserting(rTask[u])))'
  BY <1>4, <1>5, <1>7
<1>9. /\ rStored' = [d \in Collections |-> rStored'[d]]
      /\ rIngested' = [d \in Collections |-> rIngested'[d]]
      /\ \A d \in Collections : rStored[d] \subseteq rStored'[d]
      /\ \A d \in Collections : rIngested'[d] \ rIngested[d] = {}
  BY <1>3 DEF RagInv
<1> QED
  BY <1>1, <1>3, <1>5, <1>8, <1>9, RagStepIs

\* An ingest ends, by returning or failing.
LEMMA IngestEndsKeeps ==
    ASSUME RagInv, NEW t \in Ingesters, IngestReturns(t) \/ IngestFails(t)
    PROVE  RagInv'
<1>1. ~InMemory /\ Inserting(rTask[t]) /\ rConfig \in RagConfigs
  BY DEF IngestReturns, IngestFails, RagInv, NotIngesting
<1>2. rConfig' = rConfig /\ UNCHANGED <<rStored, rRows>> /\ rTask' = [rTask EXCEPT ![t] = NotIngesting]
  BY DEF IngestReturns, IngestFails
<1>3. /\ rTask' = [u \in Ingesters |-> rTask'[u]] /\ rTask'[t] = NotIngesting
      /\ \A u \in Ingesters : u # t => rTask'[u] = rTask[u]
  BY <1>2 DEF RagInv
<1>4. \A u \in Ingesters :
          \/ rTask'[u] = rTask[u]
          \/ (rTask[u] = NotIngesting \/ (~InMemory /\ Inserting(rTask[u])))'
  BY <1>3
<1>5. /\ rStored' = [d \in Collections |-> rStored'[d]]
      /\ \A d \in Collections : rStored[d] \subseteq rStored'[d]
  BY <1>2 DEF RagInv
<1>6. /\ rIngested' = [d \in Collections |-> rIngested'[d]]
      /\ \A d \in Collections : \A e \in rIngested'[d] \ rIngested[d] :
            Shown(e.doc, e.chunks) /\ Stored(d, e.chunks)'
  <2>1. CASE IngestFails(t)
    BY <2>1 DEF IngestFails, RagInv
  <2>2. CASE IngestReturns(t)
    <3> DEFINE task == rTask[t]
               entry == [doc |-> task.doc, chunks |-> task.all]
    <3>1. rIngested' = [rIngested EXCEPT ![task.collection] = @ \cup {entry}] /\ task.chunks = {}
      BY <2>2 DEF IngestReturns
    <3>2. Shown(task.doc, task.all) /\ RowsOf(task.all)
      <4>1. task.all \ task.chunks = task.all
        BY <3>1
      <4> QED
        BY <1>1, <4>1 DEF Inserting
    <3>3. entry.doc = task.doc /\ entry.chunks = task.all
      OBVIOUS
    <3> HIDE DEF entry, task
    <3>4. rIngested' = [d \in Collections |-> rIngested'[d]]
          /\ \A d \in Collections : \A e \in rIngested'[d] \ rIngested[d] : e = entry
      BY <3>1 DEF RagInv
    <3>5. ASSUME NEW d \in Collections, NEW e \in rIngested'[d] \ rIngested[d]
          PROVE  Shown(e.doc, e.chunks) /\ Stored(d, e.chunks)'
      <4>1. e.doc = task.doc /\ e.chunks = task.all
        BY <3>3, <3>4
      <4>2. (~InMemory)' /\ \A chunk \in e.chunks : chunk.id \in DOMAIN rRows'
        BY <1>1, <1>2, <3>2, <4>1 DEF InMemory, RowsOf
      <4>3. RowsOf(e.chunks)'
        BY <4>2 DEF RowsOf
      <4> QED
        BY <3>2, <4>1, <4>2, <4>3 DEF Stored
    <3> QED
      BY <3>4, <3>5
  <2> QED
    BY <2>1, <2>2
<1> QED
  BY <1>1, <1>2, <1>3, <1>4, <1>5, <1>6, RagStepIs

LEMMA ChangeModelKeeps == RagInv /\ ChangeModel => RagInv'
<1> SUFFICES ASSUME RagInv, ChangeModel
             PROVE  RagInv'
  OBVIOUS
<1>1. UNCHANGED <<rConfig, rStored, rRows, rTask, rIngested>>
  BY DEF ChangeModel
<1> QED
  BY <1>1 DEF RagInv, Stored, Inserting, RowsOf, InMemory

LEMMA RagStep == RagInv /\ [RagNext]_ragVars => RagInv'
<1> SUFFICES ASSUME RagInv, [RagNext]_ragVars
             PROVE  RagInv'
  OBVIOUS
<1>1. CASE BuildProvider
  BY <1>1, BuildProviderKeeps
<1>2. CASE ChangeModel
  BY <1>2, ChangeModelKeeps
<1>3. ASSUME NEW t \in Ingesters, NEW c \in Collections, NEW doc \in Fitting, NEW alike \in Alikes,
             rConfig # NoProvider, Ingest(t, c, doc, alike)
      PROVE  RagInv'
  <2>1. doc \in Documents
    BY DEF Fitting
  <2> QED
    BY <1>3, <2>1, IngestKeeps
<1>4. ASSUME NEW t \in Ingesters, InsertRow(t)
      PROVE  RagInv'
  BY <1>4, InsertRowKeeps
<1>5. ASSUME NEW t \in Ingesters, IngestReturns(t) \/ IngestFails(t)
      PROVE  RagInv'
  BY <1>5, IngestEndsKeeps
<1>6. CASE UNCHANGED ragVars
  <2>1. UNCHANGED <<rConfig, rStored, rRows, rTask, rIngested>>
    BY <1>6 DEF ragVars
  <2> QED
    BY <2>1 DEF RagInv, Stored, Inserting, RowsOf, InMemory
<1> QED
  BY <1>1, <1>2, <1>3, <1>4, <1>5, <1>6 DEF RagNext

LEMMA StoredIsFound == RagInv => IngestedIsFound
<1> SUFFICES ASSUME RagInv, NEW c \in Collections, NEW e \in rIngested[c],
                    NEW i \in DOMAIN e.doc, e.doc[i] = "x"
             PROVE  \E chunk \in e.chunks :
                       /\ i \in chunk.shows
                       /\ chunk.id \in IF InMemory THEN Retrieved(c) ELSE DOMAIN rRows
  BY DEF IngestedIsFound, FoundAmong, InMemory
<1>1. Shown(e.doc, e.chunks) /\ Stored(c, e.chunks)
  BY DEF RagInv
<1>2. PICK chunk \in e.chunks : i \in chunk.shows
  BY <1>1 DEF Shown, Words
<1>3. CASE InMemory
  <2>1. chunk \in rStored[c]
    BY <1>1, <1>2, <1>3 DEF Stored
  <2>2. chunk.id \in Retrieved(c)
    BY <1>3, <2>1 DEF Retrieved, InMemory
  <2> QED
    BY <1>2, <1>3, <2>2
<1>4. CASE ~InMemory
  <2>1. chunk.id \in DOMAIN rRows
    BY <1>1, <1>2, <1>4 DEF Stored, RowsOf
  <2> QED
    BY <1>2, <1>4, <2>1
<1> QED
  BY <1>3, <1>4

(***************************************************************************)
(* What was ingested is found, for any document, chunk size and overlap:   *)
(* however a text is cut, every word of it is in a chunk, whose row or     *)
(* place in the list no later ingest, of this or another collection,       *)
(* finished or failed half way, takes away.  (rag/chunking.py, ingest of   *)
(* rag/providers)                                                          *)
(***************************************************************************)
THEOREM NoWordIsLost == RagSpec => []IngestedIsFound
<1>1. RagInit => RagInv
  BY RagStarts
<1>2. RagInv /\ [RagNext]_ragVars => RagInv'
  BY RagStep
<1>3. RagInv => IngestedIsFound
  BY StoredIsFound
<1> QED
  BY <1>1, <1>2, <1>3, PTL DEF RagSpec
=============================================================================
