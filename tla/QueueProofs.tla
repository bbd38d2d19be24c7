----------------------------- MODULE QueueProofs -----------------------------
(***************************************************************************)
(* Theorems about the merge queue, for any plan, any world of failures and *)
(* any number of candidates in flight.  Validation: what is green was      *)
(* gated as it will merge, and nobody is blamed for what another change    *)
(* did.  Applying, on top of a pipeline's validation: whatever is pushed,  *)
(* withdrawn, refused or lost, and wherever the applier dies, a change     *)
(* merges as it was gated and the base stays green.                        *)
(***************************************************************************)
EXTENDS QueueApply, TLAPS

Shape ==
  /\ stage \in [Change -> Flying \cup {"pending", "decided", "lost"}]
  /\ onto \in [Change -> SUBSET Change]
  /\ base \in [Groups -> SUBSET Change]
  /\ gated \in [Keys -> Results \cup {"no", "running", "error"}]
  /\ verdict \in [Change -> Decisions \cup {"none"}]

\* A change is decided when it has a verdict; in a pipeline, candidates are built in
\* order and what is green was the lowest.
Ordered ==
  /\ \A c \in Change : stage[c] = "decided" <=> verdict[c] # "none"
  /\ Apart \/ \A c \in Change :
       /\ stage[c] # "lost"
       /\ stage[c] \in Flying => \A d \in Ahead(c) : stage[d] # "pending"
       /\ verdict[c] = "merge" => \A d \in Ahead(c) : stage[d] = "decided"

\* The base of a partition is what is green in it, and a candidate in flight is built on
\* that and on what is in flight ahead of it.
BuiltOnAhead ==
  Apart \/
    /\ \A c \in Change : base[Group[c]] = {d \in Change : Group[d] = Group[c] /\ verdict[d] = "merge"}
    /\ \A c \in Change : stage[c] \in Flying =>
         onto[c] = {d \in Ahead(c) : verdict[d] = "merge" \/ stage[d] \in Flying \ {"refused"}}

\* What is recorded of a gate is what the gate said.
GatesTrue ==
  /\ \A c \in Change :
       /\ stage[c] = "green" => ~IsRed(onto[c] \cup {c}, Units[c])
       /\ stage[c] = "red" => IsRed(onto[c] \cup {c}, Units[c])
       /\ stage[c] = "fault" => MayFault
       /\ stage[c] = "refused" => c \in world.refused
  /\ \A k \in Keys :
       /\ gated[k] = "green" => ~IsRed(k[1], k[2])
       /\ gated[k] = "fault" => MayFault

\* A candidate in flight holds all of the stacks it holds a part of.
StackUnder ==
  \A c \in Change : stage[c] \in Flying =>
    \A d \in onto[c] \cup {c} : Below[d] \in onto[c] \cup {NoChange}

QueueInv ==
  /\ Shape /\ Ordered /\ BuiltOnAhead /\ GatesTrue /\ StackUnder
  /\ OnAllAhead /\ GreenIsGated /\ StackKept

-----------------------------------------------------------------------------
\* A partition is a line.
LEMMA Line ==
  ASSUME NEW c \in Change, NEW d \in Change, Group[c] = Group[d], c # d
  PROVE  /\ c \in Ahead(d) \/ d \in Ahead(c)
         /\ ~(c \in Ahead(d) /\ d \in Ahead(c))
  BY QueueValidateAssumption DEF Ahead

LEMMA AheadThrough ==
  ASSUME NEW c \in Change, NEW d \in Ahead(c)
  PROVE  /\ d \in Change /\ Group[d] = Group[c] /\ d # c
         /\ Ahead(d) \subseteq Ahead(c)
  BY QueueValidateAssumption DEF Ahead

LEMMA InitQueueInv == VInit => QueueInv
  BY DEF VInit, Fresh, QueueInv, Shape, Ordered, BuiltOnAhead, GatesTrue, StackUnder,
         OnAllAhead, GreenIsGated, StackKept, Flying, Results, Decisions, Groups

\* A change that waits before it is built takes nothing from the others.
LEMMA PassedOver ==
  ASSUME QueueInv, NEW c \in Change, stage[c] = "pending",
         NEW v \in Waits, NEW S \in SUBSET Change,
         verdict' = [verdict EXCEPT ![c] = v],
         stage' = [stage EXCEPT ![c] = "decided"],
         onto' = [onto EXCEPT ![c] = S],
         UNCHANGED <<world, base, gated>>
  PROVE  QueueInv'
<1> USE DEF QueueInv
<1>1. Shape' BY DEF Shape, Decisions
<1>2. v \notin {"none", "merge", "kick"} BY DEF Waits
<1>3. verdict[c] = "none" BY DEF Ordered
<1>4. /\ \A d \in Change \ {c} : verdict'[d] = verdict[d] /\ stage'[d] = stage[d] /\ onto'[d] = onto[d]
      /\ verdict'[c] = v /\ stage'[c] = "decided" /\ onto'[c] = S
  BY DEF Shape
<1>5. "decided" \notin Flying /\ "pending" \notin Flying BY DEF Flying
<1>6. \A d \in Change : d \notin Ahead(d) /\ Ahead(d) \subseteq Change BY AheadThrough DEF Ahead
<1>7. Ordered' BY <1>2, <1>3, <1>4, <1>5, <1>6 DEF Ordered
<1>8. BuiltOnAhead' BY <1>2, <1>3, <1>4, <1>5, <1>6 DEF BuiltOnAhead
<1>9. GatesTrue' BY <1>4 DEF GatesTrue, IsRed
<1>10. StackUnder' BY <1>4, <1>5 DEF StackUnder
<1>11. OnAllAhead' BY <1>2, <1>3, <1>4, <1>6 DEF OnAllAhead
<1>12. GreenIsGated' BY <1>2, <1>4 DEF GreenIsGated, IsRed
<1>14. StackKept' BY <1>2, <1>4 DEF StackKept
<1> QED BY <1>1, <1>7, <1>8, <1>9, <1>10, <1>11, <1>12, <1>14

LEMMA HoldInv == ASSUME QueueInv, NEW c \in Change, Hold(c) PROVE QueueInv'
<1>1. HoldCode(c) \in Waits BY DEF HoldCode, Waits
<1>2. onto' = [onto EXCEPT ![c] = onto[c]] /\ onto[c] \in SUBSET Change
  BY DEF Hold, QueueInv, Shape
<1> QED BY <1>1, <1>2, PassedOver DEF Hold, Fills, Decide, To

\* What a pipeline builds the next candidate on: everything green or in flight ahead.
LEMMA NextUnder ==
  ASSUME QueueInv, ~Apart, NEW c \in Change, Fills(c), ~StackHeld(c)
  PROVE  /\ Under(Group[c]) = {d \in Ahead(c) : verdict[d] = "merge" \/ stage[d] \in Flying \ {"refused"}}
         /\ \A d \in Under(Group[c]) \cup {c} : Below[d] \in Under(Group[c]) \cup {NoChange}
<1> DEFINE U == Under(Group[c])
<1> USE DEF QueueInv
<1>1. stage[c] = "pending" /\ verdict[c] = "none" /\ \A d \in Ahead(c) : stage[d] # "pending"
  BY DEF Fills, Ordered
<1>2. \A d \in Change : d \in U <=> Group[d] = Group[c] /\ (verdict[d] = "merge" \/ stage[d] \in Flying \ {"refused"})
  BY DEF Under, Built, Flights, BuiltOnAhead
<1>3. ASSUME NEW d \in U PROVE d \in Ahead(c)
  <2>1. U \subseteq Change BY DEF Under, Built, Flights, BuiltOnAhead
  <2>2. d \in Change /\ Group[d] = Group[c] /\ d # c BY <1>1, <1>2, <2>1 DEF Flying
  <2>3. c \notin Ahead(d) BY <1>1, <1>2, <2>1 DEF Ordered
  <2> QED BY <2>2, <2>3, Line
<1>4. U = {d \in Ahead(c) : verdict[d] = "merge" \/ stage[d] \in Flying \ {"refused"}}
  BY <1>2, <1>3, AheadThrough
<1>5. ASSUME NEW d \in U PROVE Below[d] \in U \cup {NoChange}
  <2>1. d \in Change /\ Group[d] = Group[c] BY <1>3, AheadThrough
  <2>2. onto[d] \subseteq U
    <3>1. \A e \in Ahead(d) : e \in Change /\ Group[e] = Group[c] BY <2>1, AheadThrough
    <3>2. CASE verdict[d] = "merge" BY <1>2, <2>1, <3>1, <3>2 DEF OnAllAhead
    <3>3. CASE stage[d] \in Flying BY <1>2, <2>1, <3>1, <3>3 DEF BuiltOnAhead
    <3> QED BY <1>2, <2>1, <3>2, <3>3
  <2>3. Below[d] \in onto[d] \cup {NoChange}
    BY <1>2, <2>1 DEF StackKept, StackUnder
  <2> QED BY <2>2, <2>3
<1>6. Below[c] \in U \cup {NoChange}
  <2> SUFFICES ASSUME Below[c] # NoChange PROVE Below[c] \in U OBVIOUS
  <2>1. Below[c] \in Ahead(c) BY QueueValidateAssumption
  <2>2. Below[c] \in Change /\ Group[Below[c]] = Group[c] BY <2>1, AheadThrough
  <2>3. verdict[Below[c]] \in {"none", "merge"} /\ stage[Below[c]] # "refused"
    BY DEF StackHeld, Held
  <2>4. stage[Below[c]] \notin {"pending", "lost"} BY <1>1, <2>1, <2>2 DEF Ordered
  <2>5. verdict[Below[c]] = "none" => stage[Below[c]] \in Flying
    BY <2>2, <2>4 DEF Ordered, Shape
  <2> QED BY <1>2, <2>2, <2>3, <2>5
<1> QED BY <1>4, <1>5, <1>6

\* A candidate joins the flights.
LEMMA TakesOff ==
  ASSUME QueueInv, NEW c \in Change, stage[c] = "pending",
         NEW S \in SUBSET Change, NEW s \in {"refused", "gating"},
         s = "refused" => c \in world.refused,
         \A d \in S \cup {c} : Below[d] \in S \cup {NoChange},
         Apart \/ /\ S = {d \in Ahead(c) : verdict[d] = "merge" \/ stage[d] \in Flying \ {"refused"}}
                  /\ \A d \in Ahead(c) : stage[d] # "pending",
         stage' = [stage EXCEPT ![c] = s],
         onto' = [onto EXCEPT ![c] = S],
         UNCHANGED <<world, base, gated, verdict>>
  PROVE  QueueInv'
<1> USE DEF QueueInv
<1>1. Shape' BY DEF Shape, Flying
<1>2. /\ \A d \in Change \ {c} : stage'[d] = stage[d] /\ onto'[d] = onto[d]
      /\ stage'[c] = s /\ onto'[c] = S /\ s \in Flying /\ s # "decided"
  BY DEF Shape, Flying
<1>3. verdict[c] = "none" BY DEF Ordered
<1>4. "decided" \notin Flying /\ "pending" \notin Flying /\ "lost" \notin Flying BY DEF Flying
<1>5. \A d \in Change : d \notin Ahead(d) /\ Ahead(d) \subseteq Change BY AheadThrough DEF Ahead
<1>6. ~Apart => \A d \in Change : stage[d] \in Flying => c \notin Ahead(d) BY DEF Ordered
<1>7. Ordered' BY <1>2, <1>3, <1>4, <1>5 DEF Ordered
<1>8. BuiltOnAhead'
  <2> SUFFICES ASSUME ~Apart PROVE BuiltOnAhead' BY DEF BuiltOnAhead
  <2>1. ASSUME NEW d \in Change, stage'[d] \in Flying
        PROVE  onto'[d] = {e \in Ahead(d) : verdict'[e] = "merge" \/ stage'[e] \in Flying \ {"refused"}}
    BY <1>2, <1>5, <1>6, <2>1 DEF BuiltOnAhead
  <2> QED BY <2>1 DEF BuiltOnAhead
<1>9. GatesTrue' BY <1>2 DEF GatesTrue, IsRed
<1>10. StackUnder' BY <1>2 DEF StackUnder
<1>11. OnAllAhead' BY <1>2, <1>3 DEF OnAllAhead
<1>12. GreenIsGated' BY <1>2, <1>3 DEF GreenIsGated, IsRed
<1>14. StackKept' BY <1>2, <1>3 DEF StackKept
<1> QED BY <1>1, <1>7, <1>8, <1>9, <1>10, <1>11, <1>12, <1>14

LEMMA LaunchInv == ASSUME QueueInv, NEW c \in Change, Launch(c) PROVE QueueInv'
<1> DEFINE U == Under(Group[c])
<1>1. U \in SUBSET Change BY NextUnder, AheadThrough DEF Launch
<1>2. stage[c] = "pending" BY DEF Launch, Fills
<1>3. CASE Clashes(c, U)
  BY <1>1, <1>2, <1>3, PassedOver DEF Launch, Decide, To, Waits
<1>4. CASE ~Clashes(c, U)
  <2> DEFINE s == IF c \in world.refused THEN "refused" ELSE "gating"
  <2>1. s \in {"refused", "gating"} /\ (s = "refused" => c \in world.refused) OBVIOUS
  <2>2. stage' = [stage EXCEPT ![c] = s] /\ onto' = [onto EXCEPT ![c] = U]
    BY <1>4 DEF Launch, To
  <2>3. UNCHANGED <<world, base, gated, verdict>> BY <1>4 DEF Launch, Undecided
  <2>4. /\ U = {d \in Ahead(c) : verdict[d] = "merge" \/ stage[d] \in Flying \ {"refused"}}
        /\ \A d \in U \cup {c} : Below[d] \in U \cup {NoChange}
        /\ \A d \in Ahead(c) : stage[d] # "pending"
    BY NextUnder DEF Launch, Fills
  <2> HIDE DEF U, s
  <2> QED BY <1>1, <1>2, <2>1, <2>2, <2>3, <2>4, TakesOff
<1> QED BY <1>3, <1>4

LEMMA JobInv == ASSUME QueueInv, NEW c \in Change, Job(c) PROVE QueueInv'
<1>1. PICK lost \in SUBSET Ahead(c), K \in SUBSET Ahead(c) :
        /\ Chain(c, lost, K)
        /\ onto' = [onto EXCEPT ![c] = K]
        /\ \/ Below[c] \notin K \cup {NoChange} /\ Decide(c, "below") /\ To(c, "decided")
           \/ Below[c] \in K \cup {NoChange} /\ Clashes(c, K) /\ Decide(c, "conflict") /\ To(c, "decided")
           \/ /\ Below[c] \in K \cup {NoChange} /\ ~Clashes(c, K)
              /\ Undecided /\ To(c, IF c \in world.refused THEN "refused" ELSE "gating")
  BY DEF Job
<1>2. K \in SUBSET Change /\ stage[c] = "pending" /\ Apart /\ UNCHANGED <<world, base, gated>>
  BY AheadThrough DEF Job
<1>3. CASE Decide(c, "below") /\ To(c, "decided")
  BY <1>1, <1>2, <1>3, PassedOver DEF Decide, To, Waits
<1>4. CASE Decide(c, "conflict") /\ To(c, "decided")
  BY <1>1, <1>2, <1>4, PassedOver DEF Decide, To, Waits
<1>5. CASE Below[c] \in K \cup {NoChange} /\ Undecided /\ To(c, IF c \in world.refused THEN "refused" ELSE "gating")
  <2> DEFINE s == IF c \in world.refused THEN "refused" ELSE "gating"
  <2>1. s \in {"refused", "gating"} /\ (s = "refused" => c \in world.refused) OBVIOUS
  <2>2. stage' = [stage EXCEPT ![c] = s] BY <1>5 DEF To
  <2>3. verdict' = verdict BY <1>5 DEF Undecided
  <2>4. \A d \in K \cup {c} : Below[d] \in K \cup {NoChange} BY <1>1, <1>5 DEF Chain
  <2> HIDE DEF s
  <2> QED BY <1>1, <1>2, <2>1, <2>2, <2>3, <2>4, TakesOff
<1> QED BY <1>1, <1>3, <1>4, <1>5

\* What the lowest candidate of a pipeline is built on is green, all of it.
LEMMA LowestOnGreen ==
  ASSUME QueueInv, ~Apart, NEW c \in Change, Lowest(c)
  PROVE  onto[c] = {d \in Ahead(c) : verdict[d] = "merge"}
  BY AheadThrough DEF QueueInv, BuiltOnAhead, Lowest

\* A candidate that is not green is decided, and in a pipeline what was built on it goes
\* back to pending.
LEMMA Grounds ==
  ASSUME QueueInv, NEW c \in Change, stage[c] \in Flying,
         NEW v \in Waits \cup {"kick"}, NEW G \in SUBSET Change,
         Apart => G = {},
         ~Apart => G = Flights(Group[c]) \/ (G = {} /\ stage[c] = "refused"),
         verdict' = [verdict EXCEPT ![c] = v],
         stage' = [d \in Change |-> IF d = c THEN "decided" ELSE IF d \in G THEN "pending" ELSE stage[d]],
         UNCHANGED <<world, onto, base, gated>>
  PROVE  QueueInv'
<1> USE DEF QueueInv
<1>1. Shape' BY DEF Shape, Decisions
<1>2. v \notin {"none", "merge"} BY DEF Waits
<1>3. verdict[c] = "none" /\ "decided" \notin Flying /\ "pending" \notin Flying
  BY DEF Ordered, Flying
<1>4. /\ \A d \in Change \ {c} : verdict'[d] = verdict[d]
      /\ verdict'[c] = v /\ onto' = onto
      /\ \A d \in Change : verdict'[d] = "merge" <=> verdict[d] = "merge"
  BY <1>2, <1>3 DEF Shape
<1>5. \A d \in Change : stage'[d] \in Flying => stage[d] \in Flying /\ stage'[d] = stage[d] /\ d # c /\ d \notin G
  BY <1>3
<1>6. \A d \in G : d \in Change /\ stage[d] \in Flying /\ (~Apart => Group[d] = Group[c]) /\ verdict[d] = "none"
  BY <1>3 DEF Flights, Ordered
<1>7. Ordered'
  <2>1. \A d \in Change : stage'[d] = "decided" <=> verdict'[d] # "none"
    BY <1>2, <1>3, <1>4, <1>6 DEF Ordered
  <2>2. ASSUME ~Apart, NEW d \in Change PROVE stage'[d] # "lost" BY <2>2 DEF Ordered
  <2>3. ASSUME ~Apart, NEW d \in Change, stage'[d] \in Flying, NEW e \in Ahead(d)
        PROVE  stage'[e] # "pending"
    <3>1. e \in Change /\ Group[e] = Group[d] BY AheadThrough
    <3>2. stage[e] # "pending" BY <1>5, <2>3 DEF Ordered
    <3>3. e \notin G BY <1>5, <1>6, <2>3, <3>1 DEF Flights
    <3> QED BY <3>1, <3>2, <3>3
  <2>4. ASSUME ~Apart, NEW d \in Change, verdict'[d] = "merge", NEW e \in Ahead(d)
        PROVE  stage'[e] = "decided"
    <3>1. e \in Change /\ stage[e] = "decided" BY <1>4, <2>4, AheadThrough DEF Ordered
    <3> QED BY <1>3, <1>6, <3>1
  <2> QED BY <2>1, <2>2, <2>3, <2>4 DEF Ordered
<1>8. BuiltOnAhead'
  <2> SUFFICES ASSUME ~Apart PROVE BuiltOnAhead' BY DEF BuiltOnAhead
  <2>1. \A d \in Change : base'[Group[d]] = {e \in Change : Group[e] = Group[d] /\ verdict'[e] = "merge"}
    BY <1>4 DEF BuiltOnAhead
  <2>2. ASSUME NEW d \in Change, stage'[d] \in Flying
        PROVE  onto'[d] = {e \in Ahead(d) : verdict'[e] = "merge" \/ stage'[e] \in Flying \ {"refused"}}
    <3>1. \A e \in Ahead(d) : e \in Change /\ Group[e] = Group[d] BY AheadThrough
    <3>2. \A e \in Ahead(d) : e \notin G BY <1>5, <1>6, <2>2, <3>1 DEF Flights
    <3>3. \A e \in Ahead(d) : e = c => stage[c] = "refused"
      BY <1>5, <2>2, <3>1 DEF Flights
    <3>4. \A e \in Ahead(d) : stage'[e] \in Flying \ {"refused"} <=> stage[e] \in Flying \ {"refused"}
      BY <1>3, <3>1, <3>2, <3>3
    <3> QED BY <1>4, <1>5, <2>2, <3>1, <3>4 DEF BuiltOnAhead
  <2> QED BY <2>1, <2>2 DEF BuiltOnAhead
<1>9. GatesTrue' BY <1>4, <1>5 DEF GatesTrue, IsRed, Flying
<1>10. StackUnder' BY <1>4, <1>5 DEF StackUnder
<1>11. OnAllAhead' BY <1>4, AheadThrough DEF OnAllAhead
<1>12. GreenIsGated' BY <1>4 DEF GreenIsGated, IsRed
<1>14. StackKept' BY <1>4 DEF StackKept, StackUnder
<1> QED BY <1>1, <1>7, <1>8, <1>9, <1>10, <1>11, <1>12, <1>14

LEMMA RefuseInv == ASSUME QueueInv, NEW c \in Change, Refuse(c) PROVE QueueInv'
<1> DEFINE v == IF Apart /\ onto[c] # {} THEN "behind" ELSE "kick"
           G == {}
<1>1. stage[c] = "refused" /\ stage[c] \in Flying /\ v \in Waits \cup {"kick"}
  BY DEF Refuse, Flying, Waits
<1>2. verdict' = [verdict EXCEPT ![c] = v] /\ UNCHANGED <<world, onto, base, gated>>
  BY DEF Refuse, Decide
<1>3. stage' = [d \in Change |-> IF d = c THEN "decided" ELSE IF d \in G THEN "pending" ELSE stage[d]]
  BY DEF Refuse, To, QueueInv, Shape
<1>4. G = {} /\ G \in SUBSET Change OBVIOUS
<1> HIDE DEF v, G
<1> QED BY <1>1, <1>2, <1>3, <1>4, Grounds

LEMMA BehindInv == ASSUME QueueInv, NEW c \in Change, Behind(c) PROVE QueueInv'
<1> DEFINE v == "behind"
           G == {}
<1>1. stage[c] \in Flying /\ Apart /\ v \in Waits \cup {"kick"} /\ v # "kick"
  BY DEF Behind, Failed, Attributable, Flying, Waits
<1>2. verdict' = [verdict EXCEPT ![c] = v] /\ UNCHANGED <<world, onto, base, gated>>
  BY DEF Behind, Decide
<1>3. stage' = [d \in Change |-> IF d = c THEN "decided" ELSE IF d \in G THEN "pending" ELSE stage[d]]
  BY DEF Behind, To, QueueInv, Shape
<1>4. G = {} /\ G \in SUBSET Change OBVIOUS
<1> HIDE DEF v, G
<1> QED BY <1>1, <1>2, <1>3, <1>4, Grounds

LEMMA JudgeInv == ASSUME QueueInv, NEW c \in Change, Judge(c) PROVE QueueInv'
<1> DEFINE v == Blame(c)
           G == IF Apart THEN {} ELSE Flights(Group[c])
<1>1. stage[c] \in {"red", "fault"} /\ stage[c] \in Flying /\ v \in Waits \cup {"kick"}
  BY DEF Judge, Failed, Flying, Blame, Waits
<1>2. verdict' = [verdict EXCEPT ![c] = v] /\ UNCHANGED <<world, onto, base, gated>>
  BY DEF Judge, Decide
<1>3. stage' = [d \in Change |-> IF d = c THEN "decided" ELSE IF d \in G THEN "pending" ELSE stage[d]]
  BY DEF Judge
<1>4. G \in SUBSET Change /\ (Apart => G = {}) /\ (~Apart => G = Flights(Group[c])) BY DEF Flights
<1> HIDE DEF v, G
<1> QED BY <1>1, <1>2, <1>3, <1>4, Grounds

LEMMA GateEndsInv == ASSUME QueueInv, NEW c \in Change, GateEnds(c) PROVE QueueInv'
<1> USE DEF QueueInv
<1>1. PICK r \in Gate(onto[c] \cup {c}, Units[c]) : stage' = [stage EXCEPT ![c] = r]
  BY DEF GateEnds, To
<1>2. stage[c] = "gating" /\ UNCHANGED <<world, onto, base, gated, verdict>>
  BY DEF GateEnds, Undecided
<1>3. /\ r \in Results
      /\ r = "green" => ~IsRed(onto[c] \cup {c}, Units[c])
      /\ r = "red" => IsRed(onto[c] \cup {c}, Units[c])
      /\ r = "fault" => MayFault
  BY DEF Gate, Results
<1>4. /\ \A d \in Change : stage'[d] = IF d = c THEN r ELSE stage[d]
      /\ r \in Flying \ {"refused"} /\ stage[c] \in Flying \ {"refused"}
      /\ "decided" \notin Flying /\ "pending" \notin Flying /\ "lost" \notin Flying
  BY <1>1, <1>2, <1>3 DEF Shape, Results, Flying
<1>5. Shape' BY <1>1, <1>2, <1>4 DEF Shape
<1>6. \A d \in Change : Ahead(d) \subseteq Change BY AheadThrough
<1>7. Ordered' BY <1>2, <1>4, <1>6 DEF Ordered
<1>8. BuiltOnAhead' BY <1>2, <1>4, <1>6 DEF BuiltOnAhead
<1>9. GatesTrue' BY <1>2, <1>3, <1>4 DEF GatesTrue, IsRed
<1>10. StackUnder' BY <1>2, <1>4 DEF StackUnder
<1>11. OnAllAhead' BY <1>2 DEF OnAllAhead
<1>12. GreenIsGated' BY <1>2 DEF GreenIsGated, IsRed
<1>14. StackKept' BY <1>2 DEF StackKept
<1> QED BY <1>5, <1>7, <1>8, <1>9, <1>10, <1>11, <1>12, <1>14

LEMMA GreenInv == ASSUME QueueInv, NEW c \in Change, Green(c) PROVE QueueInv'
<1> USE DEF QueueInv
<1>1. /\ stage[c] = "green" /\ verdict[c] = "none"
      /\ verdict' = [verdict EXCEPT ![c] = "merge"] /\ stage' = [stage EXCEPT ![c] = "decided"]
      /\ UNCHANGED <<world, onto, gated>>
  BY DEF Green, Decide, To, Ordered
<1>2. /\ \A d \in Change \ {c} : verdict'[d] = verdict[d] /\ stage'[d] = stage[d]
      /\ verdict'[c] = "merge" /\ stage'[c] = "decided"
      /\ "decided" \notin Flying /\ "pending" \notin Flying /\ stage[c] \in Flying \ {"refused"}
  BY <1>1 DEF Shape, Flying
<1>3. \A d \in Change : d \notin Ahead(d) /\ Ahead(d) \subseteq Change BY AheadThrough DEF Ahead
<1>4. Shape'
  <2>1. CASE Apart BY <1>1, <2>1 DEF Green, Shape, Decisions
  <2>2. CASE ~Apart BY <1>1, <2>2 DEF Green, Shape, Decisions, Groups
  <2> QED BY <2>1, <2>2
<1>5. ~Apart => /\ onto[c] = {d \in Ahead(c) : verdict[d] = "merge"}
                /\ \A d \in Ahead(c) : stage[d] = "decided"
  <2> SUFFICES ASSUME ~Apart
               PROVE  /\ onto[c] = {d \in Ahead(c) : verdict[d] = "merge"}
                      /\ \A d \in Ahead(c) : stage[d] = "decided"
    OBVIOUS
  <2>1. Lowest(c) BY DEF Green, Read
  <2>2. \A d \in Ahead(c) : stage[d] \notin Flying \cup {"pending", "lost"}
    BY <1>2, <1>3, <2>1 DEF Lowest, Ordered
  <2> QED BY <1>3, <2>1, <2>2, LowestOnGreen DEF Shape
<1>6. Ordered' BY <1>1, <1>2, <1>3, <1>5 DEF Ordered
<1>7. BuiltOnAhead'
  <2> SUFFICES ASSUME ~Apart PROVE BuiltOnAhead' BY DEF BuiltOnAhead
  <2>1. onto[c] \cup {c} = {d \in Change : Group[d] = Group[c] /\ verdict'[d] = "merge"}
    <3>1. ASSUME NEW d \in Change, Group[d] = Group[c], verdict[d] = "merge" PROVE d \in Ahead(c)
      <4>1. c \notin Ahead(d) BY <1>2, <3>1 DEF Ordered
      <4>2. d # c BY <1>1, <3>1
      <4> QED BY <3>1, <4>1, <4>2, Line
    <3>2. \A d \in Ahead(c) : d \in Change /\ Group[d] = Group[c] /\ d # c BY AheadThrough
    <3> QED BY <1>2, <1>5, <3>1, <3>2
  <2>2. base' = [base EXCEPT ![Group[c]] = onto[c] \cup {c}] BY DEF Green
  <2>3. ASSUME NEW d \in Change
        PROVE  base'[Group[d]] = {e \in Change : Group[e] = Group[d] /\ verdict'[e] = "merge"}
    <3>1. CASE Group[d] = Group[c] BY <2>1, <2>2, <3>1 DEF Shape, Groups
    <3>2. CASE Group[d] # Group[c] BY <1>2, <2>2, <3>2 DEF Shape, Groups, BuiltOnAhead
    <3> QED BY <3>1, <3>2
  <2>4. ASSUME NEW d \in Change, stage'[d] \in Flying
        PROVE  onto'[d] = {e \in Ahead(d) : verdict'[e] = "merge" \/ stage'[e] \in Flying \ {"refused"}}
    BY <1>1, <1>2, <1>3, <2>4 DEF BuiltOnAhead
  <2> QED BY <2>3, <2>4 DEF BuiltOnAhead
<1>8. GatesTrue' BY <1>1, <1>2 DEF GatesTrue, IsRed
<1>9. StackUnder' BY <1>1, <1>2 DEF StackUnder
<1>10. OnAllAhead'
  <2> SUFFICES ASSUME ~Apart, NEW d \in Change, verdict'[d] = "merge"
               PROVE  onto'[d] = {e \in Ahead(d) : verdict'[e] = "merge"}
    BY DEF OnAllAhead
  <2>1. CASE d = c BY <1>1, <1>2, <1>3, <1>5, <2>1
  <2>2. CASE d # c
    <3>1. verdict[d] = "merge" /\ c \notin Ahead(d) BY <1>2, <2>2 DEF Ordered
    <3> QED BY <1>1, <1>2, <1>3, <3>1 DEF OnAllAhead
  <2> QED BY <2>1, <2>2
<1>11. GreenIsGated' BY <1>1, <1>2 DEF GreenIsGated, GatesTrue, IsRed
<1>13. StackKept' BY <1>1, <1>2 DEF StackKept, StackUnder
<1> QED BY <1>4, <1>6, <1>7, <1>8, <1>9, <1>10, <1>11, <1>13

LEMMA StopInv == ASSUME QueueInv, NEW c \in Change, Stop(c) PROVE QueueInv'
<1> USE DEF QueueInv
<1>1. UNCHANGED <<world, onto, base, gated, verdict>> BY DEF Stop
<1>2. \/ Apart /\ stage' = stage
      \/ Apart /\ stage[c] \in Flying \cup {"pending"} /\ stage' = [stage EXCEPT ![c] = "lost"]
      \/ ~Apart /\ stage' = [d \in Change |-> IF d \in Flights(Group[c]) THEN "pending" ELSE stage[d]]
  BY DEF Stop, MayErr, To
<1>3. \A d \in Change : stage'[d] = stage[d]
                        \/ (verdict[d] = "none" /\ stage'[d] = "lost" /\ Apart)
                        \/ (verdict[d] = "none" /\ stage'[d] = "pending" /\ ~Apart /\ d \in Flights(Group[c]))
  BY <1>2 DEF Ordered, Flights, Flying, Shape
<1>4. "decided" \notin Flying /\ "pending" \notin Flying /\ "lost" \notin Flying BY DEF Flying
<1>5. Shape' BY <1>1, <1>2 DEF Shape
<1>6. \A d \in Change : stage'[d] \in Flying => stage[d] \in Flying /\ stage'[d] = stage[d] BY <1>3, <1>4
<1>7. ~Apart => \A d \in Change : stage'[d] \in Flying =>
                 \A e \in Ahead(d) : e \in Change /\ stage'[e] = stage[e]
  <2> SUFFICES ASSUME ~Apart, NEW d \in Change, stage'[d] \in Flying, NEW e \in Ahead(d)
               PROVE  e \in Change /\ stage'[e] = stage[e]
    OBVIOUS
  <2>1. e \in Change /\ Group[e] = Group[d] BY AheadThrough
  <2>2. Group[d] # Group[c] BY <1>2, <1>4, <1>6 DEF Flights
  <2> QED BY <1>2, <2>1, <2>2 DEF Flights
<1>8. Ordered'
  <2>1. \A d \in Change : stage'[d] = "decided" <=> verdict'[d] # "none" BY <1>1, <1>3 DEF Ordered
  <2>2. ASSUME ~Apart, NEW d \in Change
        PROVE  /\ stage'[d] # "lost"
               /\ stage'[d] \in Flying => \A e \in Ahead(d) : stage'[e] # "pending"
    BY <1>3, <1>6, <1>7, <2>2 DEF Ordered
  <2>3. ASSUME ~Apart, NEW d \in Change, verdict'[d] = "merge", NEW e \in Ahead(d)
        PROVE  stage'[e] = "decided"
    <3>1. e \in Change /\ stage[e] = "decided" /\ verdict[e] # "none"
      BY <1>1, <2>3, AheadThrough DEF Ordered
    <3> QED BY <1>3, <3>1
  <2> QED BY <2>1, <2>2, <2>3 DEF Ordered
<1>9. BuiltOnAhead' BY <1>1, <1>6, <1>7 DEF BuiltOnAhead
<1>10. GatesTrue' BY <1>1, <1>3, <1>6, <1>4 DEF GatesTrue, IsRed
<1>11. StackUnder' BY <1>1, <1>6 DEF StackUnder
<1> QED BY <1>1, <1>5, <1>8, <1>9, <1>10, <1>11
        DEF OnAllAhead, GreenIsGated, StackKept, IsRed

LEMMA NoteInv == ASSUME QueueInv, NEW c \in Change, Note(c) PROVE QueueInv'
  BY DEF Note, QueueInv, Shape, Ordered, BuiltOnAhead, GatesTrue, StackUnder, OnAllAhead,
         GreenIsGated, StackKept, IsRed

LEMMA BaseInv ==
  ASSUME QueueInv, (\E c \in Change : BaseStart(c)) \/ (\E k \in Keys : BaseEnds(k))
  PROVE  QueueInv'
<1> USE DEF QueueInv
<1>1. UNCHANGED <<world, stage, onto, base, verdict>> BY DEF BaseStart, BaseEnds, Undecided
<1>2. /\ gated' \in [Keys -> Results \cup {"no", "running", "error"}]
      /\ \A k \in Keys : /\ gated'[k] = "green" => ~IsRed(k[1], k[2])
                         /\ gated'[k] = "fault" => MayFault
  <2>1. ASSUME NEW c \in Change, BaseStart(c)
        PROVE  gated' = [gated EXCEPT ![Key(c)] = "running"] BY <2>1 DEF BaseStart
  <2>2. ASSUME NEW k \in Keys, BaseEnds(k)
        PROVE  \E r \in Gate(k[1], k[2]) \cup {"error"} : gated' = [gated EXCEPT ![k] = r]
    BY <2>2 DEF BaseEnds
  <2>3. ASSUME NEW k \in Keys, NEW r \in Gate(k[1], k[2]) \cup {"error"}
        PROVE  /\ r \in Results \cup {"error"}
               /\ (r = "green" => ~IsRed(k[1], k[2])) /\ (r = "fault" => MayFault)
    BY DEF Gate, Results
  <2>4. CASE \E c \in Change : BaseStart(c) BY <2>1, <2>4 DEF Shape, GatesTrue
  <2>5. CASE \E k \in Keys : BaseEnds(k)
    <3>1. PICK k \in Keys : BaseEnds(k) BY <2>5
    <3>2. PICK r \in Gate(k[1], k[2]) \cup {"error"} : gated' = [gated EXCEPT ![k] = r]
      BY <2>2, <3>1
    <3>3. /\ r \in Results \cup {"error"}
          /\ (r = "green" => ~IsRed(k[1], k[2])) /\ (r = "fault" => MayFault)
      BY <2>3
    <3> QED BY <3>2, <3>3 DEF Shape, GatesTrue
  <2> QED BY <2>4, <2>5
<1>3. Shape' BY <1>1, <1>2 DEF Shape
<1>4. GatesTrue' BY <1>1, <1>2 DEF GatesTrue, IsRed
<1> QED BY <1>1, <1>3, <1>4
        DEF Ordered, BuiltOnAhead, StackUnder, OnAllAhead, GreenIsGated, StackKept, IsRed

LEMMA NextRunInv == ASSUME QueueInv, NextRun PROVE QueueInv'
<1> USE DEF QueueInv, NextRun
<1>1. Shape' BY DEF Shape, Groups, Flying, Results, Decisions
<1>2. Ordered' BY DEF Ordered, Flying
<1>3. BuiltOnAhead' BY DEF BuiltOnAhead, Flying, Groups
<1>4. GatesTrue' BY DEF GatesTrue
<1>5. StackUnder' BY DEF StackUnder, Flying
<1> QED BY <1>1, <1>2, <1>3, <1>4, <1>5 DEF OnAllAhead, GreenIsGated, StackKept

LEMMA StutterInv == ASSUME QueueInv, UNCHANGED vvars PROVE QueueInv'
  BY DEF vvars, QueueInv, Shape, Ordered, BuiltOnAhead, GatesTrue, StackUnder, OnAllAhead,
         GreenIsGated, StackKept, IsRed

\* No step of any run breaks it.
LEMMA ValidatesInv == ASSUME QueueInv, Validates PROVE QueueInv'
  BY HoldInv, LaunchInv, JobInv, GateEndsInv, NoteInv, StopInv, GreenInv, RefuseInv, BehindInv, JudgeInv,
     BaseInv DEF Validates, ChangeNext, ChangeAdvances

\* The invariant the properties below are parts of.
THEOREM QueueInvAlways == VSpec => []QueueInv
<1>1. QueueInv /\ [VNext]_vvars => QueueInv'
  BY ValidatesInv, NextRunInv, StutterInv DEF VNext
<1> QED BY InitQueueInv, <1>1, PTL DEF VSpec

\* In a pipeline a green change was gated on exactly the green changes ahead of it
\* (pipeline, launch: each candidate is built on the one below, and rebuilt if that fails).
THEOREM GatedOnAllAheadAlways == VSpec => [](OnAllAhead /\ GreenIsGated)
<1>1. QueueInv => OnAllAhead /\ GreenIsGated BY DEF QueueInv
<1> QED BY <1>1, QueueInvAlways, PTL

\* No candidate that counts holds a part of a stack without what is beneath it
\* (stackedHold, only).
THEOREM StackKeptAlways == VSpec => []StackKept
<1>1. QueueInv => StackKept BY DEF QueueInv
<1> QED BY <1>1, QueueInvAlways, PTL

-----------------------------------------------------------------------------
(* The waits on a machine fault.                                             *)

\* A count is of waits recorded at its head, and so is the one about to be made.
FaultInv ==
  /\ uncounted \subseteq Change
  /\ waits \in [Change -> [head : Heads, n : 0..MaxFaultWaits]]
  /\ faulted \in [Change -> [Heads -> Nat]] /\ head \in [Change -> Heads]
  /\ \A c \in Change :
       /\ waits[c].n <= faulted[c][waits[c].head]
       /\ c \in uncounted /\ verdict[c] = "machine" =>
            Waited(c) < MaxFaultWaits /\ Waited(c) < faulted[c][head[c]]

LEMMA CountIsBacked == ASSUME FaultInv PROVE FaultWaitsBacked
<1> USE QueueValidateAssumption DEF FaultInv
<1> SUFFICES ASSUME NEW c \in Change
             PROVE  Waited(c) <= faulted[c][head[c]] /\ Waited(c) <= MaxFaultWaits
  BY DEF FaultWaitsBacked
<1>1. waits[c].n \in 0..MaxFaultWaits /\ faulted[c][head[c]] \in Nat OBVIOUS
<1> QED BY <1>1 DEF Waited

\* A verdict is recorded, and its count is left to be made.
LEMMA DecideFault ==
  ASSUME FaultInv, NEW c \in Change, NEW v \in Decisions, Decide(c, v), UNCHANGED head,
         verdict \in [Change -> Decisions \cup {"none"}],
         v = "machine" => Waited(c) < MaxFaultWaits
  PROVE  FaultInv'
<1> USE QueueValidateAssumption DEF FaultInv
<1>1. waits' = waits /\ head' = head /\ uncounted' \subseteq Change BY DEF Decide
<1>2. /\ faulted' \in [Change -> [Heads -> Nat]]
      /\ \A d \in Change : \A h \in Heads : faulted'[d][h] >= faulted[d][h]
      /\ v = "machine" => faulted'[c][head[c]] = faulted[c][head[c]] + 1
  <2>1. CASE v = "machine" BY <2>1 DEF Decide
  <2>2. CASE v # "machine" BY <2>2 DEF Decide
  <2> QED BY <2>1, <2>2
<1>3. ASSUME NEW d \in Change
      PROVE  waits'[d].n <= faulted'[d][waits'[d].head]
  <2>1. /\ waits[d].n \in Nat /\ waits[d].head \in Heads /\ waits[d].n <= faulted[d][waits[d].head]
        /\ faulted[d][waits[d].head] \in Nat /\ faulted'[d][waits[d].head] \in Nat
    BY <1>2
  <2> QED BY <1>1, <1>2, <2>1
<1>4. ASSUME NEW d \in Change, d \in uncounted', verdict'[d] = "machine"
      PROVE  Waited(d)' < MaxFaultWaits /\ Waited(d)' < faulted'[d][head'[d]]
  <2>1. Waited(d)' = Waited(d) /\ Waited(d) \in Nat BY <1>1 DEF Waited
  <2>2. Waited(d) <= faulted[d][head[d]]
    <3>1. FaultWaitsBacked BY CountIsBacked
    <3> QED BY <3>1 DEF FaultWaitsBacked
  <2>3. /\ faulted[d][head[d]] \in Nat /\ faulted'[d][head[d]] \in Nat
        /\ faulted[d][head[d]] <= faulted'[d][head[d]]
    BY <1>2
  <2>4. CASE d = c
    <3>1. v = "machine" BY <1>4, <2>4 DEF Decide
    <3>2. faulted'[d][head[d]] = faulted[d][head[d]] + 1 BY <1>2, <2>4, <3>1
    <3>3. Waited(d) < MaxFaultWaits BY <2>4, <3>1
    <3> QED BY <1>1, <2>1, <2>2, <2>3, <3>2, <3>3
  <2>5. CASE d # c
    <3>1. d \in uncounted /\ verdict[d] = "machine" BY <1>4, <2>5 DEF Decide
    <3>2. Waited(d) < MaxFaultWaits /\ Waited(d) < faulted[d][head[d]] BY <3>1
    <3> QED BY <1>1, <2>1, <2>3, <3>2
  <2> QED BY <2>4, <2>5
<1> QED BY <1>1, <1>2, <1>3, <1>4

\* What was recorded is counted.
LEMMA NoteFault == ASSUME FaultInv, NEW c \in Change, Note(c) PROVE FaultInv'
<1> DEFINE w == Noted(c, verdict[c])
<1> USE QueueValidateAssumption DEF FaultInv
<1>1. /\ waits[c] \in [head : Heads, n : 0..MaxFaultWaits] /\ head[c] \in Heads
      /\ waits[c].n <= faulted[c][waits[c].head] /\ faulted[c][head[c]] \in Nat
  OBVIOUS
<1>2. Waited(c) \in 0..MaxFaultWaits BY <1>1 DEF Waited
<1>3. w \in [head : Heads, n : 0..MaxFaultWaits] /\ w.n <= faulted[c][w.head]
  <2>1. CASE verdict[c] = "machine"
    <3>1. Waited(c) < MaxFaultWaits /\ Waited(c) < faulted[c][head[c]] BY <2>1 DEF Note
    <3> QED BY <1>1, <1>2, <2>1, <3>1 DEF Noted
  <2>2. CASE verdict[c] # "machine" /\ Waited(c) = 0 BY <1>1, <2>2 DEF Noted
  <2>3. CASE verdict[c] # "machine" /\ Waited(c) # 0 BY <1>1, <2>3 DEF Noted
  <2> QED BY <2>1, <2>2, <2>3
<1>4. waits' = [waits EXCEPT ![c] = w] /\ UNCHANGED <<verdict, faulted, head>> BY DEF Note
<1>5. uncounted' = uncounted \ {c} BY DEF Note
<1> HIDE DEF w
<1>6. waits' \in [Change -> [head : Heads, n : 0..MaxFaultWaits]] BY <1>3, <1>4
<1>7. \A d \in Change : waits'[d].n <= faulted'[d][waits'[d].head] BY <1>3, <1>4
<1>8. ASSUME NEW d \in Change, d \in uncounted', verdict'[d] = "machine"
      PROVE  Waited(d)' < MaxFaultWaits /\ Waited(d)' < faulted'[d][head'[d]]
  BY <1>4, <1>5, <1>8 DEF Waited
<1> QED BY <1>4, <1>5, <1>6, <1>7, <1>8

LEMMA QuietFault ==
  ASSUME FaultInv, UNCHANGED <<waits, faulted, head, verdict>>, uncounted' \subseteq uncounted
  PROVE  FaultInv'
  BY DEF FaultInv, Waited

LEMMA ChangeFault ==
  ASSUME FaultInv, QueueInv, NEW c \in Change, ChangeNext(c) PROVE FaultInv'
<1>0. verdict \in [Change -> Decisions \cup {"none"}] BY DEF QueueInv, Shape
<1>1. CASE Hold(c)
  <2>1. HoldCode(c) # "machine" /\ HoldCode(c) \in Decisions BY DEF HoldCode, Decisions, Waits
  <2> QED BY <1>0, <1>1, <2>1, DecideFault DEF Hold
<1>2. CASE Judge(c)
  <2>1. Blame(c) = "machine" => Waited(c) < MaxFaultWaits BY DEF Blame
  <2>2. Blame(c) \in Decisions BY DEF Blame, Decisions, Waits
  <2> QED BY <1>0, <1>2, <2>1, <2>2, DecideFault DEF Judge
<1>3. CASE Green(c)
  <2>1. Decide(c, "merge") /\ UNCHANGED head /\ "merge" \in Decisions BY <1>3 DEF Green, Decisions
  <2> QED BY <1>0, <2>1, DecideFault
<1>4. CASE Refuse(c)
  <2> DEFINE v == IF Apart /\ onto[c] # {} THEN "behind" ELSE "kick"
  <2>1. Decide(c, v) /\ UNCHANGED head /\ v # "machine" /\ v \in Decisions
    BY <1>4 DEF Refuse, Decisions, Waits
  <2> HIDE DEF v
  <2> QED BY <1>0, <2>1, DecideFault
<1>5. CASE Behind(c)
  <2>1. Decide(c, "behind") /\ UNCHANGED head /\ "behind" \in Decisions
    BY <1>5 DEF Behind, Decisions, Waits
  <2> QED BY <1>0, <2>1, DecideFault
<1>6. CASE (Launch(c) \/ Job(c)) /\ (Decide(c, "conflict") \/ Decide(c, "below"))
  <2>1. UNCHANGED head /\ {"conflict", "below"} \subseteq Decisions
    BY <1>6 DEF Launch, Job, Decisions, Waits
  <2> QED BY <1>0, <1>6, <2>1, DecideFault
<1>7. CASE Note(c) BY <1>7, NoteFault
<1>8. CASE UNCHANGED <<waits, faulted, head, verdict>> /\ uncounted' \subseteq uncounted
  BY <1>8, QuietFault
<1> QED BY <1>1, <1>2, <1>3, <1>4, <1>5, <1>6, <1>7, <1>8
        DEF ChangeNext, ChangeAdvances, Launch, Job, GateEnds, Stop, BaseStart, Undecided

LEMMA NextFault == ASSUME FaultInv, QueueInv, [VNext]_vvars PROVE FaultInv'
<1>1. CASE \E c \in Change : ChangeNext(c) BY <1>1, ChangeFault
<1>2. CASE NextRun BY <1>2 DEF NextRun, FaultInv, Waited
<1>3. CASE UNCHANGED <<waits, faulted, head, verdict, uncounted>> BY <1>3, QuietFault
<1> QED BY <1>1, <1>2, <1>3 DEF VNext, Validates, BaseEnds, Undecided, vvars

LEMMA InitFault == VInit => FaultInv
  BY QueueValidateAssumption DEF VInit, Fresh, FaultInv, Heads

LEMMA FaultInvAlways == VSpec => []FaultInv
  BY InitFault, NextFault, QueueInvAlways, PTL DEF VSpec

\* A change is not blamed for the machine before as many runs recorded a wait at its very
\* head: heads come and go, and a run may end between a verdict and its count
\* (redOnBase, NoteFaultWait).
THEOREM FaultWaitsBackedAlways == VSpec => []FaultWaitsBacked
  BY CountIsBacked, FaultInvAlways, PTL

\* A verdict is a step of its own change's, and only Refuse and Judge kick.
LEMMA Kicks ==
  ASSUME QueueInv, NEW c \in Change, VNext, verdict[c] # "kick", verdict'[c] = "kick"
  PROVE  Refuse(c) \/ Judge(c)
<1>1. VNext => NextRun \/ (\E d \in Change : ChangeNext(d)) \/ (\E k \in Keys : BaseEnds(k))
  BY DEF VNext, Validates
<1>2. ASSUME NextRun \/ (\E k \in Keys : BaseEnds(k)) PROVE FALSE
  BY <1>2 DEF NextRun, BaseEnds, Undecided
<1>3. PICK d \in Change : ChangeNext(d) BY <1>1, <1>2
<1>4. ASSUME NEW v, Decide(d, v) PROVE c = d /\ v = "kick"
  BY <1>4 DEF Decide, QueueInv, Shape
<1>5. ~Undecided BY DEF Undecided
<1>6. ~Hold(d)
  <2>1. HoldCode(d) # "kick" BY DEF HoldCode
  <2> QED BY <1>4, <2>1 DEF Hold
<1>7. ~Launch(d) /\ ~Job(d) /\ ~Green(d) /\ ~Behind(d)
  <2>1. ~Decide(d, "conflict") /\ ~Decide(d, "below") /\ ~Decide(d, "merge") /\ ~Decide(d, "behind")
    BY <1>4
  <2> QED BY <1>5, <2>1 DEF Launch, Job, Green, Behind
<1>8. ~GateEnds(d) /\ ~Stop(d) /\ ~Note(d) /\ ~BaseStart(d)
  BY <1>5 DEF GateEnds, Stop, Note, BaseStart, Undecided
<1>9. Refuse(d) \/ Judge(d) BY <1>3, <1>6, <1>7, <1>8 DEF ChangeNext, ChangeAdvances
<1>10. c = d
  <2>1. \E v : Decide(d, v) BY <1>9 DEF Refuse, Judge
  <2> QED BY <1>4, <2>1
<1> QED BY <1>9, <1>10

\* Nobody is kicked back but for what their own change did, or for machines that fail it
\* run after run (pipeline's verdicts, baseRed, redOnBase).
THEOREM KickIsOwnAlways == VSpec => KickIsOwn
<1>1. ASSUME QueueInv, FaultInv, [VNext]_vvars, NEW c \in Change,
             verdict[c] # "kick", verdict'[c] = "kick"
      PROVE  /\ \A d \in onto[c] : verdict[d] = "merge"
             /\ \/ c \in world.refused
                \/ IsRed(onto[c] \cup {c}, Units[c]) /\ ~IsRed(onto[c], Units[c])
                \/ faulted[c][head[c]] >= MaxFaultWaits
  <2>1. VNext BY <1>1 DEF vvars
  <2>2. CASE Refuse(c)
    <3>1. onto[c] = {} \/ ~Apart
      <4>1. Decide(c, IF Apart /\ onto[c] # {} THEN "behind" ELSE "kick") BY <2>2 DEF Refuse
      <4> QED BY <1>1, <4>1 DEF Decide, QueueInv, Shape
    <3> QED BY <1>1, <2>2, <3>1, LowestOnGreen DEF Refuse, Read, QueueInv, GatesTrue
  <2>3. CASE Judge(c)
    <3>1. Key(c) \in Keys /\ Key(c)[1] = onto[c] /\ Key(c)[2] = Units[c]
      BY <1>1 DEF QueueInv, Shape, Key, Keys
    <3>2. \A d \in onto[c] : verdict[d] = "merge"
      BY <1>1, <2>3, LowestOnGreen DEF Judge, Failed, Read, Attributable
    <3>3. Blame(c) = "kick" BY <1>1, <2>3 DEF Judge, Decide, QueueInv, Shape
    <3>4. CASE "fault" \in {stage[c], gated[Key(c)]}
      <4>1. /\ Waited(c) <= faulted[c][head[c]] /\ faulted[c][head[c]] \in Nat
            /\ Waited(c) \in Nat
        BY <1>1, CountIsBacked DEF FaultInv, FaultWaitsBacked, Waited
      <4>2. ~(Waited(c) < MaxFaultWaits) BY <3>3, <3>4 DEF Blame
      <4> QED BY <3>2, <4>1, <4>2, QueueValidateAssumption
    <3>5. CASE "fault" \notin {stage[c], gated[Key(c)]}
      <4>1. stage[c] = "red" BY <2>3, <3>5 DEF Judge, Failed
      <4>2. gated[Key(c)] = "green" BY <2>3, <3>3, <3>5 DEF Judge, Results, Blame
      <4> QED BY <1>1, <3>1, <3>2, <4>1, <4>2 DEF QueueInv, GatesTrue
    <3> QED BY <3>4, <3>5
  <2> QED BY <1>1, <2>1, <2>2, <2>3, Kicks
<1>3. QueueInv /\ FaultInv /\ [VNext]_vvars =>
        (\A c \in Change : verdict[c] # "kick" /\ verdict'[c] = "kick" =>
           /\ \A d \in onto[c] : verdict[d] = "merge"
           /\ \/ c \in world.refused
              \/ IsRed(onto[c] \cup {c}, Units[c]) /\ ~IsRed(onto[c], Units[c])
              \/ faulted[c][head[c]] >= MaxFaultWaits)
  BY <1>1
<1> QED BY <1>3, FaultInvAlways, QueueInvAlways, PTL DEF VSpec, KickIsOwn

Rest == world \in Worlds /\ stopped \subseteq Groups /\ run \in Nat

\* Type correctness of the whole validation.
THEOREM VTypeOKAlways == VSpec => []VTypeOK
<1>1. VInit => Rest BY DEF VInit, Fresh, Rest
<1>2. Rest /\ [VNext]_vvars => Rest'
  <2> SUFFICES ASSUME Rest, [VNext]_vvars PROVE Rest' OBVIOUS
  <2>1. CASE \E c \in Change : Stop(c) BY <2>1 DEF Stop, Rest, Groups
  <2>2. CASE NextRun BY <2>2 DEF NextRun, Rest
  <2>3. CASE UNCHANGED <<world, stopped, run>> BY <2>3 DEF Rest
  <2> QED BY <2>1, <2>2, <2>3
          DEF VNext, Validates, ChangeNext, ChangeAdvances, Hold, Launch, Job, GateEnds, Note, Green,
              Refuse, Behind, BaseStart, BaseEnds, Judge, vvars
<1>3. QueueInv /\ FaultInv /\ Rest => VTypeOK
  BY DEF QueueInv, Shape, FaultInv, Rest, VTypeOK
<1> QED BY <1>1, <1>2, <1>3, QueueInvAlways, FaultInvAlways, PTL DEF VSpec

-----------------------------------------------------------------------------
(* Applying what was validated.                                             *)

\* All that a green change was gated on is merged.
Ready(c) == verdict[c] = "merge" /\ onto[c] \subseteq OnTrunk

Handing == {"tip", "checked", "still", "same", "green", "refused", "over"}

\* Only a change that is ready is handed over, or carries a success.
HandsReady ==
  /\ apc \in Handing => cur \in Change /\ Ready(cur)
  /\ apc = "over" => cur \in OnTrunk
  /\ apc \in {"kicking", "kicked"} => cur \in Change
  /\ \A c \in Change : status[c] = "success" => Ready(c)

\* A green change is on the base once.
LandsOnce ==
  \A i, j \in DOMAIN trunk : trunk[i] \in Change =>
    verdict[trunk[i]] = "merge" /\ (trunk[i] = trunk[j] => i = j)

ApplyInv == QueueInv /\ ATypeOK /\ HandsReady /\ LandsOnce /\ MergedAsGated

LEMMA InitApplyInv == AInit => ApplyInv
<1> SUFFICES ASSUME AInit PROVE ApplyInv OBVIOUS
<1> USE QueueApplyAssumption DEF AInit
<1>1. QueueInv BY InitQueueInv
<1>2. ATypeOK
  <2>1. {} \subseteq {} \cap OnTrunk OBVIOUS
  <2>2. trunk \in Seq(Change \cup {Foreign}) OBVIOUS
  <2>3. applies \in 1..MaxApplies /\ events \in 0..MaxEvents OBVIOUS
  <2> QED BY <2>1, <2>2, <2>3 DEF ATypeOK
<1>3. HandsReady BY DEF HandsReady, Handing
<1>4. DOMAIN trunk = {} OBVIOUS
<1> QED BY <1>1, <1>2, <1>3, <1>4 DEF ApplyInv, LandsOnce, MergedAsGated

-----------------------------------------------------------------------------
\* Validation never goes back on a green change.
LEMMA GreenStays ==
  ASSUME QueueInv, Validates, NEW c \in Change, verdict[c] = "merge"
  PROVE  verdict'[c] = "merge" /\ onto'[c] = onto[c]
<1> USE DEF QueueInv
<1>1. stage[c] = "decided" BY DEF Ordered
<1>2. ASSUME NEW d \in Change, ChangeNext(d)
      PROVE  verdict'[c] = "merge" /\ onto'[c] = onto[c]
  <2>1. CASE Hold(d) BY <1>1, <2>1 DEF Hold, Fills, Decide, Shape
  <2>2. CASE Launch(d) BY <1>1, <2>2 DEF Launch, Fills, Decide, Undecided, Shape
  <2>3. CASE Job(d) BY <1>1, <2>3 DEF Job, Decide, Undecided, Shape
  <2>4. CASE GateEnds(d) BY <2>4 DEF GateEnds, Undecided
  <2>5. CASE Stop(d) \/ Note(d) BY <2>5 DEF Stop, Note
  <2>6. CASE Green(d) BY <1>1, <2>6 DEF Green, Decide, Shape
  <2>7. CASE Refuse(d) BY <1>1, <2>7 DEF Refuse, Decide, Shape
  <2>8. CASE Behind(d) BY <1>1, <2>8 DEF Behind, Failed, Decide, Shape
  <2>9. CASE BaseStart(d) BY <2>9 DEF BaseStart, Undecided
  <2>10. CASE Judge(d) BY <1>1, <2>10 DEF Judge, Failed, Decide, Shape
  <2> QED BY <1>2, <2>1, <2>2, <2>3, <2>4, <2>5, <2>6, <2>7, <2>8, <2>9, <2>10 DEF ChangeNext, ChangeAdvances
<1> QED BY <1>2 DEF Validates, BaseEnds, Undecided

LEMMA ValidationKeeps ==
  ASSUME ApplyInv, Validates, UNCHANGED avars
  PROVE  ApplyInv'
<1> USE DEF ApplyInv, avars
<1>1. QueueInv' BY ValidatesInv
<1>2. ATypeOK' BY DEF ATypeOK, OnTrunk
<1>3. \A c \in Change : Ready(c) => Ready(c)' BY GreenStays DEF Ready, OnTrunk
<1>4. HandsReady' BY <1>3 DEF HandsReady, OnTrunk
<1>5. LandsOnce' BY GreenStays DEF LandsOnce
<1>6. MergedAsGated' BY GreenStays DEF MergedAsGated, UpTo, LandsOnce
<1> QED BY <1>1, <1>2, <1>4, <1>5, <1>6

\* Something lands at the end: what was there before stays below it.
Longer(x, n) ==
  /\ trunk' \in Seq(Change \cup {Foreign})
  /\ DOMAIN trunk' = DOMAIN trunk \cup {n + 1} /\ n + 1 \notin DOMAIN trunk
  /\ trunk'[n + 1] = x
  /\ \A i \in DOMAIN trunk :
       trunk'[i] = trunk[i] /\ UpTo(i - 1)' = UpTo(i - 1) /\ UpTo(i)' = UpTo(i)
  /\ UpTo(n)' = OnTrunk /\ UpTo(n + 1)' = OnTrunk \cup ({x} \ {Foreign})
  /\ OnTrunk' = OnTrunk \cup ({x} \ {Foreign})

LEMMA Landing ==
  ASSUME ATypeOK, NEW x \in Change \cup {Foreign}, trunk' = Append(trunk, x)
  PROVE  \E n \in Nat : Longer(x, n)
<1>1. PICK n \in Nat : n = Len(trunk) BY DEF ATypeOK
<1>2. trunk \in Seq(Change \cup {Foreign}) /\ DOMAIN trunk = 1..n BY <1>1 DEF ATypeOK
<1>3. /\ trunk' \in Seq(Change \cup {Foreign}) /\ DOMAIN trunk' = 1..(n + 1)
      /\ trunk'[n + 1] = x /\ \A i \in 1..n : trunk'[i] = trunk[i]
  BY <1>1, <1>2
<1>4. 1..(n + 1) = (1..n) \cup {n + 1} /\ n + 1 \notin 1..n BY <1>1
<1>5. ASSUME NEW i \in 0..n PROVE UpTo(i)' = UpTo(i)
  <2>1. 1..i \subseteq 1..n BY <1>1
  <2> QED BY <1>3, <2>1 DEF UpTo
<1>6. UpTo(n) = OnTrunk BY <1>2 DEF UpTo, OnTrunk, Range
<1>7. \A i \in 1..n : i - 1 \in 0..n /\ i \in 0..n BY <1>1
<1>8. Range(trunk') = Range(trunk) \cup {x} BY <1>2, <1>3, <1>4 DEF Range
<1>9. OnTrunk' = OnTrunk \cup ({x} \ {Foreign}) BY <1>8 DEF OnTrunk
<1>10. UpTo(n + 1)' = OnTrunk' BY <1>3 DEF UpTo, OnTrunk, Range
<1>11. UpTo(n)' = OnTrunk
  <2>1. n \in 0..n OBVIOUS
  <2> QED BY <1>5, <1>6, <2>1
<1>12. DOMAIN trunk' = DOMAIN trunk \cup {n + 1} /\ n + 1 \notin DOMAIN trunk
  BY <1>2, <1>3, <1>4
<1>13. \A i \in DOMAIN trunk :
         trunk'[i] = trunk[i] /\ UpTo(i - 1)' = UpTo(i - 1) /\ UpTo(i)' = UpTo(i)
  <2> TAKE i \in DOMAIN trunk
  <2>1. i \in 1..n /\ i - 1 \in 0..n /\ i \in 0..n BY <1>2, <1>7
  <2>2. UpTo(i - 1)' = UpTo(i - 1) BY <1>5, <2>1
  <2>3. UpTo(i)' = UpTo(i) BY <1>5, <2>1
  <2> QED BY <1>3, <2>1, <2>2, <2>3
<1> QED BY <1>3, <1>9, <1>10, <1>11, <1>12, <1>13 DEF Longer

\* A change that is ready merges as it was gated.
LEMMA GreenLands ==
  ASSUME ApplyInv, ~Apart, UNCHANGED vvars,
         NEW c \in Change, Ready(c), c \notin OnTrunk, trunk' = Append(trunk, c)
  PROVE  /\ LandsOnce' /\ MergedAsGated' /\ trunk' \in Seq(Change \cup {Foreign})
         /\ OnTrunk' = OnTrunk \cup {c}
<1> USE DEF ApplyInv
<1> USE QueueApplyAssumption
<1>1. PICK n \in Nat : Longer(c, n) BY Landing
<1>2. UNCHANGED <<verdict, onto>> BY DEF vvars
<1>3. \A i \in DOMAIN trunk : trunk[i] # c
  <2>1. \A i \in DOMAIN trunk : trunk[i] \in Range(trunk) BY DEF Range
  <2> QED BY <2>1 DEF OnTrunk
<1>4. \A x \in OnTrunk : verdict[x] = "merge"
  <2> TAKE x \in OnTrunk
  <2>1. PICK i \in DOMAIN trunk : trunk[i] = x BY DEF OnTrunk, Range
  <2>2. trunk[i] \in Change BY <2>1 DEF OnTrunk, ATypeOK
  <2> QED BY <2>1, <2>2 DEF LandsOnce
<1>5. OnTrunk \cap Ahead(c) = onto[c]
  <2>1. onto[c] = {d \in Ahead(c) : verdict[d] = "merge"}
    BY DEF Ready, QueueInv, OnAllAhead
  <2> QED BY <2>1, <1>4 DEF Ready
<1>6. LandsOnce' BY <1>1, <1>2, <1>3 DEF Longer, LandsOnce, Ready
<1>7. MergedAsGated'
  <2> SUFFICES ASSUME NEW i \in DOMAIN trunk', trunk'[i] \in Change
               PROVE  UpTo(i - 1)' \cap Ahead(trunk'[i]) = onto'[trunk'[i]]
    BY DEF MergedAsGated
  <2>1. CASE i \in DOMAIN trunk BY <2>1, <1>1, <1>2 DEF Longer, MergedAsGated
  <2>2. CASE i = n + 1
    <3>1. i - 1 = n BY <2>2, <1>1
    <3> QED BY <2>2, <3>1, <1>1, <1>2, <1>5 DEF Longer
  <2> QED BY <1>1, <2>1, <2>2 DEF Longer
<1> QED BY <1>1, <1>6, <1>7 DEF Longer

LEMMA ForeignLands ==
  ASSUME ApplyInv, UNCHANGED vvars, trunk' = Append(trunk, Foreign)
  PROVE  /\ LandsOnce' /\ MergedAsGated' /\ trunk' \in Seq(Change \cup {Foreign})
         /\ OnTrunk' = OnTrunk
<1> USE DEF ApplyInv
<1> USE QueueApplyAssumption
<1>1. PICK n \in Nat : Longer(Foreign, n) BY Landing
<1>2. UNCHANGED <<verdict, onto>> BY DEF vvars
<1>3. \A i \in DOMAIN trunk' : trunk'[i] \in Change => i \in DOMAIN trunk
  BY <1>1 DEF Longer
<1>4. LandsOnce' BY <1>1, <1>2, <1>3 DEF Longer, LandsOnce
<1>5. MergedAsGated' BY <1>1, <1>2, <1>3 DEF Longer, MergedAsGated
<1> QED BY <1>1, <1>4, <1>5 DEF Longer

-----------------------------------------------------------------------------
\* Nothing lands, and no verdict changes.
LEMMA Quiet ==
  ASSUME ApplyInv, UNCHANGED <<vvars, trunk>>
  PROVE  /\ QueueInv' /\ LandsOnce' /\ MergedAsGated' /\ OnTrunk' = OnTrunk
         /\ \A c \in Change : Ready(c)' = Ready(c)
<1> USE DEF ApplyInv
<1>1. QueueInv' BY StutterInv
<1>2. UNCHANGED <<verdict, onto>> BY DEF vvars
<1>3. OnTrunk' = OnTrunk BY DEF OnTrunk
<1> QED BY <1>1, <1>2, <1>3 DEF LandsOnce, MergedAsGated, UpTo, Ready

\* A change is settled, with any status but success.
LEMMA Settling ==
  ASSUME ApplyInv, UNCHANGED <<vvars, got, amerged, tip, trunk, moved, strange, events, applies>>,
         NEW c \in Change, NEW s \in {"pending", "failure"}, Settle(c, s),
         intent' \subseteq intent
  PROVE  ApplyInv'
<1> USE DEF ApplyInv
<1> USE QueueApplyAssumption
<1>1. /\ QueueInv' /\ LandsOnce' /\ MergedAsGated' /\ OnTrunk' = OnTrunk
      /\ \A d \in Change : Ready(d)' = Ready(d)
  BY Quiet
<1>2. ATypeOK' BY <1>1 DEF ATypeOK, Settle
<1>3. \A d \in Change : status'[d] = "success" => status[d] = "success"
  BY DEF ATypeOK, Settle
<1>4. HandsReady' BY <1>1, <1>3 DEF HandsReady, Settle, Handing
<1> QED BY <1>1, <1>2, <1>4

LEMMA WaitInv ==
  ASSUME ApplyInv, UNCHANGED <<vvars, got, amerged, tip, trunk, moved, strange, events, applies>>,
         NEW c \in Change, Wait(c)
  PROVE  ApplyInv'
  BY Settling DEF Wait

LEMMA KickInv ==
  ASSUME ApplyInv, UNCHANGED <<vvars, got, amerged, tip, trunk, moved, strange, events, applies>>,
         NEW c \in Change, Kick(c)
  PROVE  ApplyInv'
<1>1. CASE c \in moved BY <1>1, WaitInv DEF Kick
<1>2. CASE c \notin moved
  <2> USE DEF ApplyInv
  <2>1. apc' = "kicking" /\ cur' = c /\ UNCHANGED <<settled, status, intent>> BY <1>2 DEF Kick
  <2>2. /\ QueueInv' /\ LandsOnce' /\ MergedAsGated' /\ OnTrunk' = OnTrunk
        /\ \A d \in Change : Ready(d)' = Ready(d)
    BY Quiet
  <2>3. ATypeOK' BY <2>1, <2>2 DEF ATypeOK
  <2>4. HandsReady' BY <2>1, <2>2 DEF HandsReady, Handing
  <2> QED BY <2>2, <2>3, <2>4
<1> QED BY <1>1, <1>2

\* The applier goes on to its next step with the change in hand.
LEMMA GoesOn ==
  ASSUME ApplyInv, UNCHANGED <<vvars, got, amerged, tip, trunk, moved, strange, events, applies>>,
         apc \in Handing, NEW s \in Handing \ {"over"}, Goes(s)
  PROVE  ApplyInv'
<1> USE DEF ApplyInv
<1>1. /\ QueueInv' /\ LandsOnce' /\ MergedAsGated' /\ OnTrunk' = OnTrunk
      /\ \A d \in Change : Ready(d)' = Ready(d)
  BY Quiet
<1>2. ATypeOK' BY <1>1 DEF ATypeOK, Goes, Handing
<1>3. HandsReady' BY <1>1 DEF HandsReady, Goes, Handing
<1> QED BY <1>1, <1>2, <1>3

LEMMA BetweenInv ==
  ASSUME ApplyInv, UNCHANGED vvars,
         \/ \E c \in Change : RevokeStale(c) \/ SettleFront(c)
         \/ Start \/ Poll \/ Check \/ StillQueued \/ BaseStill \/ Refused
  PROVE  ApplyInv'
<1>0. apc \in Handing => cur \in Change BY DEF ApplyInv, HandsReady
<1>1. ASSUME NEW c \in Change, RevokeStale(c) PROVE ApplyInv'
  <2> USE DEF ApplyInv
  <2>1. /\ QueueInv' /\ LandsOnce' /\ MergedAsGated' /\ OnTrunk' = OnTrunk
        /\ \A d \in Change : Ready(d)' = Ready(d)
    BY <1>1, Quiet DEF RevokeStale
  <2>2. ATypeOK' BY <1>1, <2>1 DEF ATypeOK, RevokeStale
  <2>3. \A d \in Change : status'[d] = "success" => status[d] = "success"
    BY <1>1 DEF ATypeOK, RevokeStale
  <2>4. HandsReady' BY <1>1, <2>1, <2>3 DEF HandsReady, RevokeStale, Handing
  <2> QED BY <2>1, <2>2, <2>4
<1>2. ASSUME NEW c \in Change, SettleFront(c) PROVE ApplyInv'
  BY <1>2, WaitInv, KickInv DEF SettleFront
<1>3. CASE Start \/ Poll
  <2> USE DEF ApplyInv
  <2>1. /\ QueueInv' /\ LandsOnce' /\ MergedAsGated' /\ OnTrunk' = OnTrunk
        /\ \A d \in Change : Ready(d)' = Ready(d)
    BY <1>3, Quiet DEF Start, Poll
  <2>2. ATypeOK' BY <1>3, <2>1 DEF ATypeOK, Start, Poll, Recorded
  <2>3. HandsReady' BY <1>3, <2>1 DEF HandsReady, Start, Poll, Handing
  <2> QED BY <2>1, <2>2, <2>3
<1>4. CASE Check
  <2>1. cur \in Change BY <1>0, <1>4 DEF Check, Handing
  <2>2. UNCHANGED <<got, amerged, tip, trunk, moved, strange, events, applies>> BY <1>4 DEF Check
  <2>3. CASE Wait(cur) BY <2>1, <2>2, <2>3, WaitInv
  <2>4. CASE Kick(cur) BY <2>1, <2>2, <2>4, KickInv
  <2>5. CASE Goes("checked") BY <1>4, <2>2, <2>5, GoesOn DEF Check, Handing
  <2> QED BY <1>4, <2>3, <2>4, <2>5 DEF Check
<1>5. CASE StillQueued
  <2>1. cur \in Change BY <1>0, <1>5 DEF StillQueued, Handing
  <2>2. UNCHANGED <<got, amerged, tip, trunk, moved, strange, events, applies>>
    BY <1>5 DEF StillQueued
  <2>3. CASE Wait(cur) BY <2>1, <2>2, <2>3, WaitInv
  <2>4. CASE Goes("still") BY <1>5, <2>2, <2>4, GoesOn DEF StillQueued, Handing
  <2> QED BY <1>5, <2>3, <2>4 DEF StillQueued
<1>6. CASE BaseStill
  <2>1. cur \in Change BY <1>0, <1>6 DEF BaseStill, Handing
  <2>2. UNCHANGED <<got, amerged, tip, trunk, moved, strange, events, applies>>
    BY <1>6 DEF BaseStill
  <2>3. CASE Wait(cur) BY <2>1, <2>2, <2>3, WaitInv
  <2>4. CASE Goes("same") BY <1>6, <2>2, <2>4, GoesOn DEF BaseStill, Handing
  <2> QED BY <1>6, <2>3, <2>4 DEF BaseStill
<1>7. CASE Refused
  <2>1. cur \in Change BY <1>0, <1>7 DEF Refused, Handing
  <2> QED BY <1>7, <2>1, WaitInv DEF Refused
<1> QED BY <1>1, <1>2, <1>3, <1>4, <1>5, <1>6, <1>7

\* A green change that is not blocked: all it was gated on is on the base.
LEMMA UnblockedIsReady ==
  ASSUME ApplyInv, NEW c \in Change, verdict[c] = "merge", ~Blocked(c)
  PROVE  Ready(c)
<1> USE DEF ApplyInv
<1>1. CASE onto[c] = {} BY <1>1 DEF Ready
<1>2. CASE onto[c] # {}
  <2>1. PICK d \in After(c) \cap amerged : onto[c] = onto[d] \cup {d} BY <1>2 DEF Blocked
  <2>2. d \in Change /\ d \in OnTrunk BY <2>1 DEF ATypeOK
  <2>3. PICK i \in DOMAIN trunk : trunk[i] = d BY <2>2 DEF OnTrunk, Range
  <2>4. onto[d] = UpTo(i - 1) \cap Ahead(d) BY <2>2, <2>3 DEF MergedAsGated
  <2>5. trunk \in Seq(Change \cup {Foreign}) /\ Len(trunk) \in Nat
        /\ DOMAIN trunk = 1..Len(trunk)
    BY DEF ATypeOK
  <2>6. 1..(i - 1) \subseteq 1..Len(trunk) BY <2>3, <2>5
  <2>7. UpTo(i - 1) \subseteq OnTrunk BY <2>5, <2>6 DEF UpTo, OnTrunk, Range
  <2> QED BY <2>1, <2>2, <2>4, <2>7 DEF Ready
<1> QED BY <1>1, <1>2

LEMMA HandOverInv ==
  ASSUME ApplyInv, UNCHANGED vvars,
         (\E c \in Change : TakeTip(c)) \/ PostGreen \/ Merged \/ Restart
         \/ PostFailure \/ KickBack \/ Finish \/ (\E c \in Change : WaitRest(c)) \/ Done
  PROVE  ApplyInv'
<1> USE DEF ApplyInv
<1> USE QueueApplyAssumption
<1>0. /\ QueueInv' /\ LandsOnce' /\ MergedAsGated' /\ OnTrunk' = OnTrunk
      /\ \A d \in Change : Ready(d)' = Ready(d)
  BY Quiet DEF TakeTip, PostGreen, Merged, PostFailure, KickBack, Finish, WaitRest, Done, Restart
<1>1. ASSUME NEW c \in Change, TakeTip(c) PROVE ApplyInv'
  <2>1. Ready(c) BY <1>1, UnblockedIsReady DEF TakeTip
  <2>2. ATypeOK' BY <1>0, <1>1 DEF ATypeOK, TakeTip
  <2>3. HandsReady' BY <1>0, <1>1, <2>1 DEF HandsReady, TakeTip, Handing
  <2> QED BY <1>0, <2>2, <2>3
<1>2. CASE PostGreen
  <2>1. cur \in Change /\ Ready(cur) BY <1>2 DEF PostGreen, HandsReady, Handing
  <2>2. ATypeOK' BY <1>0, <1>2, <2>1 DEF ATypeOK, PostGreen
  <2>3. \A d \in Change : status'[d] = "success" => status[d] = "success" \/ d = cur
    BY <1>2 DEF ATypeOK, PostGreen
  <2>4. HandsReady' BY <1>0, <1>2, <2>1, <2>3 DEF HandsReady, PostGreen, Handing
  <2> QED BY <1>0, <2>2, <2>4
<1>3. CASE Merged
  <2>1. cur \in Change /\ cur \in OnTrunk BY <1>3 DEF Merged, HandsReady, Handing
  <2>2. ATypeOK' BY <1>0, <1>3, <2>1 DEF ATypeOK, Merged
  <2>3. HandsReady' BY <1>0, <1>3 DEF HandsReady, Merged, Handing
  <2> QED BY <1>0, <2>2, <2>3
<1>4. CASE PostFailure \/ \E c \in Change : WaitRest(c)
  <2>1. /\ status' \in [Change -> {"none", "pending", "success", "failure"}]
        /\ \A d \in Change : status'[d] = "success" => status[d] = "success"
    BY <1>4 DEF ATypeOK, PostFailure, WaitRest
  <2>2. (apc = "kicking" /\ apc' = "kicked") \/ (apc = "finishing" /\ apc' = "finishing")
    BY <1>4 DEF PostFailure, WaitRest
  <2>3. ATypeOK' BY <1>0, <1>4, <2>1 DEF ATypeOK, PostFailure, WaitRest
  <2>4. HandsReady'
    <3>1. cur' = cur BY <1>4 DEF PostFailure, WaitRest
    <3> QED BY <1>0, <2>1, <2>2, <3>1 DEF HandsReady, Handing
  <2> QED BY <1>0, <2>3, <2>4
<1>5. CASE KickBack \/ Finish \/ Done
  <2>1. apc = "kicked" => cur \in Change BY DEF HandsReady
  <2>2. ATypeOK' BY <1>0, <1>5, <2>1 DEF ATypeOK, KickBack, Finish, Done
  <2>3. HandsReady' BY <1>0, <1>5 DEF HandsReady, KickBack, Finish, Done, Handing
  <2> QED BY <1>0, <2>2, <2>3
<1>6. CASE Restart
  <2>1. applies' \in 1..MaxApplies BY <1>6 DEF ATypeOK, Restart
  <2>2. ATypeOK' BY <1>0, <1>6, <2>1 DEF ATypeOK, Restart
  <2>3. HandsReady' BY <1>0, <1>6 DEF HandsReady, Restart, Handing
  <2> QED BY <1>0, <2>2, <2>3
<1> QED BY <1>1, <1>2, <1>3, <1>4, <1>5, <1>6

\* A change that is ready lands, and nothing else of the applier's changes but where it is.
LEMMA LandsInv ==
  ASSUME ApplyInv, ~Apart, UNCHANGED vvars,
         NEW c \in Change, Ready(c), c \notin OnTrunk, Lands(c),
         UNCHANGED <<cur, got, settled, amerged, tip, status, moved, intent, events, applies>>,
         apc' = apc \/ (apc \in Handing /\ cur = c /\ apc' \in {"over", "refused"})
  PROVE  ApplyInv'
<1> USE DEF ApplyInv
<1> USE QueueApplyAssumption
<1>1. /\ LandsOnce' /\ MergedAsGated' /\ trunk' \in Seq(Change \cup {Foreign})
      /\ OnTrunk' = OnTrunk \cup {c}
  BY GreenLands DEF Lands
<1>2. QueueInv' BY StutterInv
<1>3. UNCHANGED <<verdict, onto>> BY DEF vvars
<1>4. strange' \in BOOLEAN BY DEF Lands, ATypeOK
<1>5. apc' \in {"revoking", "ready", "tip", "checked", "still", "same", "green", "refused",
                "over", "kicking", "kicked", "finishing", "done", "failed"}
  BY DEF ATypeOK
<1>6. ATypeOK' BY <1>1, <1>4, <1>5 DEF ATypeOK
<1>7. \A d \in Change : Ready(d) => Ready(d)' BY <1>1, <1>3 DEF Ready
<1>8. HandsReady' BY <1>1, <1>7 DEF HandsReady, Handing
<1> QED BY <1>1, <1>2, <1>6, <1>8

LEMMA MergeChangeInv ==
  ASSUME ApplyInv, ~Apart, UNCHANGED vvars, MergeChange PROVE ApplyInv'
<1>1. apc = "green" /\ cur \in Change /\ Ready(cur)
  BY DEF ApplyInv, MergeChange, HandsReady, Handing
<1>2. ASSUME UNCHANGED <<trunk, strange>>,
             apc' = "refused" \/ (apc' = "over" /\ cur \in OnTrunk)
      PROVE ApplyInv'
  <2> USE DEF ApplyInv
  <2>1. /\ QueueInv' /\ LandsOnce' /\ MergedAsGated' /\ OnTrunk' = OnTrunk
        /\ \A d \in Change : Ready(d)' = Ready(d)
    BY <1>2, Quiet
  <2>2. ATypeOK' BY <1>2, <2>1 DEF ATypeOK, MergeChange
  <2>3. HandsReady' BY <1>1, <1>2, <2>1 DEF HandsReady, MergeChange, Handing
  <2> QED BY <2>1, <2>2, <2>3
<1>3. ASSUME cur \notin OnTrunk, Lands(cur), apc' \in {"over", "refused"} PROVE ApplyInv'
  BY <1>1, <1>3, LandsInv DEF MergeChange, Handing
<1> QED BY <1>2, <1>3 DEF MergeChange

LEMMA OthersInv ==
  ASSUME ApplyInv, ~Apart, Others PROVE ApplyInv'
<1> USE DEF ApplyInv
<1> USE QueueApplyAssumption
<1>0. UNCHANGED vvars BY DEF Others
<1>1. ASSUME NEW c \in Change, AutoMerge(c) PROVE ApplyInv'
  <2>1. Ready(c) /\ c \notin OnTrunk BY <1>1 DEF AutoMerge, IsGreen, HandsReady
  <2> QED BY <1>0, <1>1, <2>1, LandsInv DEF AutoMerge
<1>2. ASSUME NEW c \in Change, PushHead(c) \/ Withdraw(c) PROVE ApplyInv'
  <2>1. /\ QueueInv' /\ LandsOnce' /\ MergedAsGated' /\ OnTrunk' = OnTrunk
        /\ \A d \in Change : Ready(d)' = Ready(d)
    BY <1>0, <1>2, Quiet DEF PushHead, Withdraw
  <2>2. events' \in 0..MaxEvents BY <1>2 DEF ATypeOK, PushHead, Withdraw
  <2>3. ATypeOK' BY <1>2, <2>1, <2>2 DEF ATypeOK, PushHead, Withdraw
  <2>4. HandsReady' BY <1>2, <2>1 DEF HandsReady, PushHead, Withdraw
  <2> QED BY <2>1, <2>3, <2>4
<1>3. CASE Push
  <2>1. /\ LandsOnce' /\ MergedAsGated' /\ trunk' \in Seq(Change \cup {Foreign})
        /\ OnTrunk' = OnTrunk
    BY <1>0, <1>3, ForeignLands DEF Push
  <2>2. QueueInv' BY <1>0, StutterInv
  <2>3. UNCHANGED <<verdict, onto>> BY <1>0 DEF vvars
  <2>4. ATypeOK' BY <1>3, <2>1 DEF ATypeOK, Push
  <2>5. HandsReady' BY <1>3, <2>1, <2>3 DEF HandsReady, Push, Ready
  <2> QED BY <2>1, <2>2, <2>4, <2>5
<1>4. CASE Dies
  <2>1. /\ QueueInv' /\ LandsOnce' /\ MergedAsGated' /\ OnTrunk' = OnTrunk
        /\ \A d \in Change : Ready(d)' = Ready(d)
    BY <1>0, <1>4, Quiet DEF Dies
  <2>2. /\ status' \in [Change -> {"none", "pending", "success", "failure"}]
        /\ \A d \in Change : status'[d] = "success" => status[d] = "success" \/ Ready(d)
    <3>1. CASE UNCHANGED status BY <3>1 DEF ATypeOK
    <3>2. CASE apc = "same"
               /\ \E s \in {"success", "pending"} : status' = [status EXCEPT ![cur] = s]
      <4>1. cur \in Change /\ Ready(cur) BY <3>2 DEF HandsReady, Handing
      <4> QED BY <3>2, <4>1 DEF ATypeOK
    <3> QED BY <1>4, <3>1, <3>2 DEF Dies
  <2>3. ATypeOK' BY <1>4, <2>1, <2>2 DEF ATypeOK, Dies
  <2>4. HandsReady' BY <1>4, <2>1, <2>2 DEF HandsReady, Dies, Handing
  <2> QED BY <2>1, <2>3, <2>4
<1> QED BY <1>1, <1>2, <1>3, <1>4 DEF Others

-----------------------------------------------------------------------------
LEMMA ApplyStep ==
  ASSUME ApplyInv, ~Apart, [ANext]_<<vvars, avars>> PROVE ApplyInv'
<1>1. CASE Validates /\ UNCHANGED avars BY <1>1, ValidationKeeps
<1>2. CASE Applies
  BY <1>2, BetweenInv, HandOverInv, MergeChangeInv DEF Applies
<1>3. CASE Others BY <1>3, OthersInv
<1>4. CASE UNCHANGED <<vvars, avars>>
  <2>1. QueueInv' BY <1>4, StutterInv DEF ApplyInv
  <2>2. UNCHANGED <<verdict, onto>> BY <1>4 DEF vvars
  <2> QED BY <1>4, <2>1, <2>2
      DEF avars, ApplyInv, ATypeOK, OnTrunk, HandsReady, Ready, LandsOnce, MergedAsGated, UpTo
<1> QED BY <1>1, <1>2, <1>3, <1>4 DEF ANext

LEMMA ApplyInvAlways == ASSUME ~Apart PROVE ASpec => []ApplyInv
<1>1. ApplyInv /\ [ANext]_<<vvars, avars>> => ApplyInv' BY ApplyStep
<1> QED BY <1>1, InitApplyInv, PTL DEF ASpec

\* With one pipeline per partition, a change merges on exactly those of its partition its
\* gate saw beneath it (apply.go's confirmed and stillQueued, and postGreen's order).
THEOREM MergedAsGatedAlways == ASSUME ~Apart PROVE ASpec => []MergedAsGated
<1>1. ApplyInv => MergedAsGated BY DEF ApplyInv
<1> QED BY <1>1, ApplyInvAlways, PTL

\* A refused, withdrawn or lost merge is never counted among those that happened.
THEOREM ATypeOKAlways == ASSUME ~Apart PROVE ASpec => []ATypeOK
<1>1. ApplyInv => ATypeOK BY DEF ApplyInv
<1> QED BY <1>1, ApplyInvAlways, PTL

-----------------------------------------------------------------------------
\* Where a success may stand: the applier's stages, whatever the pipelines do.
SuccessInv ==
  /\ status \in [Change -> {"none", "pending", "success", "failure"}]
  /\ trunk \in Seq(Change \cup {Foreign})
  /\ apc \in Handing => cur \in Change
  /\ apc = "over" => cur \in OnTrunk
  /\ OneGreen

\* What is merged stays so.
LEMMA TrunkGrows ==
  ASSUME trunk \in Seq(Change \cup {Foreign}), NEW x \in Change \cup {Foreign},
         trunk' = Append(trunk, x)
  PROVE  /\ trunk' \in Seq(Change \cup {Foreign}) /\ OnTrunk \subseteq OnTrunk'
         /\ x # Foreign => x \in OnTrunk'
<1>1. PICK n \in Nat : n = Len(trunk) OBVIOUS
<1>2. /\ trunk' \in Seq(Change \cup {Foreign}) /\ DOMAIN trunk = 1..n
      /\ DOMAIN trunk' = 1..(n + 1) /\ trunk'[n + 1] = x
      /\ \A i \in 1..n : trunk'[i] = trunk[i]
  BY <1>1
<1>3. 1..n \subseteq 1..(n + 1) /\ n + 1 \in 1..(n + 1) BY <1>1
<1>4. Range(trunk') = {trunk'[i] : i \in 1..(n + 1)} BY <1>2 DEF Range
<1>5. Range(trunk) = {trunk[i] : i \in 1..n} BY <1>2 DEF Range
<1>6. Range(trunk) \subseteq Range(trunk') BY <1>2, <1>3, <1>4, <1>5
<1>7. x \in Range(trunk') BY <1>2, <1>3, <1>4
<1> QED BY <1>2, <1>6, <1>7 DEF OnTrunk

\* The change in hand is waited for or kicked back.
LEMMA SettlingGreen ==
  ASSUME SuccessInv, UNCHANGED <<tip, trunk, moved>>, apc \notin {"failed", "revoking", "green"},
         NEW c \in Change, Wait(c) \/ (apc # "refused" /\ Kick(c)), apc = "refused" => c = cur
  PROVE  SuccessInv'
<1>1. \/ Wait(c)
      \/ apc' = "kicking" /\ UNCHANGED status
  BY DEF Kick
<1>2. CASE Wait(c)
  <2>1. /\ status' \in [Change -> {"none", "pending", "success", "failure"}]
        /\ \A d \in Change : status'[d] = "success" => status[d] = "success" /\ d # c
    BY <1>2 DEF SuccessInv, Wait, Settle
  <2>2. OneGreen' BY <1>2, <2>1 DEF SuccessInv, OneGreen, IsGreen, OnTrunk, Wait, Settle
  <2> QED BY <1>2, <2>1, <2>2 DEF SuccessInv, Wait, Settle, Handing
<1>3. CASE apc' = "kicking" /\ UNCHANGED status /\ apc # "refused"
  BY <1>3 DEF SuccessInv, OneGreen, IsGreen, OnTrunk, Handing
<1>4. CASE apc = "refused" BY <1>2, <1>4
<1> QED BY <1>1, <1>2, <1>3, <1>4

LEMMA AppliesGreen == ASSUME SuccessInv, Applies PROVE SuccessInv'
<1> USE DEF SuccessInv
<1>1. ASSUME NEW c \in Change, RevokeStale(c) PROVE SuccessInv'
  BY <1>1 DEF RevokeStale, OneGreen, IsGreen, OnTrunk, Handing
<1>2. ASSUME NEW c \in Change, SettleFront(c) PROVE SuccessInv'
  BY <1>2, SettlingGreen DEF SettleFront, Settle, Wait, Kick
<1>3. ASSUME NEW c \in Change, TakeTip(c) PROVE SuccessInv'
  BY <1>3 DEF TakeTip, OneGreen, IsGreen, OnTrunk, Handing
<1>4. CASE Start \/ Poll BY <1>4 DEF Start, Poll, OneGreen, IsGreen, OnTrunk, Handing
<1>5. CASE Check
  <2>1. CASE Wait(cur) \/ Kick(cur)
    BY <1>5, <2>1, SettlingGreen DEF Check, Handing
  <2>2. CASE Goes("checked")
    BY <1>5, <2>2 DEF Check, Goes, OneGreen, IsGreen, OnTrunk, Handing
  <2> QED BY <1>5, <2>1, <2>2 DEF Check
<1>6. CASE StillQueued
  <2>1. CASE Wait(cur) BY <1>6, <2>1, SettlingGreen DEF StillQueued, Handing
  <2>2. CASE Goes("still")
    BY <1>6, <2>2 DEF StillQueued, Goes, OneGreen, IsGreen, OnTrunk, Handing
  <2> QED BY <1>6, <2>1, <2>2 DEF StillQueued
<1>7. CASE BaseStill
  <2>1. CASE Wait(cur) BY <1>7, <2>1, SettlingGreen DEF BaseStill, Handing
  <2>2. CASE Goes("same")
    BY <1>7, <2>2 DEF BaseStill, Goes, OneGreen, IsGreen, OnTrunk, Handing
  <2> QED BY <1>7, <2>1, <2>2 DEF BaseStill
<1>8. CASE PostGreen
  <2>1. /\ status' \in [Change -> {"none", "pending", "success", "failure"}]
        /\ \A d \in Change : status'[d] = "success" => status[d] = "success" \/ d = cur
    BY <1>8 DEF PostGreen
  <2> QED BY <1>8, <2>1 DEF PostGreen, OneGreen, IsGreen, OnTrunk, Handing
<1>9. CASE MergeChange
  <2>1. cur \in Change /\ apc = "green" BY <1>9 DEF MergeChange, Handing
  <2>2. \A c \in Change : IsGreen(c) => c = cur /\ cur \notin OnTrunk
    BY <2>1 DEF OneGreen, IsGreen
  <2>3. CASE UNCHANGED trunk
    <3>1. apc' = "refused" \/ (apc' = "over" /\ cur \in OnTrunk)
      <4>1. ASSUME Lands(cur) PROVE FALSE
        <5>1. Len(trunk') = Len(trunk) + 1 /\ Len(trunk) \in Nat BY <2>1, <4>1 DEF Lands
        <5> QED BY <2>3, <5>1
      <4> QED BY <1>9, <4>1 DEF MergeChange
    <3>2. OnTrunk' = OnTrunk BY <2>3 DEF OnTrunk
    <3>3. OneGreen' BY <1>9, <2>2, <2>3, <3>1, <3>2 DEF MergeChange, OneGreen, IsGreen
    <3> QED BY <1>9, <2>1, <2>3, <3>1, <3>2, <3>3 DEF MergeChange
  <2>4. CASE Lands(cur) /\ apc' \in {"over", "refused"}
    <3>1. cur # Foreign BY <2>1, QueueApplyAssumption
    <3>2. /\ trunk' \in Seq(Change \cup {Foreign}) /\ OnTrunk \subseteq OnTrunk'
          /\ cur \in OnTrunk'
      BY <2>1, <2>4, <3>1, TrunkGrows DEF Lands
    <3>3. OneGreen' BY <1>9, <2>2, <3>2 DEF MergeChange, OneGreen, IsGreen
    <3> QED BY <1>9, <2>1, <2>4, <3>2, <3>3 DEF MergeChange
  <2> QED BY <1>9, <2>3, <2>4 DEF MergeChange
<1>10. CASE Refused
  BY <1>10, SettlingGreen DEF Refused, Handing
<1>11. CASE Merged BY <1>11 DEF Merged, OneGreen, IsGreen, OnTrunk, Handing
<1>12. CASE PostFailure \/ \E c \in Change : WaitRest(c)
  <2>1. /\ status' \in [Change -> {"none", "pending", "success", "failure"}]
        /\ \A d \in Change : status'[d] = "success" => status[d] = "success"
    BY <1>12 DEF PostFailure, WaitRest
  <2>2. /\ apc \in {"kicking", "finishing"} /\ apc' \in {"kicked", "finishing"}
        /\ UNCHANGED <<cur, trunk, moved>>
    BY <1>12 DEF PostFailure, WaitRest
  <2> QED BY <2>1, <2>2 DEF OneGreen, IsGreen, OnTrunk, Handing
<1>14. CASE KickBack \/ Finish \/ Done
  BY <1>14 DEF KickBack, Finish, Done, OneGreen, IsGreen, OnTrunk, Handing
<1>13. CASE Restart BY <1>13 DEF Restart, OneGreen, IsGreen, OnTrunk, Handing
<1> QED BY <1>1, <1>2, <1>3, <1>4, <1>5, <1>6, <1>7, <1>8, <1>9, <1>10, <1>11, <1>12, <1>13, <1>14
    DEF Applies

LEMMA OthersGreen == ASSUME SuccessInv, Others PROVE SuccessInv'
<1> USE DEF SuccessInv
<1>1. ASSUME NEW x \in Change \cup {Foreign}, trunk' = Append(trunk, x),
             UNCHANGED <<apc, cur, status, moved>>
      PROVE  SuccessInv'
  <2>1. trunk' \in Seq(Change \cup {Foreign}) /\ OnTrunk \subseteq OnTrunk'
    BY <1>1, TrunkGrows
  <2>2. OneGreen' BY <1>1, <2>1 DEF OneGreen, IsGreen
  <2> QED BY <1>1, <2>1, <2>2
<1>2. ASSUME NEW c \in Change, AutoMerge(c) PROVE SuccessInv'
  BY <1>1, <1>2 DEF AutoMerge, Lands
<1>3. CASE Push BY <1>1, <1>3 DEF Push
<1>4. ASSUME NEW c \in Change, PushHead(c) \/ Withdraw(c) PROVE SuccessInv'
  BY <1>4 DEF PushHead, Withdraw, OneGreen, IsGreen, OnTrunk
<1>5. CASE Dies
  <2>1. status' \in [Change -> {"none", "pending", "success", "failure"}]
    BY <1>5 DEF Dies
  <2> QED BY <1>5, <2>1 DEF Dies, OneGreen, OnTrunk, Handing
<1> QED BY <1>2, <1>3, <1>4, <1>5 DEF Others

\* A success stands on no change but the one whose merge is asked for, unless the run
\* stopped: with one pipeline per partition or many jobs (apply.go's hand posts success and
\* sets a refused one back to pending; revokeStale runs before anything else).
THEOREM OneGreenAlways == ASpec => []OneGreen
<1>1. AInit => SuccessInv
  <2> SUFFICES ASSUME AInit PROVE SuccessInv OBVIOUS
  <2>1. trunk \in Seq(Change \cup {Foreign}) BY DEF AInit
  <2>2. status \in [Change -> {"none", "pending", "success", "failure"}] BY DEF AInit
  <2> QED BY <2>1, <2>2 DEF AInit, SuccessInv, OneGreen, IsGreen, Handing
<1>2. SuccessInv /\ [ANext]_<<vvars, avars>> => SuccessInv'
  <2>1. ASSUME SuccessInv, UNCHANGED avars PROVE SuccessInv'
    BY <2>1 DEF avars, SuccessInv, OneGreen, IsGreen, OnTrunk
  <2> QED BY <2>1, AppliesGreen, OthersGreen DEF ANext
<1>3. SuccessInv => OneGreen BY DEF SuccessInv
<1> QED BY <1>1, <1>2, <1>3, PTL DEF ASpec

-----------------------------------------------------------------------------
\* Changes that affect a unit in common are of one partition.
Partitioned == \A c, d \in Change : Units[c] \cap Units[d] # {} => Group[c] = Group[d]

\* Only changes that affect a unit break it.
BreakOwnUnits == \A w \in Worlds : \A r \in w.red : \A d \in r.of \cap Change : r.unit \in Units[d]

InAWorld == world \in Worlds

LEMMA WorldStays == ASpec => []InAWorld
<1>1. AInit => InAWorld BY DEF AInit, VInit, InAWorld
<1>2. ASSUME Validates PROVE world' = world
  <2>1. ASSUME NEW c \in Change, ChangeNext(c) PROVE world' = world
    BY <2>1 DEF ChangeNext, ChangeAdvances, Hold, Launch, Job, GateEnds, Note, Stop, Green, Refuse, Behind,
                BaseStart, Judge
  <2> QED BY <1>2, <2>1 DEF Validates, BaseEnds
<1>3. InAWorld /\ [ANext]_<<vvars, avars>> => InAWorld'
  BY <1>2 DEF ANext, Applies, Others, vvars, InAWorld
<1> QED BY <1>1, <1>3, PTL DEF ASpec

\* A change that merged on top of what it was gated on is red only if its gate was.
LEMMA GatedMeansGreen ==
  ASSUME Partitioned, BreakOwnUnits, ~Apart, ApplyInv, InAWorld PROVE MainStaysGreen
<1> USE DEF ApplyInv, QueueInv
<1> SUFFICES ASSUME NEW i \in DOMAIN trunk, trunk[i] \in Change,
                    NEW r \in world.red, r.of \subseteq UpTo(i), r.unit \in Units[trunk[i]]
             PROVE  FALSE
  BY DEF MainStaysGreen, IsRed
<1> DEFINE c == trunk[i]
<1>1. /\ DOMAIN trunk = 1..Len(trunk) /\ Len(trunk) \in Nat
      /\ \A k \in DOMAIN trunk : trunk[k] \in Change \cup {Foreign}
  BY DEF ATypeOK
<1>2. i \in 1..Len(trunk) /\ i \in Nat BY <1>1
<1>3. ASSUME NEW x \in r.of, x # c PROVE x \in onto[c]
  <2>1. PICK j \in 1..i : trunk[j] = x /\ x # Foreign BY DEF UpTo
  <2>2. j \in DOMAIN trunk /\ j \in 1..(i - 1) /\ x \in Change
    BY <1>1, <1>2, <1>3, <2>1
  <2>3. r.unit \in Units[x] BY <2>2 DEF BreakOwnUnits, InAWorld
  <2>4. Group[x] = Group[c] BY <2>2, <2>3 DEF Partitioned
  <2>5. CASE x \in Ahead(c)
    <3>1. x \in UpTo(i - 1) BY <2>1, <2>2 DEF UpTo
    <3> QED BY <2>5, <3>1 DEF MergedAsGated
  <2>6. CASE c \in Ahead(x)
    <3>1. verdict[c] = "merge" /\ verdict[x] = "merge" BY <2>1, <2>2 DEF LandsOnce
    <3>2. c \in onto[x] BY <2>2, <2>6, <3>1 DEF OnAllAhead
    <3>3. c \in UpTo(j - 1) BY <2>1, <2>2, <3>2 DEF MergedAsGated
    <3>4. PICK k \in 1..(j - 1) : trunk[k] = c BY <3>3 DEF UpTo
    <3>5. k \in DOMAIN trunk /\ k # i BY <1>1, <1>2, <2>2, <3>4
    <3> QED BY <3>4, <3>5 DEF LandsOnce
  <2> QED BY <1>3, <2>2, <2>4, <2>5, <2>6, Line
<1>4. r.of \subseteq onto[c] \cup {c} BY <1>3
<1>5. verdict[c] = "merge" BY DEF LandsOnce
<1>6. ~IsRed(onto[c] \cup {c}, Units[c]) BY <1>5 DEF GreenIsGated
<1> QED BY <1>4, <1>6 DEF IsRed

\* The base stays green, for every plan, every way the changes break each other's units
\* within a partition, and every failure on the way: each merge was gated as it landed.
THEOREM MainStaysGreenAlways ==
  ASSUME Partitioned, BreakOwnUnits, ~Apart PROVE ASpec => []MainStaysGreen
<1>1. ApplyInv /\ InAWorld => MainStaysGreen BY GatedMeansGreen
<1> QED BY <1>1, ApplyInvAlways, WorldStays, PTL

=============================================================================
