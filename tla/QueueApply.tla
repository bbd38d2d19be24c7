---------------------------- MODULE QueueApply ----------------------------
(***************************************************************************)
(* The merge queue's write step (internal/queue/apply.go), reading         *)
(* verdicts as validation records them.  It settles each partition from    *)
(* the front and hands one change at a time to the provider: read the      *)
(* base, check the change, read its intent and the base once more, post    *)
(* success, ask for the merge, check what the base then carries.  The      *)
(* provider may merge a change by itself once its status is success.       *)
(***************************************************************************)
EXTENDS QueueValidate, Sequences, Functions

CONSTANTS
  Foreign,    \* what others push to the base
  AutoMerges,  \* the changes with auto-merge on, which the provider merges itself
  MayHold,    \* a check may find something else to wait for, or to refuse
  MayLose,    \* the answer to a merge may be lost
  MaxForeign, \* pushes to the base
  MaxEvents,  \* heads pushed to and intents withdrawn
  MaxApplies  \* runs of the applier over the plan; all but the last may die

ASSUME QueueApplyAssumption ==
  /\ Foreign \notin Change /\ AutoMerges \subseteq Change
  /\ {MayHold, MayLose} \subseteq BOOLEAN
  /\ {MaxForeign, MaxEvents} \subseteq Nat /\ MaxApplies \in Nat \ {0}

VARIABLES
  apc,      \* where the applier is
  cur,      \* the change it hands over, or NoChange
  got,      \* verdicts read
  settled,  \* changes it is done with
  amerged,  \* those it saw merged
  tip,      \* the base it predicted cur's merge onto
  trunk,    \* what merged onto the plan's base, in order
  status,   \* the queue's status on each change's planned head
  moved,    \* heads pushed to since the plan
  intent,   \* changes that are still to be merged
  strange,  \* a merge this run handed over landed on another base than it read
  events,   \* MaxEvents so far
  applies   \* MaxApplies so far

avars == <<apc, cur, got, settled, amerged, tip, trunk, status, moved, intent, strange, events, applies>>

AInit ==
  /\ VInit
  /\ apc = "revoking" /\ cur = NoChange
  /\ got = {} /\ settled = {} /\ amerged = {}
  /\ tip = 0 /\ trunk = <<>>
  /\ status = [c \in Change |-> "none"]
  /\ moved = {} /\ intent = Change
  /\ strange = FALSE /\ events = 0 /\ applies = 1

-----------------------------------------------------------------------------
OnTrunk == Range(trunk) \ {Foreign}
\* What the provider may merge by itself, or lists as green.
IsGreen(c) == status[c] = "success" /\ c \notin moved \cup OnTrunk

\* Its merge intent as the provider reads it: auto-merge ends with the merge, a label stays.
Queued(c) == c \in intent \ (AutoMerges \cap OnTrunk)

\* The change a verdict says its candidate was built on.
After(c) == {d \in onto[c] : \A e \in onto[c] : Pos[e] <= Pos[d]}

\* Mutant of Blocked: only what it is stacked on is asked for.
BlockedStack(c) == Below[c] \notin (amerged \cap onto[c]) \cup {NoChange}

\* What it was validated on, or is stacked on, did not merge in this run, or is not what
\* it was built on.
Blocked(c) ==
  \/ Below[c] \notin (amerged \cap onto[c]) \cup {NoChange}
  \/ onto[c] # {} /\ ~\E d \in After(c) \cap amerged : onto[c] = onto[d] \cup {d}

\* The front of its partition's queue, with its verdict read.
Front(c) == c \in got \ settled /\ Ahead(c) \subseteq settled

\* Post s on c and be done with it.
Settle(c, s) ==
  /\ status' = [status EXCEPT ![c] = s]
  /\ settled' = settled \cup {c}
  /\ apc' = "ready" /\ cur' = NoChange
Wait(c) == Settle(c, "pending") /\ UNCHANGED intent
\* Kicked back at its head; pushed to since, it waits for another decision.
Kick(c) ==
  IF c \in moved THEN Wait(c)
  ELSE apc' = "kicking" /\ cur' = c /\ UNCHANGED <<settled, status, intent>>

Goes(s) == apc' = s /\ UNCHANGED <<cur, settled, status, intent>>

-----------------------------------------------------------------------------
(* The applier.                                                              *)

\* Set back to pending, before anything else, every success an earlier run left.
RevokeStale(c) ==
  /\ apc = "revoking" /\ IsGreen(c)
  /\ status' = [status EXCEPT ![c] = "pending"]
  /\ UNCHANGED <<apc, cur, got, settled, amerged, tip, trunk, moved, intent, strange, events, applies>>

Start ==
  /\ apc = "revoking" /\ \A c \in Change : ~IsGreen(c)
  /\ apc' = "ready"
  /\ UNCHANGED <<cur, got, settled, amerged, tip, trunk, status, moved, intent, strange, events, applies>>

Recorded == {c \in Change : verdict[c] # "none"}
Poll ==
  /\ apc = "ready" /\ got # Recorded
  /\ got' = Recorded
  /\ UNCHANGED <<apc, cur, settled, amerged, tip, trunk, status, moved, intent, strange, events, applies>>

\* A verdict of kick or wait, or a green one that cannot merge yet.
SettleFront(c) ==
  /\ apc = "ready" /\ Front(c)
  /\ \/ verdict[c] = "kick" /\ Kick(c)
     \/ verdict[c] \in Waits /\ Wait(c)
     \/ verdict[c] = "merge" /\ Blocked(c) /\ Wait(c)
  /\ UNCHANGED <<got, amerged, tip, trunk, moved, strange, events, applies>>

\* Read the base a green change's merge is predicted onto.
TakeTip(c) ==
  /\ apc = "ready" /\ Front(c) /\ verdict[c] = "merge" /\ ~Blocked(c)
  /\ apc' = "tip" /\ cur' = c /\ tip' = Len(trunk)
  /\ UNCHANGED <<got, settled, amerged, trunk, status, moved, intent, strange, events, applies>>

\* Its head and intent, approval, base, method and required checks, its candidate rebuilt
\* and merged onto that base.
Check ==
  /\ apc = "tip"
  /\ \/ (cur \in moved \/ ~Queued(cur) \/ MayHold) /\ Wait(cur)
     \/ cur \notin moved /\ Queued(cur) /\ MayHold /\ Kick(cur)
     \/ cur \notin moved /\ Queued(cur) /\ Goes("checked")
  /\ UNCHANGED <<got, amerged, tip, trunk, moved, strange, events, applies>>

StillQueued ==
  /\ apc = "checked"
  /\ IF cur \in moved \/ ~Queued(cur) THEN Wait(cur) ELSE Goes("still")
  /\ UNCHANGED <<got, amerged, tip, trunk, moved, strange, events, applies>>

\* Read the base again right before going green.
BaseStill ==
  /\ apc = "still"
  /\ IF Len(trunk) = tip THEN Goes("same") ELSE Wait(cur)
  /\ UNCHANGED <<got, amerged, tip, trunk, moved, strange, events, applies>>

PostGreen ==
  /\ apc = "same"
  /\ apc' = "green" /\ status' = [status EXCEPT ![cur] = "success"]
  /\ UNCHANGED <<cur, got, settled, amerged, tip, trunk, moved, intent, strange, events, applies>>

\* c lands on the base, which the run may have read otherwise.
Lands(c) ==
  /\ trunk' = Append(trunk, c)
  /\ strange' = (strange \/ (cur = c /\ Len(trunk) # tip))

\* The provider has merged the change, merges it now, or refuses.
MergeChange ==
  /\ apc = "green"
  /\ \/ cur \in OnTrunk /\ apc' = "over" /\ UNCHANGED <<trunk, strange>>
     \/ cur \notin OnTrunk \cup moved /\ cur \in intent
        /\ Lands(cur)
        /\ apc' \in {"over"} \cup (IF MayLose THEN {"refused"} ELSE {})
     \/ cur \notin OnTrunk /\ (cur \in moved \/ cur \notin intent \/ MayHold)
        /\ apc' = "refused" /\ UNCHANGED <<trunk, strange>>
  /\ UNCHANGED <<cur, got, settled, amerged, tip, status, moved, intent, events, applies>>

\* Mutant of Refused: the success stays on what the provider refused.
RefusedGreen ==
  /\ apc = "refused"
  /\ settled' = settled \cup {cur} /\ apc' = "ready" /\ cur' = NoChange
  /\ UNCHANGED <<status, intent, got, amerged, tip, trunk, moved, strange, events, applies>>

Refused ==
  /\ apc = "refused" /\ Wait(cur)
  /\ UNCHANGED <<got, amerged, tip, trunk, moved, strange, events, applies>>

\* The base carries the predicted tree, this merge alone on the tip, or applying stops.
Merged ==
  /\ apc = "over"
  /\ amerged' = amerged \cup {cur}
  /\ settled' = settled \cup {cur} /\ cur' = NoChange
  /\ apc' = IF Len(trunk) = tip + 1 THEN "ready" ELSE "failed"
  /\ UNCHANGED <<got, tip, trunk, status, moved, intent, strange, events, applies>>

\* The two calls of a kick: its failure, and the provider takes it off the queue.
PostFailure ==
  /\ apc = "kicking"
  /\ apc' = "kicked" /\ status' = [status EXCEPT ![cur] = "failure"]
  /\ UNCHANGED <<cur, got, settled, amerged, tip, trunk, moved, intent, strange, events, applies>>

KickBack ==
  /\ apc = "kicked"
  /\ intent' = intent \ {cur} /\ settled' = settled \cup {cur}
  /\ apc' = "ready" /\ cur' = NoChange
  /\ UNCHANGED <<got, amerged, tip, trunk, status, moved, strange, events, applies>>

\* No verdict is to come: the rest waits, one after the other.
ValidationOver == \A c \in Change : stage[c] \in {"decided", "lost"} \/ Group[c] \in stopped
Finish ==
  /\ apc = "ready" /\ \A c \in Change : ~Front(c)
  /\ settled # Change /\ ValidationOver /\ got = Recorded
  /\ apc' = "finishing"
  /\ UNCHANGED <<cur, got, settled, amerged, tip, trunk, status, moved, intent, strange, events, applies>>

WaitRest(c) ==
  /\ apc = "finishing" /\ c \notin settled /\ Ahead(c) \subseteq settled
  /\ settled' = settled \cup {c} /\ status' = [status EXCEPT ![c] = "pending"]
  /\ UNCHANGED <<apc, cur, got, amerged, tip, trunk, moved, intent, strange, events, applies>>

Done ==
  /\ apc \in {"ready", "finishing"} /\ settled = Change /\ apc' = "done"
  /\ UNCHANGED <<cur, got, settled, amerged, tip, trunk, status, moved, intent, strange, events, applies>>

\* An error or a crash ends the run where it is; a status that failed to post may have
\* been posted, and is set back if that can be.
Dies ==
  /\ applies < MaxApplies
  /\ apc \notin {"done", "failed"}
  /\ apc' = "failed"
  /\ \/ UNCHANGED status
     \/ apc = "same" /\ \E s \in {"success", "pending"} : status' = [status EXCEPT ![cur] = s]
  /\ UNCHANGED <<cur, got, settled, amerged, tip, trunk, moved, intent, strange, events, applies>>

\* Mutant of Restart: a run starts without looking for an earlier one's success.
RestartReady ==
  /\ apc = "failed" /\ applies < MaxApplies
  /\ apc' = "ready" /\ applies' = applies + 1
  /\ cur' = NoChange /\ got' = {} /\ settled' = {} /\ amerged' = {} /\ strange' = FALSE
  /\ UNCHANGED <<tip, trunk, status, moved, intent, events>>

\* The plan is applied again.
Restart ==
  /\ apc = "failed" /\ applies < MaxApplies
  /\ apc' = "revoking" /\ applies' = applies + 1
  /\ cur' = NoChange /\ got' = {} /\ settled' = {} /\ amerged' = {} /\ strange' = FALSE
  /\ UNCHANGED <<tip, trunk, status, moved, intent, events>>

-----------------------------------------------------------------------------
(* The provider and everyone else.                                           *)

\* Auto-merge merges a green change with its intent.
AutoMerge(c) ==
  /\ c \in AutoMerges \cap intent /\ IsGreen(c)
  /\ Lands(c)
  /\ UNCHANGED <<apc, cur, got, settled, amerged, tip, status, moved, intent, events, applies>>

Push ==
  /\ Len(SelectSeq(trunk, LAMBDA x : x = Foreign)) < MaxForeign
  /\ trunk' = Append(trunk, Foreign)
  /\ UNCHANGED <<apc, cur, got, settled, amerged, tip, status, moved, intent, strange, events, applies>>

PushHead(c) ==
  /\ events < MaxEvents /\ events' = events + 1
  /\ c \notin moved \cup OnTrunk /\ moved' = moved \cup {c}
  /\ UNCHANGED <<apc, cur, got, settled, amerged, tip, trunk, status, intent, strange, applies>>

Withdraw(c) ==
  /\ events < MaxEvents /\ events' = events + 1
  /\ c \in intent \ OnTrunk /\ intent' = intent \ {c}
  /\ UNCHANGED <<apc, cur, got, settled, amerged, tip, trunk, status, moved, strange, applies>>

Applies ==
  /\ \/ \E c \in Change : RevokeStale(c) \/ SettleFront(c) \/ TakeTip(c) \/ WaitRest(c)
     \/ Start \/ Poll \/ Check \/ StillQueued \/ BaseStill \/ PostGreen
     \/ MergeChange \/ Refused \/ Merged
     \/ PostFailure \/ KickBack \/ Finish \/ Done \/ Restart
  /\ UNCHANGED vvars

Others ==
  /\ \/ \E c \in Change : AutoMerge(c) \/ PushHead(c) \/ Withdraw(c)
     \/ Push \/ Dies
  /\ UNCHANGED vvars

ANext == (Validates /\ UNCHANGED avars) \/ Applies \/ Others

ASpec == AInit /\ [][ANext]_<<vvars, avars>>
\* Neither step stops on its own, and a run that died is followed by another.
FairASpec == ASpec /\ WF_vvars(Advances /\ UNCHANGED avars) /\ WF_avars(Applies)

-----------------------------------------------------------------------------
\* Every variable has its type, and what the applier counts as merged is settled and did
\* merge.
ATypeOK ==
  /\ apc \in {"revoking", "ready", "tip", "checked", "still", "same", "green", "refused",
              "over", "kicking", "kicked", "finishing", "done", "failed"}
  /\ cur \in Change \cup {NoChange}
  /\ got \subseteq Change /\ settled \subseteq Change /\ amerged \subseteq settled \cap OnTrunk
  /\ tip \in Nat /\ trunk \in Seq(Change \cup {Foreign})
  /\ status \in [Change -> {"none", "pending", "success", "failure"}]
  /\ moved \subseteq Change /\ intent \subseteq Change
  /\ strange \in BOOLEAN /\ events \in 0..MaxEvents /\ applies \in 1..MaxApplies

\* What lies on the trunk up to position i.
UpTo(i) == {trunk[j] : j \in 1..i} \ {Foreign}

\* "main plus every change ahead of it in its partition" (docs/concepts/merge-queue.md:23),
\* in pipelines: a change merges on top of just those of its partition its gate saw beneath
\* it.  A job builds what it can beneath its change (validate.go:356), and the claim fails.
MergedAsGated ==
  \A i \in DOMAIN trunk : trunk[i] \in Change =>
    UpTo(i - 1) \cap Ahead(trunk[i]) = onto[trunk[i]]

\* After every merge, the units of the change that merged are green on the base.
MainStaysGreen ==
  \A i \in DOMAIN trunk : trunk[i] \in Change => ~IsRed(UpTo(i), Units[trunk[i]])

\* A success stands only on the change about to be seen merged, unless the run stopped:
\* "success only on the commit apply is about to see merged" (merge-queue.md:939).
OneGreen ==
  \A c \in Change : IsGreen(c) =>
    \/ cur = c /\ apc \in {"green", "refused"}
    \/ apc \in {"failed", "revoking"}

\* Nothing goes green after a merge that landed on a base the run had not read: "the check
\* after the merge detects" it, "stopping applying" (apply.go:35).
StopsOnSurprise == [][apc' = "green" /\ apc # "green" => ~strange]_<<vvars, avars>>

\* A success is merged, set back, or left behind by a push: whatever dies in between.
GreenSettles == \A c \in Change : IsGreen(c) ~> ~IsGreen(c)
=============================================================================
