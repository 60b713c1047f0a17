-------------------------- MODULE MCAirtableSync --------------------------
(* One Airtable table on small instances: runs one after the other, or      *)
(* overlapping, beside an owner who keeps records; or overlapping without.  *)
EXTENDS AirtableSync, TLC

CONSTANTS i1, i2, e1, e2

VARIABLE setting

TwoEvents == [i \in Ids |-> IF i = i1 THEN e1 ELSE e2]
Overlapping == INSTANCE AirtableSync WITH Serial <- FALSE, MayClaim <- FALSE
Claiming == INSTANCE AirtableSync WITH Serial <- FALSE
(* Bound: beside an owner who keeps records while runs overlap, rows come   *)
(* and go and do not change.                                                *)
NoChange == UNCHANGED version

Settle ==
  \/ setting = "serial" /\ Init
  \/ setting = "overlapping" /\ Overlapping!Init
  \/ setting = "claiming" /\ Claiming!Init
Work ==
  /\ \/ setting = "serial" /\ Next
     \/ setting = "overlapping" /\ Overlapping!Next
     \/ setting = "claiming" /\ Claiming!Next /\ NoChange
  /\ UNCHANGED setting

(* The fairness of AirtableSync's FairSpec.                                 *)
Overlaps(step) == setting = "overlapping" /\ step /\ UNCHANGED setting
Settings ==
  /\ Settle /\ [][Work]_<<setting, vars>>
  /\ \A r \in CronRuns : WF_<<setting, vars>>(Overlaps(Overlapping!Cron(r)))
  /\ \A r \in Runs : WF_<<setting, vars>>(Overlaps(Overlapping!Step(r)))

(* LiveRowsStay and RowsAdvance while runs do not overlap: the record of a  *)
(* row that is there stays, and never goes back to what its row was before  *)
(* (upsertTable, reconcileDeletedRecords).                                  *)
RecordsOnlyFollow ==
  [][\A x \in Records :
       setting = "serial" /\ st[x] = "managed" =>
         (x[1] \in alive => st'[x] # "removed") /\ cell'[x] >= cell[x]]_<<setting, st, cell>>

(* MirrorConverges of AirtableSync: overlapping runs and failures           *)
(* notwithstanding, the table ends up equal to the source (runAirtableSync).*)
OverlapsConverge == setting = "overlapping" => MirrorConverges
============================================================================
