----------------------------- MODULE CycleStatus -----------------------------
(* What a controller cycle of a partition and a coordinator cycle of a group        *)
(* report, and the status that stays behind for ControllerStatus                   *)
(* (controller_cycle_status.go, partition_controller_report.go,                   *)
(* partition_controller_publication.go, group_coordinator_report.go,              *)
(* group_coordinator_publication.go).  PartitionActivity, PartitionPublication and  *)
(* PoolGroup have what the cycles do; here is what they say of it.                  *)
(*                                                                             *)
(* An error is the set of its kinds; no error is the empty set.                     *)
EXTENDS Naturals, Sequences

NoGeneration == 0
NoReason == ""

-----------------------------------------------------------------------------
(* The status that is kept: [status, attempt, applied, successful, reason,          *)
(* consecutive], the last one a count for each of three kinds                     *)

Counted == {"failed", "skipped", "unpublished"}
Kinds == Counted \cup {"applied", "closed", "already_running"}

InitialStatus ==
    [status |-> "unset", attempt |-> NoGeneration, applied |-> NoGeneration,
     successful |-> NoGeneration, reason |-> NoReason, consecutive |-> [k \in Counted |-> 0]]

(* A tick of a closed owner or during another cycle leaves the counts alone. *)
PublishStatus(old, kind, attempt, applied, reason) ==
    [status |-> kind, attempt |-> attempt, applied |-> applied,
     successful |-> IF kind = "applied" THEN applied ELSE old.successful,
     reason |-> IF kind = "applied" THEN NoReason ELSE reason,
     consecutive |-> IF kind \in {"closed", "already_running"} THEN old.consecutive
                     ELSE [k \in Counted |-> IF k = kind THEN old.consecutive[k] + 1 ELSE 0]]

(* A closed owner explains an error before an invalid argument does. *)
FailureReason(error, fallback) ==
    IF "closed" \in error THEN "closed"
    ELSE IF error \cap {"invalid_policy", "invalid_options"} # {} THEN "invalid"
    ELSE IF fallback = NoReason THEN "failed" ELSE fallback
UnpublishedReason(reason) == IF reason = NoReason THEN "unpublished" ELSE reason

-----------------------------------------------------------------------------
(* Reports: [kind, generation, applied, published, reason, details], the generation *)
(* that is reported, that a published report carries, and whether the evaluation is *)
(* in it                                                                        *)

Report(kind, generation, applied, published, reason, details) ==
    [kind |-> kind, generation |-> generation, applied |-> applied, published |-> published,
     reason |-> reason, details |-> details]
Closed == Report("closed", NoGeneration, NoGeneration, FALSE, "closed", FALSE)
AlreadyRunning ==
    Report("already_running", NoGeneration, NoGeneration, FALSE, "already_running", FALSE)
Failed(c, details) ==
    Report("failed", c.generation, NoGeneration, FALSE, FailureReason(c.error, "failed"), details)

(* What a cycle meets: whether the owner is open and the cycle gate is free, the        *)
(* generation it takes, whether it has targets and they are feasible, whether all were  *)
(* applied and why not, and an error of the publication or of the commit.  The report   *)
(* of a commit that failed says nothing of the budgets that are out already.          *)
Begin(free) == [began |-> free, free |-> FALSE]

(* A partition: what is infeasible is not tried, and a cycle without targets is applied. *)
PartitionReport(c) ==
    LET tried == c.targets /\ c.feasible
        published == tried /\ c.applied
        because == IF ~tried THEN c.infeasible ELSE IF ~c.applied THEN c.refused ELSE NoReason
    IN  IF ~c.open THEN Closed
        ELSE IF ~Begin(c.free).began THEN AlreadyRunning
        ELSE IF tried /\ c.at = "publish" THEN Failed(c, TRUE)
        ELSE IF c.targets /\ ~published
        THEN Report("unpublished", c.generation, NoGeneration, FALSE, UnpublishedReason(because), TRUE)
        ELSE IF c.at = "commit" THEN Failed(c, FALSE)
        ELSE Report("applied", c.generation, c.generation, published, NoReason, TRUE)

(* A group: a cycle without targets is skipped; its commit cannot fail. *)
Decision(c, published) ==
    LET because == IF c.feasible THEN "skipped_child" ELSE c.infeasible IN
    IF ~c.targets THEN Report("skipped", c.generation, NoGeneration, FALSE, "no_work", TRUE)
    ELSE IF published THEN Report("applied", c.generation, c.generation, TRUE, NoReason, TRUE)
    ELSE Report("unpublished", c.generation, NoGeneration, FALSE, UnpublishedReason(because), TRUE)
GroupReport(c) ==
    LET tried == c.targets /\ c.feasible IN
    IF ~c.open THEN Closed
    ELSE IF ~Begin(c.free).began THEN AlreadyRunning
    ELSE IF tried /\ c.at = "publish" THEN Failed(c, FALSE)
    ELSE Decision(c, tried /\ c.applied)

(* The classes of a Pool count as published when the publication says so; the first     *)
(* reason stays.                                                               *)
MarkPublished(class, pools) ==
    IF class.pool \notin DOMAIN pools THEN class
    ELSE [class EXCEPT !.published = pools[class.pool].published,
                       !.reason = IF @ = NoReason THEN pools[class.pool].reason ELSE @]

Finish(status, report) ==
    PublishStatus(status, report.kind, report.generation, report.applied, report.reason)

(* The statuses after a number of reports *)
History(reports) ==
    LET after[n \in 0 .. Len(reports)] ==
            IF n = 0 THEN InitialStatus ELSE Finish(after[n - 1], reports[n])
    IN  after
=============================================================================
