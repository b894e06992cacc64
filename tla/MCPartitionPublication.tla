----------------------- MODULE MCPartitionPublication -----------------------
(* Two goroutines, two Pools, four calls: a call overtakes another one between any *)
(* two of its steps, once or twice.  And what the cycles report.                   *)
EXTENDS PartitionPublication, SequencesExt

Status == INSTANCE CycleStatus

(* What a cycle can meet: an error comes with its kinds, and from the publication or the *)
(* commit *)
Cycles ==
    {c \in [open : BOOLEAN, free : BOOLEAN, generation : {7}, targets : BOOLEAN,
            feasible : BOOLEAN, infeasible : {"", "budget"}, applied : BOOLEAN,
            refused : {"", "closed"}, at : {"none", "publish", "commit"},
            error : SUBSET {"closed", "invalid_policy", "other"}] :
        c.at = "none" <=> c.error = {}}

(* A report is applied with its own generation or not at all, says that budgets were        *)
(* published only if it is, and gives a reason exactly when it is not; an error is never    *)
(* reported as anything but a failure.  Groups and partitions say the same of the same     *)
(* cycle, but for one without targets, and one whose commit fails                       *)
(* (partition_controller.go:57-97, group_coordinator.go:48-82).                          *)
ASSUME ReportsSayWhatHappened ==
    \A c \in Cycles :
        LET partition == Status!PartitionReport(c)
            group == Status!GroupReport(c)
            runs == c.open /\ c.free
            tried == c.targets /\ c.feasible
        IN  /\ \A r \in {partition, group} :
                  /\ r.kind = "applied" <=> r.applied = 7
                  /\ r.kind # "applied" <=> r.applied = Status!NoGeneration
                  /\ r.published => r.kind = "applied"
                  /\ r.reason = "" <=> r.kind = "applied"
                  /\ r.generation = 7 <=> runs
                  /\ r.kind = "failed" => runs /\ c.error # {} /\ (r.reason = "closed" <=> "closed" \in c.error)
                  /\ r.kind \in {"closed", "already_running"} <=> ~runs
            /\ runs /\ tried /\ c.at = "publish" => "failed" = partition.kind /\ "failed" = group.kind
            /\ runs /\ c.targets /\ group.kind = "applied" => c.applied /\ c.feasible
            /\ \/ partition.kind = group.kind
               \/ runs /\ ~c.targets /\ group.kind = "skipped"
               \/ runs /\ c.at = "commit" /\ partition.kind = "failed"

(* At most one of the three counts is above zero, and it is the number of last cycles that  *)
(* ended so, without a tick that met a closed owner or a running cycle; the last successful *)
(* generation outlives every later failure (controller_cycle_status.go:206-254).           *)
Some(kind, attempt) ==
    Status!Report(kind, attempt, IF kind = "applied" THEN attempt ELSE 0, FALSE,
                  IF kind = "applied" THEN "" ELSE kind, TRUE)
Reported == {Some(k, 1) : k \in Status!Kinds} \cup {Some("applied", 2)}
ASSUME CountsAreOfTheLastCycles ==
    \A reports \in SeqOf(Reported, 4) :
        LET last == Status!History(reports)[Len(reports)]
            ran == SelectSeq(reports, LAMBDA r : r.kind \notin {"closed", "already_running"})
            applied == SelectSeq(reports, LAMBDA r : r.kind = "applied")
        IN  /\ \A k \in Status!Counted :
                  LET n == last.consecutive[k] IN
                  /\ n <= Len(ran)
                  /\ \A i \in Len(ran) - n + 1 .. Len(ran) : ran[i].kind = k
                  /\ n < Len(ran) => ran[Len(ran) - n].kind # k
            /\ Cardinality({k \in Status!Counted : last.consecutive[k] > 0}) <= 1
            /\ last.successful = IF applied = <<>> THEN 0 ELSE applied[Len(applied)].generation
            /\ last.reason = "" <=> last.status \in {"applied", "unset"}
=============================================================================
