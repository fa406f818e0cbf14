---------------------------- MODULE ScorePipeline ----------------------------
(***************************************************************************)
(* From submissions to ranks: what is derived from the submissions of one  *)
(* course assignment, and when it is derived again.                        *)
(*   stored   the StudentScore row       (ranking.service.ts 26-149)       *)
(*   summary  the StudentScoreSummary    (ranking.service.ts 158-317)      *)
(*   cache    the shared ranking         (student-ranking.service.ts)      *)
(* Each is read from one source, computed, and written back by another     *)
(* database call, while other handlers change the source.                  *)
(*                                                                         *)
(* A student's score stands for the percentage made of it, and a summary   *)
(* row for the scores of the class its percentages and ranks were computed *)
(* from.  The fields late and silent are history: a result is late when    *)
(* its source changed after it was read, or was changed by a handler that  *)
(* does not derive it anew or failed before it could.                      *)
(***************************************************************************)
EXTENDS Naturals, Sequences, FiniteSets, FiniteSetsExt

CONSTANTS
    Enrolled,       \* students with an active enrolment in the school
    Handlers,       \* handler slots: how many handlers may run at once
    Scores,         \* the scores a submission may get
    Null,           \* no score, or no row
    MaxRows,        \* bound: submissions explored per student
    MaxWrites,      \* bound: submissions, gradings and settings explored
    ScoreEvents     \* bound: which events of the environment are explored

ASSUME ScoresOK ==
    /\ Scores \subseteq Nat
    /\ Null \notin Nat
    /\ MaxRows \in Nat
    /\ MaxWrites \in Nat
    /\ ScoreEvents \subseteq {"fail", "settings", "delete"}

VARIABLES
    present,        \* the Assignment row is there
    rule,           \* its retakeScoringRule
    subs,           \* each student's submissions, by attemptNumber
    stored,         \* each student's StudentScore
    summary,        \* each student's StudentScoreSummary
    cache,          \* StudentRankingService.cache
    doing,          \* what each handler slot is doing
    writes          \* bound: how many writing handlers have started

scoreVars == <<present, rule, subs, stored, summary, cache, doing, writes>>
source == <<present, rule, subs>>

Rules == {"latest", "highest"}
Submission == [score : Scores \cup {Null}, graded : BOOLEAN]
Class == [Enrolled -> Scores \cup {0}]

Empty == [at |-> "empty"]
Free == [at |-> "idle"]

Points(score) == IF score = Null THEN 0 ELSE score

\* The attempt that counts.
ScoreOf(rows, by) ==
    IF by = "highest" THEN Max({Points(rows[i].score) : i \in DOMAIN rows})
    ELSE Points(rows[Len(rows)].score)

\* getGlobalRanking(): only graded attempts count, and a student without one
\* stays in the ranking, with nothing.
GradedRows(rows) == {i \in DOMAIN rows : rows[i].graded}

RankOf(rows, by) ==
    IF GradedRows(rows) = {} THEN 0
    ELSE IF by = "highest" THEN Max({Points(rows[i].score) : i \in GradedRows(rows)})
    ELSE Points(rows[Max(GradedRows(rows))].score)

\* A deleted assignment has no rule: 'latest'.
Ranking == [s \in Enrolled |-> RankOf(subs[s], IF present THEN rule ELSE "latest")]

ClassScores == [s \in Enrolled |-> Points(stored[s].value)]

\* A handler's recomputation for one student: none, still to do, the rule read,
\* or the submissions read as well.
Job == [at : {"none", "todo"}]
         \cup [at : {"rule"}, rule : Rules, late : BOOLEAN]
         \cup [at : {"value"}, value : Scores \cup {0}, late : BOOLEAN]

NoJob == [at |-> "none"]
ToDo == [at |-> "todo"]

\* What follows the recomputation, in the order of the handler.
SubmitPlan(graded) == IF graded THEN <<"invalidate", "summary">> ELSE <<>>

\* Faulty variant of GradePlan: the summary is left out.
GradePlanNoSummary == <<"invalidate">>
\* Faulty variant of GradePlan: the cache is left alone.
GradePlanNoInvalidate == <<"summary">>
GradePlan == <<"summary", "invalidate">>
RulePlan == <<>>

Plans == {<<>>, <<"summary">>, <<"invalidate">>, <<"summary", "invalidate">>,
          <<"invalidate", "summary">>}

Handler ==
    {Free}
      \cup [at : {"grade"}, student : Enrolled, row : 1..MaxRows,
            score : Scores \cup {Null}, graded : BOOLEAN]
      \cup [at : {"batch"}, done : SUBSET Enrolled]
      \cup [at : {"settings"}, rule : Rules]
      \cup [at : {"find"}]
      \cup [at : {"derive"}, jobs : [Enrolled -> Job], plan : Plans, silent : BOOLEAN]
      \cup [at : {"summary"}, class : Class, left : SUBSET Enrolled, late : BOOLEAN,
            plan : Plans]
      \cup [at : {"rankRule"}, rows : [Enrolled -> Seq(Submission)], late : BOOLEAN]
      \cup [at : {"rankFill"}, value : Class, late : BOOLEAN]

Derive(who, plan, silent) ==
    [at |-> "derive", plan |-> plan, silent |-> silent,
     jobs |-> [s \in Enrolled |-> IF s \in who THEN ToDo ELSE NoJob]]

ScoreInit ==
    /\ present = TRUE
    /\ rule \in Rules
    /\ subs = [s \in Enrolled |-> <<>>]
    /\ stored = [s \in Enrolled |-> [value |-> Null, late |-> FALSE]]
    /\ summary = [s \in Enrolled |-> [value |-> Null, late |-> FALSE]]
    /\ cache = Empty
    /\ doing = [r \in Handlers |-> Free]
    /\ writes = 0

-----------------------------------------------------------------------------
\* History: which results a change of the source leaves behind.

Late(rows, who) == [s \in Enrolled |-> [rows[s] EXCEPT !.late = @ \/ s \in who]]

LateCache == IF cache = Empty THEN Empty ELSE [cache EXCEPT !.late = TRUE]

LateJobs(handler, who, steps) ==
    [handler EXCEPT !.jobs = [s \in Enrolled |->
        IF s \in who /\ handler.jobs[s].at \in steps
        THEN [handler.jobs[s] EXCEPT !.late = TRUE] ELSE handler.jobs[s]]]

\* The other requests once submissions of the students in who have changed.
OvertakenBySubs(handler, who) ==
    IF handler.at = "derive" THEN LateJobs(handler, who, {"value"})
    ELSE IF handler.at \in {"rankRule", "rankFill"}
         THEN [handler EXCEPT !.late = TRUE] ELSE handler

\* ... and once the rule has.
OvertakenByRule(handler) ==
    IF handler.at = "derive" THEN LateJobs(handler, Enrolled, {"rule", "value"})
    ELSE IF handler.at = "rankFill" THEN [handler EXCEPT !.late = TRUE] ELSE handler

SubsChange(r, who, mine) ==
    doing' = [q \in Handlers |-> IF q = r THEN mine ELSE OvertakenBySubs(doing[q], who)]

-----------------------------------------------------------------------------
\* The writers of the source.

Starts(r) ==
    /\ doing[r] = Free
    /\ present
    /\ writes < MaxWrites
    /\ writes' = writes + 1

\* submitAssignment(): the row is stored, graded when the answers are known.
Submit(r, s, score) ==
    LET graded == score # Null IN
    /\ Starts(r)
    /\ Len(subs[s]) < MaxRows
    /\ subs' = [subs EXCEPT ![s] = Append(@, [score |-> score, graded |-> graded])]
    /\ SubsChange(r, {s}, Derive({s}, SubmitPlan(graded), ~graded))
    /\ UNCHANGED <<present, rule, stored, summary, cache>>

\* gradeSubmission(): a body without a score keeps the one that was read.
GradeRead(r, s, i, score, graded) ==
    /\ Starts(r)
    /\ i \in DOMAIN subs[s]
    /\ doing' = [doing EXCEPT ![r] =
         [at |-> "grade", student |-> s, row |-> i, graded |-> graded,
          score |-> IF score = Null THEN subs[s][i].score ELSE score]]
    /\ UNCHANGED <<source, stored, summary, cache>>

GradeWrite(r) ==
    LET s == doing[r].student
        row == [score |-> doing[r].score, graded |-> doing[r].graded] IN
    /\ doing[r].at = "grade"
    /\ IF present
       THEN /\ subs' = [subs EXCEPT ![s][doing[r].row] = row]
            /\ SubsChange(r, {s}, Derive({s}, GradePlan, FALSE))
       ELSE /\ doing' = [doing EXCEPT ![r] = Free]
            /\ subs' = subs
    /\ UNCHANGED <<present, rule, stored, summary, cache, writes>>

\* batchGrade() grades one submission after the other and derives at the end.
BatchStart(r) ==
    /\ Starts(r)
    /\ doing' = [doing EXCEPT ![r] = [at |-> "batch", done |-> {}]]
    /\ UNCHANGED <<source, stored, summary, cache>>

BatchWrite(r, s, i, score) ==
    /\ doing[r].at = "batch"
    /\ s \notin doing[r].done
    /\ i \in DOMAIN subs[s]
    /\ subs' = [subs EXCEPT ![s][i] = [score |-> score, graded |-> TRUE]]
    /\ SubsChange(r, {s}, [doing[r] EXCEPT !.done = @ \cup {s}])
    /\ UNCHANGED <<present, rule, stored, summary, cache, writes>>

BatchEnd(r) ==
    /\ doing[r].at = "batch"
    /\ doing' = [doing EXCEPT ![r] = IF doing[r].done = {} THEN Free
                                 ELSE Derive(doing[r].done, GradePlan, FALSE)]
    /\ UNCHANGED <<source, stored, summary, cache, writes>>

\* updateRetakeSettings(): the rule is written, then the students who have
\* submitted are looked up.
RuleRead(r, by) ==
    /\ "settings" \in ScoreEvents
    /\ Starts(r)
    /\ doing' = [doing EXCEPT ![r] = [at |-> "settings", rule |-> by]]
    /\ UNCHANGED <<source, stored, summary, cache>>

RuleWrite(r) ==
    /\ doing[r].at = "settings"
    /\ IF present
       THEN /\ rule' = doing[r].rule
            /\ cache' = LateCache
            /\ doing' = [q \in Handlers |-> IF q = r THEN [at |-> "find"]
                                          ELSE OvertakenByRule(doing[q])]
       ELSE /\ doing' = [doing EXCEPT ![r] = Free]
            /\ UNCHANGED <<rule, cache>>
    /\ UNCHANGED <<present, subs, stored, summary, writes>>

RuleFind(r) ==
    /\ doing[r].at = "find"
    /\ doing' = [doing EXCEPT
         ![r] = Derive({s \in Enrolled : subs[s] # <<>>}, RulePlan, TRUE)]
    /\ UNCHANGED <<source, stored, summary, cache, writes>>

\* deleteAssignment(): one transaction, and nothing is derived from it.
DeleteAssignment ==
    /\ "delete" \in ScoreEvents
    /\ present
    /\ present' = FALSE
    /\ subs' = [s \in Enrolled |-> <<>>]
    /\ stored' = Late(stored, Enrolled)
    /\ cache' = LateCache
    /\ doing' = [q \in Handlers |->
                 OvertakenBySubs(OvertakenByRule(doing[q]), Enrolled)]
    /\ UNCHANGED <<rule, summary, writes>>

-----------------------------------------------------------------------------
\* recomputeStudentScores() of one student; a handler's run side by side.

Working(r, s, at) == doing[r].at = "derive" /\ doing[r].jobs[s].at = at

JobRule(r, s) ==
    /\ Working(r, s, "todo")
    /\ doing' = [doing EXCEPT ![r].jobs[s] =
         IF present THEN [at |-> "rule", rule |-> rule, late |-> FALSE] ELSE NoJob]
    /\ UNCHANGED <<source, stored, summary, cache, writes>>

\* Faulty variant of JobRows: only graded attempts count.
JobRowsGraded(r, s) ==
    /\ Working(r, s, "rule")
    /\ LET job == doing[r].jobs[s] IN
       doing' = [doing EXCEPT ![r].jobs[s] =
         IF subs[s] = <<>> THEN NoJob
         ELSE [at |-> "value", value |-> RankOf(subs[s], job.rule), late |-> job.late]]
    /\ UNCHANGED <<source, stored, summary, cache, writes>>

\* Faulty variant of JobRows: the score of an ungraded attempt stays null.
JobRowsRaw(r, s) ==
    /\ Working(r, s, "rule")
    /\ LET job == doing[r].jobs[s] IN
       doing' = [doing EXCEPT ![r].jobs[s] =
         IF subs[s] = <<>> THEN NoJob
         ELSE [at |-> "value", value |-> subs[s][Len(subs[s])].score,
               late |-> job.late]]
    /\ UNCHANGED <<source, stored, summary, cache, writes>>

JobRows(r, s) ==
    /\ Working(r, s, "rule")
    /\ LET job == doing[r].jobs[s] IN
       doing' = [doing EXCEPT ![r].jobs[s] =
         IF subs[s] = <<>> THEN NoJob
         ELSE [at |-> "value", value |-> ScoreOf(subs[s], job.rule), late |-> job.late]]
    /\ UNCHANGED <<source, stored, summary, cache, writes>>

\* studentScore.upsert(): the summaries being computed are of older rows, and a
\* silent handler recomputes none.
JobWrite(r, s) ==
    LET job == doing[r].jobs[s]
        changes == stored[s].value # job.value
        overtaken(q) == changes /\ doing[q].at = "summary"
    IN
    /\ Working(r, s, "value")
    /\ stored' = [stored EXCEPT ![s] = [value |-> job.value, late |-> job.late]]
    /\ summary' = IF changes /\ doing[r].silent THEN Late(summary, Enrolled) ELSE summary
    /\ doing' = [q \in Handlers |->
                 IF q = r THEN [doing[r] EXCEPT !.jobs[s] = NoJob]
                 ELSE IF overtaken(q) THEN [doing[q] EXCEPT !.late = TRUE] ELSE doing[q]]
    /\ UNCHANGED <<source, cache, writes>>

-----------------------------------------------------------------------------
\* What follows in the handler once every recomputation has ended.

Derived(r) == doing[r].at = "derive" /\ \A s \in Enrolled : doing[r].jobs[s] = NoJob

Follow(plan) == IF plan = <<>> THEN Free ELSE Derive({}, plan, FALSE)

DeriveEnd(r) ==
    /\ Derived(r)
    /\ doing[r].plan = <<>>
    /\ doing' = [doing EXCEPT ![r] = Free]
    /\ UNCHANGED <<source, stored, summary, cache, writes>>

\* recomputeStudentScoreSummary(): the class is read, then one upsert each.
SummaryRead(r) ==
    /\ Derived(r)
    /\ doing[r].plan # <<>> /\ Head(doing[r].plan) = "summary"
    /\ doing' = [doing EXCEPT ![r] = [at |-> "summary", class |-> ClassScores,
                                  left |-> Enrolled, late |-> FALSE,
                                  plan |-> Tail(doing[r].plan)]]
    /\ UNCHANGED <<source, stored, summary, cache, writes>>

SummaryWrite(r, s) ==
    /\ doing[r].at = "summary"
    /\ s \in doing[r].left
    /\ summary' = [summary EXCEPT ![s] = [value |-> doing[r].class, late |-> doing[r].late]]
    /\ doing' = [doing EXCEPT ![r] = IF doing[r].left = {s} THEN Follow(doing[r].plan)
                                 ELSE [doing[r] EXCEPT !.left = @ \ {s}]]
    /\ UNCHANGED <<source, stored, cache, writes>>

Invalidate(r) ==
    /\ Derived(r)
    /\ doing[r].plan # <<>> /\ Head(doing[r].plan) = "invalidate"
    /\ cache' = Empty
    /\ doing' = [doing EXCEPT ![r] = Follow(Tail(doing[r].plan))]
    /\ UNCHANGED <<source, stored, summary, writes>>

-----------------------------------------------------------------------------
\* getGlobalRanking() of a dashboard that finds no ranking in the cache: the
\* graded submissions, the rules, and the assignment to this.cache that follows.

RankRows(r) ==
    /\ doing[r] = Free
    /\ cache = Empty
    /\ doing' = [doing EXCEPT ![r] = [at |-> "rankRule", rows |-> subs, late |-> FALSE]]
    /\ UNCHANGED <<source, stored, summary, cache, writes>>

RankRule(r) ==
    LET by == IF present THEN rule ELSE "latest" IN
    /\ doing[r].at = "rankRule"
    /\ doing' = [doing EXCEPT ![r] =
         [at |-> "rankFill", late |-> doing[r].late,
          value |-> [s \in Enrolled |-> RankOf(doing[r].rows[s], by)]]]
    /\ UNCHANGED <<source, stored, summary, cache, writes>>

RankFill(r) ==
    /\ doing[r].at = "rankFill"
    /\ cache' = [at |-> "full", value |-> doing[r].value, late |-> doing[r].late]
    /\ doing' = [doing EXCEPT ![r] = Free]
    /\ UNCHANGED <<source, stored, summary, writes>>

\* Faulty variant of Expire: the expiry is never looked at.
ExpireNever ==
    /\ cache # Empty
    /\ cache' = cache
    /\ UNCHANGED <<source, stored, summary, doing, writes>>

\* TTL_MS passed: the reads from now on do not see the ranking.
Expire ==
    /\ cache # Empty
    /\ cache' = Empty
    /\ UNCHANGED <<source, stored, summary, doing, writes>>

-----------------------------------------------------------------------------
\* A handler rejects: what it had still to derive stays as it was.

Owes(r, what) ==
    /\ doing[r].at \in {"derive", "summary"}
    /\ \E i \in DOMAIN doing[r].plan : doing[r].plan[i] = what

\* A batch rejects when the assignment goes between its read and its write of a
\* row.
Reject(r) ==
    LET at == doing[r].at
        left == CASE at = "batch" -> doing[r].done
                  [] at = "find" -> Enrolled
                  [] OTHER -> {}
    IN
    /\ "fail" \in ScoreEvents \/ (at = "batch" /\ ~present)
    /\ at \notin {"idle", "summary"}
    /\ at = "derive" => Derived(r)
    /\ stored' = Late(stored, left)
    /\ summary' = Late(summary, IF Owes(r, "summary") THEN Enrolled ELSE {})
    /\ cache' = IF at = "batch" \/ Owes(r, "invalidate") THEN LateCache ELSE cache
    /\ doing' = [doing EXCEPT ![r] = Free]
    /\ UNCHANGED <<source, writes>>

\* One of the calls of a Promise.all rejects: the others go on, and what was to
\* follow them is left out.
RejectJob(r, s) ==
    /\ "fail" \in ScoreEvents
    /\ doing[r].at = "derive"
    /\ doing[r].jobs[s] # NoJob
    /\ stored' = Late(stored, {s})
    /\ summary' = Late(summary, IF Owes(r, "summary") THEN Enrolled ELSE {})
    /\ cache' = IF Owes(r, "invalidate") THEN LateCache ELSE cache
    /\ doing' = [doing EXCEPT
         ![r] = [@ EXCEPT !.jobs[s] = NoJob, !.plan = <<>>, !.silent = TRUE]]
    /\ UNCHANGED <<source, writes>>

RejectUpsert(r, s) ==
    /\ "fail" \in ScoreEvents
    /\ doing[r].at = "summary"
    /\ s \in doing[r].left
    /\ summary' = Late(summary, IF Owes(r, "summary") THEN Enrolled ELSE {s})
    /\ cache' = IF Owes(r, "invalidate") THEN LateCache ELSE cache
    /\ doing' = [doing EXCEPT
         ![r] = IF @.left = {s} THEN Free ELSE [@ EXCEPT !.left = doing[r].left \ {s}, !.plan = <<>>]]
    /\ UNCHANGED <<source, stored, writes>>

WriterStep(r) ==
    \/ GradeWrite(r)
    \/ \E s \in Enrolled, i \in 1..MaxRows, score \in Scores :
         BatchWrite(r, s, i, score)
    \/ BatchEnd(r)
    \/ RuleWrite(r)
    \/ RuleFind(r)

DeriveStep(r) ==
    \/ \E s \in Enrolled : JobRule(r, s)
    \/ \E s \in Enrolled : JobRows(r, s)
    \/ \E s \in Enrolled : JobWrite(r, s)
    \/ DeriveEnd(r)
    \/ SummaryRead(r)
    \/ \E s \in Enrolled : SummaryWrite(r, s)
    \/ Invalidate(r)

RankStep(r) == RankRule(r) \/ RankFill(r)

ScoreNext ==
    \/ \E r \in Handlers :
         \/ \E s \in Enrolled, score \in Scores \cup {Null} : Submit(r, s, score)
         \/ \E s \in Enrolled, i \in 1..MaxRows, score \in Scores \cup {Null},
               graded \in BOOLEAN : GradeRead(r, s, i, score, graded)
         \/ BatchStart(r)
         \/ \E by \in Rules : RuleRead(r, by)
         \/ RankRows(r)
         \/ WriterStep(r)
         \/ DeriveStep(r)
         \/ RankStep(r)
         \/ Reject(r)
         \/ \E s \in Enrolled : RejectJob(r, s) \/ RejectUpsert(r, s)
    \/ DeleteAssignment
    \/ Expire

ScoreSpec == ScoreInit /\ [][ScoreNext]_scoreVars

\* The event loop runs what a handler has pending, and time passes.
Fairness ==
    /\ \A r \in Handlers : WF_scoreVars(WriterStep(r) \/ DeriveStep(r) \/ RankStep(r))
    /\ WF_scoreVars(Expire)

FairSpec == ScoreSpec /\ Fairness

-----------------------------------------------------------------------------
\* The rows, the cache and the requests in flight have their types.
ScoreTypeOK ==
    /\ present \in BOOLEAN
    /\ rule \in Rules
    /\ subs \in [Enrolled -> Seq(Submission)]
    /\ stored \in [Enrolled -> [value : Scores \cup {0, Null}, late : BOOLEAN]]
    /\ summary \in [Enrolled -> [value : Class \cup {Null}, late : BOOLEAN]]
    /\ cache \in {Empty} \cup [at : {"full"}, value : Class, late : BOOLEAN]
    /\ doing \in [Handlers -> Handler]
    /\ writes \in 0..MaxWrites

Recomputing(s) ==
    \E r \in Handlers :
        \/ doing[r].at = "batch" /\ s \in doing[r].done
        \/ doing[r].at = "find"
        \/ doing[r].at = "derive" /\ doing[r].jobs[s] # NoJob

\* Whatever handlers overlap, a stored score that differs from the score of the
\* submissions is about to be recomputed, or its last recomputation was overtaken
\* or failed (ranking.service.ts:44-58 read, 118-147 written).
StoredExplained ==
    \A s \in Enrolled :
        subs[s] # <<>> /\ stored[s].value # ScoreOf(subs[s], rule)
          => stored[s].late \/ Recomputing(s)

\* A rank summary computed from other scores than the stored ones is about to be
\* computed again, was overtaken, or the scores were changed by a handler that
\* recomputes no summary (ranking.service.ts:170-181 read, 289-316 written).
SummaryExplained ==
    \A s \in Enrolled :
        (\E t \in Enrolled : stored[t].value # Null) /\ summary[s].value # ClassScores
          => \/ summary[s].late
             \/ \E r \in Handlers : Owes(r, "summary")
             \/ \E r \in Handlers : doing[r].at = "summary" /\ s \in doing[r].left

\* A cached ranking that differs from the ranking of the graded submissions is
\* about to be dropped, was filled by a read that a change overtook, or the
\* change is one nobody drops the cache for
\* (student-ranking.service.ts:79-82 and 106-217).
CacheExplained ==
    cache # Empty /\ cache.value # Ranking
      => \/ cache.late
         \/ \E r \in Handlers : Owes(r, "invalidate") \/ doing[r].at = "batch"

\* Once the writers have stopped, every dashboard shows the ranking of the graded
\* submissions for good, after at most one expiry
\* (student-ranking.service.ts:70, 93-95).
EventuallyFresh == <>[](cache = Empty \/ cache.value = Ranking)
=============================================================================
