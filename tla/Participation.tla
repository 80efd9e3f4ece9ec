---------------------------- MODULE Participation ----------------------------
(* What one user takes part in: contests (live or virtual), offline exams, and *)
(* the submissions that a batch makes for the user (utils/exam_offline.py,     *)
(* utils/batch_submit.py, tasks/exam_offline.py, views/contests.py,            *)
(* views/problem.py).  Everything that admits or moves the user is one         *)
(* transaction under the lock of the Profile row; pages and middleware act on  *)
(* what they read before.                                                      *)
EXTENDS Integers, Sequences

CONSTANTS
  LastTime,         \* bound: the clock
  ContestEnd,       \* end_time of the only contest, which starts at 0
  MaxJoins,         \* bound: participations; 1 is the live one
  MaxAttempts,      \* bound: offline attempts
  MaxUserSubs       \* bound: submissions

ASSUME ParticipationAssumption ==
  /\ LastTime \in Nat /\ ContestEnd \in 0..LastTime /\ MaxJoins \in Nat \ {0}
  /\ MaxAttempts \in Nat /\ MaxUserSubs \in Nat

VARIABLES
  now,        \* the clock
  contestOf,  \* Profile.current_contest: a participation, or 0
  joins,      \* the end of each participation; -1: it does not exist
  attempts,   \* the ExamOfflineAttempt rows
  active,     \* the attempt with active_user set, or 0
  userSubs,   \* the user's submissions
  pages       \* what open pages and running requests have read

partVars == <<now, contestOf, joins, attempts, active, userSubs, pages>>

NoAttempt == [deadline |-> -1, ended |-> -1, revealed |-> FALSE]
Joins == 1..MaxJoins
Attempts == 1..MaxAttempts
Live == 1

PartInit ==
  /\ now = 0 /\ contestOf = 0 /\ active = 0 /\ userSubs = <<>> /\ pages = {}
  /\ joins = [j \in Joins |-> -1] /\ attempts = [a \in Attempts |-> NoAttempt]

-----------------------------------------------------------------------------
\* update_contest, the first thing under the lock: a participation that is over
\* is left.
Settled == IF contestOf # 0 /\ joins[contestOf] < now THEN 0 ELSE contestOf
AttemptsUsed == {a \in Attempts : attempts[a] # NoAttempt}

\* _finish
MinOf(a, b) == IF a < b THEN a ELSE b
Finished(a) == [attempts EXCEPT ![a].ended = MinOf(now, attempts[a].deadline)]

\* expire_locked, called by whatever begins something: a running attempt blocks,
\* one past its deadline is closed.
Running == active # 0 /\ now < attempts[active].deadline
Expired == IF active # 0 THEN Finished(active) ELSE attempts

\* A submission; its date is read again when the row is inserted.
NewSub(kind, of, date) ==
  userSubs' = Append(userSubs, [kind |-> kind, of |-> of, date |-> date, hidden |-> kind = "offline"])
Dates == {now, now + 1} \cap 0..LastTime
MoreSubs == Len(userSubs) < MaxUserSubs

-----------------------------------------------------------------------------
\* start_attempt
StartAttempt ==
  LET a == CHOOSE n \in Attempts \ AttemptsUsed : \A m \in Attempts \ AttemptsUsed : n <= m
  IN /\ AttemptsUsed # Attempts /\ Settled = 0 /\ ~Running
     /\ \E minutes \in {n \in 1..2 : now + n <= LastTime} :   \* within the bound
          attempts' = [Expired EXCEPT ![a] = [deadline |-> now + minutes, ended |-> -1, revealed |-> FALSE]]
     /\ active' = a /\ contestOf' = 0
     /\ UNCHANGED <<now, joins, userSubs, pages>>

\* finish_attempt: early, or by the page, the middleware and the periodic task.
FinishAttempt(early) ==
  /\ active # 0 /\ (early \/ now >= attempts[active].deadline)
  /\ attempts' = Finished(active) /\ active' = 0
  /\ UNCHANGED <<now, contestOf, joins, userSubs, pages>>
ExpireAttempt == FinishAttempt(FALSE)

\* reveal_attempt, under the lock of the attempt only.
Revealable(a) == attempts[a].ended # -1 /\ ~attempts[a].revealed
RevealAttempt(a) ==
  /\ Revealable(a)
  /\ attempts' = [attempts EXCEPT ![a].revealed = TRUE]
  /\ userSubs' = [n \in DOMAIN userSubs |->
       IF userSubs[n].kind = "offline" /\ userSubs[n].of = a THEN [userSubs[n] EXCEPT !.hidden = FALSE]
       ELSE userSubs[n]]
  /\ UNCHANGED <<now, contestOf, joins, active, pages>>

\* ContestJoin: live while the contest lasts, virtual afterwards.
JoinContest ==
  LET free == {j \in Joins \ {Live} : joins[j] = -1}
      id == CHOOSE j \in free : \A k \in free : j <= k
  IN /\ ~Running /\ Settled = 0
     /\ \/ /\ now <= ContestEnd
           /\ joins' = [joins EXCEPT ![Live] = ContestEnd] /\ contestOf' = Live
        \/ /\ now > ContestEnd /\ free # {}
           /\ joins' = [joins EXCEPT ![id] = now + ContestEnd] /\ contestOf' = id
     /\ attempts' = Expired /\ active' = 0
     /\ UNCHANGED <<now, userSubs, pages>>
LeaveContest ==
  /\ ~Running /\ contestOf # 0
  /\ contestOf' = 0 /\ attempts' = Expired /\ active' = 0
  /\ UNCHANGED <<now, joins, userSubs, pages>>

\* A request reads the profile; its form carries the attempt of the page that it
\* was opened on, or the middleware adds the active one.  One request at a time:
\* no property is about two.
OpenPage ==
  /\ \E a \in {active} \cup {p.attempt : p \in pages} :
       pages' = {[contest |-> contestOf, attempt |-> IF a = 0 THEN active ELSE a]}
  /\ UNCHANGED <<now, contestOf, joins, attempts, active, userSubs>>

\* Profile.remove_contest of a request whose participation is over.
\* BugClearAny: it is not compared with the participation that was read.
BugClearAny(p) == TRUE
SameContest(p) == contestOf = p.contest
RemoveStaleContest(p) ==
  /\ p.contest # 0 /\ joins[p.contest] < now
  /\ contestOf' = IF SameContest(p) THEN 0 ELSE contestOf
  /\ UNCHANGED <<now, joins, attempts, active, userSubs, pages>>

\* locked_submission and admit_submission: the page must still be right.
PageIsCurrent(p) == Settled = p.contest /\ (p.attempt # 0 => active = p.attempt /\ Running)
\* BugDateAdmitted: the deadline was only compared before the row was inserted.
BugDateAdmitted(date) == active # 0 => Running /\ Settled = 0
\* link_submission compares the date of the row with the deadline.
DateAdmitted(date) == active # 0 => Running /\ Settled = 0 /\ date < attempts[active].deadline
\* form_valid
Submit(p) ==
  \E date \in Dates :
    /\ MoreSubs /\ PageIsCurrent(p)
    /\ DateAdmitted(date)
    /\ IF active # 0 THEN NewSub("offline", active, date)
       ELSE IF Settled # 0 THEN NewSub("contest", Settled, date) ELSE NewSub("practice", 0, date)
    /\ now' = date /\ contestOf' = Settled
    /\ UNCHANGED <<joins, attempts, active, pages>>

Tick ==
  /\ now < LastTime /\ now' = now + 1
  /\ UNCHANGED <<contestOf, joins, attempts, active, userSubs, pages>>

\* admit_item, for a row of a batch: nothing happens unless every check passes,
\* the end of the contest at the date of the new submission included.
\* BugKeepAttempt: a running offline attempt is left as it is.
BugKeepAttempt == attempts' = attempts /\ active' = active
StopAttempt == attempts' = Expired /\ active' = 0
BatchAdmit ==
  /\ MoreSubs /\ now < ContestEnd
  /\ \E date \in Dates :
       /\ date < ContestEnd /\ now' = date
       /\ NewSub("contest", Live, date)
  /\ joins' = [joins EXCEPT ![Live] = ContestEnd] /\ contestOf' = Live
  /\ StopAttempt
  /\ UNCHANGED pages

-----------------------------------------------------------------------------
PartNext ==
  \/ StartAttempt \/ FinishAttempt(TRUE) \/ ExpireAttempt \/ JoinContest \/ LeaveContest \/ BatchAdmit
  \/ OpenPage \/ Tick
  \/ \E a \in Attempts : RevealAttempt(a)
  \/ \E p \in pages : RemoveStaleContest(p) \/ Submit(p)
PartSpec == PartInit /\ [][PartNext]_partVars

-----------------------------------------------------------------------------
PartTypeOK ==
  /\ now \in 0..LastTime /\ contestOf \in Joins \cup {0} /\ active \in Attempts \cup {0}
  /\ joins \in [Joins -> Int]
  /\ attempts \in [Attempts -> [deadline : Int, ended : Int, revealed : BOOLEAN]]
  /\ userSubs \in Seq([kind : {"practice", "contest", "offline"}, of : Nat, date : Nat, hidden : BOOLEAN])
  /\ pages \subseteq [contest : Joins \cup {0}, attempt : Attempts \cup {0}]

\* docs/exam-offline.md:7 (one activity at a time): a user with an active offline
\* attempt is in no contest, whichever page, task or batch moved the user.
OneActivity == active # 0 => contestOf = 0 /\ attempts[active].ended = -1

\* docs/exam-offline.md:13-16 (what was accepted before the deadline counts, and
\* nothing else): an attempt has no submission after its deadline or its end, and its
\* submissions are hidden exactly until it is revealed.
AttemptSubmissions ==
  \A n \in DOMAIN userSubs :
    LET a == attempts[userSubs[n].of]
    IN /\ userSubs[n].kind = "offline" =>
            userSubs[n].date < a.deadline /\ (a.ended # -1 => userSubs[n].date <= a.ended)
       /\ userSubs[n].hidden <=> (userSubs[n].kind = "offline" /\ ~a.revealed)

\* A page of an attempt never turns into a submission outside of this attempt.
PageKeepsItsAttempt ==
  [][\A p \in pages : p.attempt # 0 /\ Submit(p) =>
       LET s == userSubs'[Len(userSubs')] IN s.kind = "offline" /\ s.of = p.attempt]_partVars

\* models/profile.py:441 (a stale request must not clear a newer admission): a request
\* whose participation is over never ends one that is not.
NewerAdmissionKept ==
  [][\A p \in pages : RemoveStaleContest(p) /\ contestOf # 0 /\ joins[contestOf] >= now =>
       contestOf' = contestOf]_partVars

\* Whatever a page or a running request read before, it neither submits outside of the
\* attempt it was opened in nor ends what began after it.
StaleRequestsAreHarmless == PageKeepsItsAttempt /\ NewerAdmissionKept
=============================================================================
