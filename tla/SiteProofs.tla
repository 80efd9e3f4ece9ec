------------------------------ MODULE SiteProofs ------------------------------
(* Theorems about the website's own transactions: what admits submissions of a *)
(* user and of a batch (Participation, BatchSubmit), the library of sources,   *)
(* the test data and the projection of the storage catalog (SourceFiles,       *)
(* TestData, StorageSync), and the scoreboard of a contest (ContestScoring),   *)
(* for every number of contests, attempts, files, deliveries, datasets,        *)
(* workers, changes and entries.                                               *)
EXTENDS Participation, BatchSubmit, SourceFiles, TestData, StorageSync, ContestScoring, SetLemmas

-----------------------------------------------------------------------------
(* Participation.                                                              *)
AttemptRecord == [deadline : Int, ended : Int, revealed : BOOLEAN]
SubRecord == [kind : {"practice", "contest", "offline"}, of : Nat, date : Nat, hidden : BOOLEAN]

PartTypes ==
  /\ now \in Nat /\ contestOf \in Joins \cup {0} /\ active \in Attempts \cup {0}
  /\ joins \in [Joins -> Int] /\ attempts \in [Attempts -> AttemptRecord] /\ userSubs \in Seq(SubRecord)
  /\ pages \subseteq [contest : Joins \cup {0}, attempt : Attempts \cup {0}]

\* An attempt that began has a deadline, and only a finished one is revealed.
AttemptFits(a) == a # NoAttempt => a.deadline >= 0 /\ (a.revealed => a.ended # -1)
\* A submission was made by time t; one of an attempt, during the attempt.
SubFits(s, as, t) ==
  /\ s.date <= t
  /\ s.kind = "offline" => /\ s.of \in Attempts /\ as[s.of] # NoAttempt /\ s.date < as[s.of].deadline
                           /\ as[s.of].ended # -1 => s.date <= as[s.of].ended
  /\ s.hidden <=> (s.kind = "offline" /\ ~as[s.of].revealed)
Fits(as, t) ==
  /\ as \in [Attempts -> AttemptRecord] /\ \A a \in Attempts : AttemptFits(as[a])
  /\ \A n \in 1..Len(userSubs) : SubFits(userSubs[n], as, t)
ActiveBegan == active # 0 => attempts[active] # NoAttempt
PartInv == PartTypes /\ Fits(attempts, now) /\ ActiveBegan /\ OneActivity

LEMMA AttemptNumbers == Attempts \subseteq Nat \ {0} /\ 0 \notin Attempts /\ Joins \subseteq Nat \ {0} /\ Live \in Joins
  BY ParticipationAssumption DEF Attempts, Joins, Live

LEMMA PartInit_PartInv == PartInit => PartInv
<1> SUFFICES ASSUME PartInit PROVE PartInv
  OBVIOUS
<1>1. NoAttempt \in AttemptRecord
  BY DEF NoAttempt, AttemptRecord
<1>2. userSubs = <<>> /\ Len(userSubs) = 0 /\ userSubs \in Seq(SubRecord)
  BY DEF PartInit
<1>3. PartTypes
  BY <1>1, <1>2 DEF PartInit, PartTypes
<1> QED
  BY <1>1, <1>2, <1>3 DEF PartInit, PartInv, Fits, AttemptFits, ActiveBegan, OneActivity, PartTypes

\* What closing an attempt, if one is active, does to the attempts.
Closes(as) ==
  /\ as \in [Attempts -> AttemptRecord]
  /\ \A a \in Attempts : as[a] = attempts[a]
                         \/ /\ attempts[a] # NoAttempt /\ attempts[a].ended = -1
                            /\ as[a] = [deadline |-> attempts[a].deadline, ended |-> MinOf(now, attempts[a].deadline),
                                        revealed |-> attempts[a].revealed]

LEMMA FinishedCloses == ASSUME PartInv, active # 0 PROVE Closes(Finished(active))
<1> DEFINE end == MinOf(now, attempts[active].deadline)
<1>1. active \in Attempts /\ attempts \in [Attempts -> AttemptRecord] /\ attempts[active] \in AttemptRecord /\ now \in Nat
  BY DEF PartInv, PartTypes
<1>2. end \in Int
  BY <1>1 DEF MinOf, AttemptRecord
<1> DEFINE new == [deadline |-> attempts[active].deadline, ended |-> end, revealed |-> attempts[active].revealed]
<1> HIDE DEF end
<1>3. new \in AttemptRecord /\ [attempts[active] EXCEPT !.ended = end] = new
  BY <1>1, <1>2 DEF AttemptRecord
<1> HIDE DEF new
<1>4. Finished(active) = [attempts EXCEPT ![active] = new]
  BY <1>1, <1>3 DEF Finished, end
<1>5. attempts[active] # NoAttempt /\ attempts[active].ended = -1
  BY DEF PartInv, ActiveBegan, OneActivity
<1> QED
  BY <1>1, <1>3, <1>4, <1>5 DEF Closes, new, end

LEMMA ExpiredCloses == ASSUME PartInv PROVE Closes(Expired)
  BY FinishedCloses DEF Expired, Closes, PartInv, PartTypes

\* Closing attempts keeps what the invariant says of attempts and submissions.
LEMMA ClosesFits == ASSUME PartInv, NEW as, Closes(as) PROVE Fits(as, now)
<1>1. /\ attempts \in [Attempts -> AttemptRecord] /\ now \in Nat /\ userSubs \in Seq(SubRecord)
      /\ Len(userSubs) \in Nat /\ DOMAIN userSubs = 1..Len(userSubs)
  BY DEF PartInv, PartTypes
<1>2. ASSUME NEW a \in Attempts
      PROVE  /\ as[a] \in AttemptRecord /\ as[a].deadline = attempts[a].deadline
             /\ as[a].revealed = attempts[a].revealed
             /\ attempts[a] # NoAttempt => as[a] # NoAttempt
             /\ attempts[a] = NoAttempt => as[a] = NoAttempt
             /\ \/ as[a].ended = attempts[a].ended
                \/ /\ as[a].ended = MinOf(now, attempts[a].deadline) /\ attempts[a].ended = -1
                   /\ attempts[a].deadline >= 0 /\ as[a].ended >= 0
  <2>1. attempts[a] \in AttemptRecord
    BY <1>1
  <2>2. CASE as[a] = attempts[a]
    BY <2>1, <2>2
  <2>3. CASE /\ attempts[a] # NoAttempt /\ attempts[a].ended = -1
             /\ as[a] = [deadline |-> attempts[a].deadline, ended |-> MinOf(now, attempts[a].deadline),
                         revealed |-> attempts[a].revealed]
    <3>1. attempts[a].deadline >= 0 /\ attempts[a].deadline \in Int /\ attempts[a].revealed \in BOOLEAN
      BY <2>1, <2>3 DEF PartInv, Fits, AttemptFits, AttemptRecord
    <3>2. MinOf(now, attempts[a].deadline) \in Nat
      BY <1>1, <3>1 DEF MinOf
    <3>3. as[a].ended >= 0
      BY <2>3, <3>2
    <3> QED
      BY <2>3, <3>1, <3>2, <3>3 DEF NoAttempt, AttemptRecord
  <2> QED
    BY <2>2, <2>3 DEF Closes
<1>3. ASSUME NEW a \in Attempts PROVE AttemptFits(as[a])
  <2>1. AttemptFits(attempts[a])
    BY DEF PartInv, Fits
  <2> QED
    BY <1>2, <2>1 DEF AttemptFits
<1>4. ASSUME NEW n \in 1..Len(userSubs) PROVE SubFits(userSubs[n], as, now)
  <2> DEFINE s == userSubs[n]
             of == s.of
  <2>1. SubFits(s, attempts, now) /\ s \in SubRecord
    BY <1>1 DEF PartInv, Fits
  <2>2. CASE s.kind # "offline"
    BY <2>1, <2>2 DEF SubFits
  <2>3. CASE s.kind = "offline"
    <3>1. /\ of \in Attempts /\ attempts[of] # NoAttempt /\ s.date < attempts[of].deadline /\ s.date <= now
          /\ attempts[of].ended # -1 => s.date <= attempts[of].ended
          /\ s.hidden <=> ~attempts[of].revealed
      BY <2>1, <2>3 DEF SubFits
    <3>2. s.date \in Nat /\ attempts[of].deadline \in Int
      BY <1>1, <2>1, <3>1 DEF SubRecord, AttemptRecord
    <3>3. s.date <= MinOf(now, attempts[of].deadline)
      BY <1>1, <3>1, <3>2 DEF MinOf
    <3>4. /\ as[of].deadline = attempts[of].deadline /\ as[of].revealed = attempts[of].revealed /\ as[of] # NoAttempt
          /\ as[of].ended = attempts[of].ended \/ as[of].ended = MinOf(now, attempts[of].deadline)
      BY <1>2, <3>1
    <3>5. as[of].ended # -1 => s.date <= as[of].ended
      BY <3>1, <3>3, <3>4
    <3> QED
      BY <2>3, <3>1, <3>4, <3>5 DEF SubFits
  <2> QED
    BY <2>2, <2>3
<1> QED
  BY <1>3, <1>4 DEF Fits, Closes

LEMMA LaterFits ==
  ASSUME NEW s, NEW as, NEW t \in Nat, NEW u \in Nat, t <= u, s.date \in Nat, SubFits(s, as, t)
  PROVE  SubFits(s, as, u)
<1>1. s.date <= t
  BY DEF SubFits
<1>2. s.date <= u
  BY <1>1
<1> QED
  BY <1>2, Zenon DEF SubFits

\* A submission that is added, with its date as the new time.
LEMMA AppendFits ==
  ASSUME PartInv, NEW as, Fits(as, now), NEW r \in SubRecord, r.date >= now, SubFits(r, as, r.date),
         userSubs' = Append(userSubs, r), attempts' = as, now' = r.date
  PROVE  Fits(attempts, now)' /\ userSubs' \in Seq(SubRecord)
<1>1. userSubs \in Seq(SubRecord) /\ now \in Nat /\ r.date \in Nat
  BY DEF PartInv, PartTypes, SubRecord
<1>2. /\ userSubs' \in Seq(SubRecord) /\ Len(userSubs') = Len(userSubs) + 1 /\ Len(userSubs) \in Nat
      /\ \A n \in 1..Len(userSubs) : userSubs'[n] = userSubs[n]
      /\ userSubs'[Len(userSubs) + 1] = r
  BY <1>1
<1>3. ASSUME NEW n \in 1..Len(userSubs') PROVE SubFits(userSubs'[n], as, r.date)
  <2>1. CASE n = Len(userSubs) + 1
    BY <1>2, <2>1
  <2>2. CASE n # Len(userSubs) + 1
    <3>1. n \in 1..Len(userSubs)
      BY <1>2, <2>2
    <3>2. userSubs[n] \in SubRecord
      BY <1>1, <3>1
    <3>3. userSubs[n].date \in Nat
      BY <3>2 DEF SubRecord
    <3>4. SubFits(userSubs[n], as, r.date)
      BY <1>1, <3>1, <3>3, LaterFits DEF Fits
    <3> QED
      BY <1>2, <3>1, <3>4
  <2> QED
    BY <2>1, <2>2
<1> QED
  BY <1>2, <1>3 DEF Fits

\* Steps without a submission.
LEMMA NoSub_PartInv ==
  ASSUME PartInv, UNCHANGED <<userSubs, now>>, NEW as, Fits(as, now), attempts' = as,
         contestOf' \in Joins \cup {0}, active' \in Attempts \cup {0}, joins' \in [Joins -> Int],
         pages' \subseteq [contest : Joins \cup {0}, attempt : Attempts \cup {0}],
         active' # 0 => contestOf' = 0 /\ as[active'].ended = -1 /\ as[active'] # NoAttempt
  PROVE  PartInv'
<1>1. Fits(attempts, now)'
  BY DEF Fits
<1> QED
  BY <1>1 DEF PartInv, PartTypes, Fits, ActiveBegan, OneActivity

LEMMA StartAttempt_PartInv == ASSUME PartInv, StartAttempt PROVE PartInv'
<1> DEFINE free == Attempts \ AttemptsUsed
           a == CHOOSE n \in free : \A m \in free : n <= m
<1>1. PICK minutes \in 1..2 :
        attempts' = [Expired EXCEPT ![a] = [deadline |-> now + minutes, ended |-> -1, revealed |-> FALSE]]
  BY DEF StartAttempt
<1>2. active' = a /\ contestOf' = 0 /\ UNCHANGED <<now, joins, userSubs, pages>> /\ AttemptsUsed # Attempts
  BY DEF StartAttempt
<1>3. a \in free
  <2>1. free # {} /\ free \in SUBSET Nat
    BY <1>2, AttemptNumbers DEF AttemptsUsed
  <2> HIDE DEF free
  <2> QED
    BY <2>1, LeastExists
<1> HIDE DEF a
<1>4. a \in Attempts /\ attempts[a] = NoAttempt /\ now \in Nat /\ userSubs \in Seq(SubRecord)
  BY <1>3 DEF AttemptsUsed, PartInv, PartTypes
<1> DEFINE new == [deadline |-> now + minutes, ended |-> -1, revealed |-> FALSE]
<1>5. new \in AttemptRecord /\ AttemptFits(new) /\ new.ended = -1 /\ new # NoAttempt
  <2>1. now + minutes \in Nat
    BY <1>4
  <2>2. new.deadline # NoAttempt.deadline
    BY <2>1 DEF NoAttempt
  <2> QED
    BY <2>1, <2>2 DEF AttemptRecord, AttemptFits
<1> HIDE DEF new
<1>6. Fits(Expired, now) /\ Expired[a] = NoAttempt
  <2>1. Closes(Expired)
    BY ExpiredCloses
  <2> QED
    BY <1>4, <2>1, ClosesFits DEF Closes
<1> DEFINE as == [Expired EXCEPT ![a] = new]
<1>7. /\ as \in [Attempts -> AttemptRecord] /\ as[a] = new
      /\ \A b \in Attempts \ {a} : as[b] = Expired[b]
  BY <1>4, <1>5, <1>6 DEF Fits
<1>8. attempts' = as
  BY <1>1 DEF new
<1> HIDE DEF as
<1>9. Fits(as, now)
  <2>1. ASSUME NEW b \in Attempts PROVE AttemptFits(as[b])
    BY <1>5, <1>6, <1>7 DEF Fits
  <2>2. ASSUME NEW n \in 1..Len(userSubs) PROVE SubFits(userSubs[n], as, now)
    <3>1. SubFits(userSubs[n], Expired, now)
      BY <1>6 DEF Fits
    <3>2. CASE userSubs[n].kind = "offline"
      <4>1. userSubs[n].of \in Attempts \ {a}
        BY <1>6, <3>1, <3>2 DEF SubFits
      <4>2. as[userSubs[n].of] = Expired[userSubs[n].of]
        BY <1>7, <4>1
      <4> QED
        BY <3>1, <4>2, Zenon DEF SubFits
    <3>3. CASE userSubs[n].kind # "offline"
      BY <3>1, <3>3, Zenon DEF SubFits
    <3> QED
      BY <3>2, <3>3
  <2> QED
    BY <1>7, <2>1, <2>2 DEF Fits
<1>10. joins' \in [Joins -> Int] /\ pages' \subseteq [contest : Joins \cup {0}, attempt : Attempts \cup {0}]
  BY <1>2 DEF PartInv, PartTypes
<1> QED
  BY <1>2, <1>4, <1>5, <1>7, <1>8, <1>9, <1>10, NoSub_PartInv

LEMMA Finish_PartInv ==
  ASSUME PartInv, UNCHANGED <<now, userSubs>>, attempts' = Expired \/ (active # 0 /\ attempts' = Finished(active)),
         active' = 0, contestOf' \in Joins \cup {0}, joins' \in [Joins -> Int],
         pages' \subseteq [contest : Joins \cup {0}, attempt : Attempts \cup {0}]
  PROVE  PartInv'
<1>1. PICK as : Fits(as, now) /\ attempts' = as
  BY ExpiredCloses, FinishedCloses, ClosesFits
<1> QED
  BY <1>1, NoSub_PartInv

LEMMA JoinContest_PartInv == ASSUME PartInv, JoinContest PROVE PartInv'
<1> DEFINE free == {j \in Joins \ {Live} : joins[j] = -1}
           id == CHOOSE j \in free : \A k \in free : j <= k
<1>1. /\ \/ joins' = [joins EXCEPT ![Live] = ContestEnd] /\ contestOf' = Live
         \/ free # {} /\ joins' = [joins EXCEPT ![id] = now + ContestEnd] /\ contestOf' = id
      /\ attempts' = Expired /\ active' = 0 /\ UNCHANGED <<now, userSubs, pages>>
  BY DEF JoinContest
<1>2. free # {} => id \in free
  <2>1. free \in SUBSET Nat
    BY AttemptNumbers
  <2> HIDE DEF free
  <2> QED
    BY <2>1, LeastExists
<1> HIDE DEF id
<1>3. /\ joins \in [Joins -> Int] /\ now \in Nat /\ ContestEnd \in Int
      /\ pages \subseteq [contest : Joins \cup {0}, attempt : Attempts \cup {0}]
  BY ParticipationAssumption DEF PartInv, PartTypes
<1>4. joins' \in [Joins -> Int] /\ contestOf' \in Joins
  BY <1>1, <1>2, <1>3, AttemptNumbers
<1> QED
  BY <1>1, <1>3, <1>4, Finish_PartInv

LEMMA RevealedIs ==
  ASSUME NEW r \in AttemptRecord, NEW q, q = [r EXCEPT !.revealed = TRUE]
  PROVE  q = [deadline |-> r.deadline, ended |-> r.ended, revealed |-> TRUE]
  BY DEF AttemptRecord

LEMMA Revealed ==
  ASSUME NEW r \in AttemptRecord
  PROVE  [r EXCEPT !.revealed = TRUE] = [deadline |-> r.deadline, ended |-> r.ended, revealed |-> TRUE]
  BY RevealedIs

LEMMA ShowsIs ==
  ASSUME NEW s \in SubRecord, NEW q, q = [s EXCEPT !.hidden = FALSE]
  PROVE  q = [kind |-> s.kind, of |-> s.of, date |-> s.date, hidden |-> FALSE]
  BY DEF SubRecord

LEMMA Shows ==
  ASSUME NEW s \in SubRecord
  PROVE  [s EXCEPT !.hidden = FALSE] = [kind |-> s.kind, of |-> s.of, date |-> s.date, hidden |-> FALSE]
  BY ShowsIs

LEMMA RevealAttempt_PartInv == ASSUME PartInv, NEW a \in Attempts, RevealAttempt(a) PROVE PartInv'
<1> DEFINE r == attempts[a]
           new == [deadline |-> r.deadline, ended |-> r.ended, revealed |-> TRUE]
           Shown(s) == IF s.kind = "offline" /\ s.of = a THEN [s EXCEPT !.hidden = FALSE] ELSE s
<1>1. /\ r.ended # -1 /\ attempts' = [attempts EXCEPT ![a].revealed = TRUE]
      /\ userSubs' = [n \in DOMAIN userSubs |-> Shown(userSubs[n])]
      /\ UNCHANGED <<now, contestOf, joins, active, pages>>
  BY DEF RevealAttempt, Revealable
<1>2. /\ r \in AttemptRecord /\ attempts \in [Attempts -> AttemptRecord] /\ userSubs \in Seq(SubRecord)
      /\ Len(userSubs) \in Nat /\ DOMAIN userSubs = 1..Len(userSubs)
  BY DEF PartInv, PartTypes
<1>3. r # NoAttempt
  BY <1>1 DEF NoAttempt
<1>4. new \in AttemptRecord /\ AttemptFits(new) /\ new # NoAttempt /\ [r EXCEPT !.revealed = TRUE] = new
  <2>1. AttemptFits(r)
    BY DEF PartInv, Fits
  <2>2. new.ended # NoAttempt.ended
    BY <1>1 DEF NoAttempt
  <2>3. new \in AttemptRecord
    BY <1>2 DEF AttemptRecord
  <2>4. AttemptFits(new)
    BY <1>1, <1>3, <2>1 DEF AttemptFits
  <2>5. [r EXCEPT !.revealed = TRUE] = new
    BY <1>2, Revealed
  <2> HIDE DEF new
  <2> QED
    BY <2>2, <2>3, <2>4, <2>5
<1>5. ASSUME NEW s \in SubRecord
      PROVE  /\ Shown(s) \in SubRecord /\ Shown(s).kind = s.kind /\ Shown(s).of = s.of /\ Shown(s).date = s.date
             /\ Shown(s).hidden <=> (s.hidden /\ ~(s.kind = "offline" /\ s.of = a))
  <2>1. [s EXCEPT !.hidden = FALSE] = [kind |-> s.kind, of |-> s.of, date |-> s.date, hidden |-> FALSE]
    BY Shows
  <2>2. [kind |-> s.kind, of |-> s.of, date |-> s.date, hidden |-> FALSE] \in SubRecord
    BY DEF SubRecord
  <2> QED
    BY <2>1, <2>2
<1>6. /\ attempts' \in [Attempts -> AttemptRecord]
      /\ attempts'[a].deadline = r.deadline /\ attempts'[a].ended = r.ended /\ attempts'[a].revealed
      /\ attempts'[a] # NoAttempt /\ AttemptFits(attempts'[a])
      /\ \A b \in Attempts \ {a} : attempts'[b] = attempts[b]
  <2>1. attempts' = [attempts EXCEPT ![a] = new]
    <3> HIDE DEF new
    <3> QED
      BY <1>1, <1>4
  <2>2. attempts'[a] = new
    BY <1>2, <2>1
  <2>3. attempts' \in [Attempts -> AttemptRecord] /\ \A b \in Attempts \ {a} : attempts'[b] = attempts[b]
    <3> HIDE DEF new
    <3> QED
      BY <1>2, <1>4, <2>1
  <2> QED
    BY <1>4, <2>2, <2>3
<1> HIDE DEF r, new, Shown
<1>7. /\ userSubs' \in Seq(SubRecord) /\ Len(userSubs') = Len(userSubs)
      /\ \A n \in 1..Len(userSubs) : userSubs'[n] = Shown(userSubs[n]) /\ userSubs[n] \in SubRecord
  BY <1>1, <1>2, <1>5
<1>8. ASSUME NEW n \in 1..Len(userSubs) PROVE SubFits(userSubs'[n], attempts', now)
  <2>1. SubFits(userSubs[n], attempts, now) /\ userSubs[n] \in SubRecord /\ userSubs'[n] = Shown(userSubs[n])
    BY <1>7 DEF PartInv, Fits
  <2>2. CASE userSubs[n].kind = "offline" /\ userSubs[n].of = a
    BY <1>5, <1>6, <2>1, <2>2 DEF SubFits, r
  <2>3. CASE ~(userSubs[n].kind = "offline" /\ userSubs[n].of = a)
    BY <1>5, <1>6, <2>1, <2>3 DEF SubFits
  <2> QED
    BY <2>2, <2>3
<1>9. Fits(attempts, now)'
  <2>1. ASSUME NEW b \in Attempts PROVE AttemptFits(attempts'[b])
    BY <1>6 DEF PartInv, Fits
  <2> QED
    BY <1>1, <1>6, <1>7, <1>8, <2>1 DEF Fits
<1>10. active # a
  BY <1>1, AttemptNumbers DEF PartInv, OneActivity, r
<1>11. ActiveBegan' /\ OneActivity'
  BY <1>1, <1>6, <1>10 DEF PartInv, PartTypes, ActiveBegan, OneActivity
<1>12. PartTypes'
  BY <1>1, <1>6, <1>7 DEF PartInv, PartTypes
<1> QED
  BY <1>9, <1>11, <1>12 DEF PartInv

\* A new submission with its date as the new time, and attempts that fit.
LEMMA NewSub_PartInv ==
  ASSUME PartInv, NEW as, Fits(as, now), attempts' = as, UNCHANGED pages,
         NEW kind \in {"practice", "contest", "offline"}, NEW of \in Nat, NEW date \in Dates,
         NewSub(kind, of, date), now' = date,
         kind = "offline" => /\ of \in Attempts /\ as[of] # NoAttempt /\ date < as[of].deadline
                             /\ as[of].ended = -1 /\ ~as[of].revealed,
         contestOf' \in Joins \cup {0}, active' \in Attempts \cup {0}, joins' \in [Joins -> Int],
         active' # 0 => contestOf' = 0 /\ as[active'].ended = -1 /\ as[active'] # NoAttempt
  PROVE  PartInv'
<1> DEFINE r == [kind |-> kind, of |-> of, date |-> date, hidden |-> kind = "offline"]
<1>1. now \in Nat /\ date \in Nat /\ date >= now /\ userSubs' = Append(userSubs, r)
  BY DEF PartInv, PartTypes, Dates, NewSub
<1>2. r \in SubRecord
  BY <1>1 DEF SubRecord
<1>3. SubFits(r, as, r.date)
  <2>1. r.kind = kind /\ r.of = of /\ r.date = date /\ (r.hidden <=> kind = "offline")
    OBVIOUS
  <2>2. r.date <= r.date
    BY <1>1, <2>1
  <2> HIDE DEF r
  <2>3. CASE kind = "offline"
    <3>1. /\ r.of \in Attempts /\ as[r.of] # NoAttempt /\ r.date < as[r.of].deadline
          /\ as[r.of].ended = -1 /\ ~as[r.of].revealed
      BY <2>1, <2>3
    <3> QED
      BY <2>1, <2>2, <2>3, <3>1, Zenon DEF SubFits
  <2>4. CASE kind # "offline"
    BY <2>1, <2>2, <2>4, Zenon DEF SubFits
  <2> QED
    BY <2>3, <2>4
<1>4. r.date = date
  OBVIOUS
<1> HIDE DEF r
<1>5. Fits(attempts, now)' /\ userSubs' \in Seq(SubRecord)
  BY <1>1, <1>2, <1>3, <1>4, AppendFits
<1>6. PartTypes'
  BY <1>1, <1>5 DEF PartInv, PartTypes, Fits
<1> QED
  BY <1>5, <1>6 DEF PartInv, ActiveBegan, OneActivity

LEMMA Submit_PartInv == ASSUME PartInv, NEW p \in pages, Submit(p) PROVE PartInv'
<1>1. PICK date \in Dates :
        /\ DateAdmitted(date)
        /\ IF active # 0 THEN NewSub("offline", active, date)
           ELSE IF Settled # 0 THEN NewSub("contest", Settled, date) ELSE NewSub("practice", 0, date)
        /\ now' = date /\ contestOf' = Settled /\ UNCHANGED <<joins, attempts, active, pages>>
  BY DEF Submit
<1>2. /\ active \in Attempts \cup {0} /\ joins \in [Joins -> Int] /\ contestOf \in Joins \cup {0}
      /\ Fits(attempts, now) /\ ActiveBegan /\ OneActivity
  BY DEF PartInv, PartTypes
<1>3. Settled \in Joins \cup {0} /\ (active # 0 => Settled = 0)
  BY <1>2 DEF Settled, OneActivity
<1>4. Settled \in Nat /\ active \in Nat /\ 0 \in Nat
  BY <1>2, <1>3, AttemptNumbers
<1>5. CASE active # 0
  <2>1. NewSub("offline", active, date) /\ date < attempts[active].deadline /\ active \in Attempts
    BY <1>1, <1>2, <1>5 DEF DateAdmitted
  <2>2. attempts[active] # NoAttempt /\ attempts[active].ended = -1
    BY <1>2, <1>5 DEF ActiveBegan, OneActivity
  <2>3. ~attempts[active].revealed
    BY <1>2, <2>1, <2>2 DEF Fits, AttemptFits
  <2> QED
    BY <1>1, <1>2, <1>3, <1>4, <2>1, <2>2, <2>3, NewSub_PartInv
<1>6. CASE active = 0 /\ Settled # 0
  BY <1>1, <1>2, <1>3, <1>4, <1>6, NewSub_PartInv
<1>7. CASE active = 0 /\ Settled = 0
  BY <1>1, <1>2, <1>3, <1>4, <1>7, NewSub_PartInv
<1> QED
  BY <1>5, <1>6, <1>7

LEMMA BatchAdmit_PartInv == ASSUME PartInv, BatchAdmit PROVE PartInv'
<1>1. PICK date \in Dates : now' = date /\ NewSub("contest", Live, date)
  BY DEF BatchAdmit
<1>2. /\ joins' = [joins EXCEPT ![Live] = ContestEnd] /\ contestOf' = Live /\ attempts' = Expired
      /\ active' = 0 /\ UNCHANGED pages
  BY DEF BatchAdmit, StopAttempt
<1>3. Fits(Expired, now)
  BY ExpiredCloses, ClosesFits
<1>4. joins' \in [Joins -> Int] /\ Live \in Joins /\ Live \in Nat
  BY <1>2, ParticipationAssumption, AttemptNumbers DEF PartInv, PartTypes
<1> HIDE DEF Expired
<1> QED
  BY <1>1, <1>2, <1>3, <1>4, NewSub_PartInv

LEMMA Tick_PartInv == ASSUME PartInv, Tick PROVE PartInv'
<1>1. now \in Nat /\ now' = now + 1 /\ UNCHANGED <<contestOf, joins, attempts, active, userSubs, pages>>
  BY DEF Tick, PartInv, PartTypes
<1>2. ASSUME NEW n \in 1..Len(userSubs) PROVE SubFits(userSubs[n], attempts, now + 1)
  <2>1. SubFits(userSubs[n], attempts, now) /\ userSubs[n] \in SubRecord
    BY DEF PartInv, Fits, PartTypes
  <2>2. userSubs[n].date \in Nat
    BY <2>1 DEF SubRecord
  <2> QED
    BY <1>1, <2>1, <2>2, LaterFits
<1>3. Fits(attempts, now)'
  BY <1>1, <1>2 DEF PartInv, Fits
<1> QED
  BY <1>1, <1>3 DEF PartInv, PartTypes, ActiveBegan, OneActivity

LEMMA PartNext_PartInv == PartInv /\ [PartNext]_partVars => PartInv'
<1> SUFFICES ASSUME PartInv, [PartNext]_partVars PROVE PartInv'
  OBVIOUS
<1>1. /\ Fits(attempts, now) /\ ActiveBegan /\ OneActivity /\ joins \in [Joins -> Int]
      /\ contestOf \in Joins \cup {0} /\ active \in Attempts \cup {0}
      /\ pages \subseteq [contest : Joins \cup {0}, attempt : Attempts \cup {0}]
  BY DEF PartInv, PartTypes
<1>2. CASE StartAttempt
  BY <1>2, StartAttempt_PartInv
<1>3. CASE \E early \in BOOLEAN : FinishAttempt(early)
  BY <1>1, <1>3, Finish_PartInv DEF FinishAttempt
<1>4. CASE JoinContest
  BY <1>4, JoinContest_PartInv
<1>5. CASE LeaveContest
  BY <1>1, <1>5, Finish_PartInv DEF LeaveContest
<1>6. CASE BatchAdmit
  BY <1>6, BatchAdmit_PartInv
<1>7. CASE OpenPage
  <2>1. PICK a \in {active} \cup {p.attempt : p \in pages} :
          pages' = {[contest |-> contestOf, attempt |-> IF a = 0 THEN active ELSE a]}
    BY <1>7 DEF OpenPage
  <2>2. a \in Attempts \cup {0}
    BY <1>1
  <2>3. pages' \subseteq [contest : Joins \cup {0}, attempt : Attempts \cup {0}]
    BY <1>1, <2>1, <2>2
  <2> QED
    BY <1>1, <1>7, <2>3, NoSub_PartInv DEF OpenPage, ActiveBegan, OneActivity
<1>8. CASE Tick
  BY <1>8, Tick_PartInv
<1>9. CASE \E a \in Attempts : RevealAttempt(a)
  BY <1>9, RevealAttempt_PartInv
<1>10. CASE \E p \in pages : RemoveStaleContest(p)
  BY <1>1, <1>10, NoSub_PartInv DEF RemoveStaleContest, ActiveBegan, OneActivity
<1>11. CASE \E p \in pages : Submit(p)
  BY <1>11, Submit_PartInv
<1>12. CASE UNCHANGED partVars
  BY <1>1, <1>12, NoSub_PartInv DEF partVars, ActiveBegan, OneActivity
<1> QED
  BY <1>2, <1>3, <1>4, <1>5, <1>6, <1>7, <1>8, <1>9, <1>10, <1>11, <1>12 DEF PartNext, ExpireAttempt

LEMMA PartInvHolds == PartSpec => []PartInv
<1> QED
  BY PartInit_PartInv, PartNext_PartInv, PTL DEF PartSpec

\* One activity at a time (utils/exam_offline.py:68-145): a
\* user with an active attempt is in no contest, and the attempt is open.
THEOREM UserHasOneActivity == PartSpec => []OneActivity
<1>1. PartInv => OneActivity
  BY DEF PartInv
<1> QED
  BY <1>1, PartInvHolds, PTL

\* What counts for an attempt was submitted before its deadline and its end, and
\* is hidden until the attempt is revealed (utils/exam_offline.py:23-66, 129-153).
THEOREM AttemptsKeepTheirTime == PartSpec => []AttemptSubmissions
<1>1. PartInv => AttemptSubmissions
  <2> SUFFICES ASSUME PartInv, NEW n \in DOMAIN userSubs
               PROVE  LET a == attempts[userSubs[n].of]
                      IN /\ userSubs[n].kind = "offline" =>
                              userSubs[n].date < a.deadline /\ (a.ended # -1 => userSubs[n].date <= a.ended)
                         /\ userSubs[n].hidden <=> (userSubs[n].kind = "offline" /\ ~a.revealed)
    BY DEF AttemptSubmissions
  <2>1. n \in 1..Len(userSubs)
    BY DEF PartInv, PartTypes
  <2>2. SubFits(userSubs[n], attempts, now)
    BY <2>1 DEF PartInv, Fits
  <2> QED
    BY <2>2, Zenon DEF SubFits
<1> QED
  BY <1>1, PartInvHolds, PTL

\* views/problem.py:856-873 with utils/exam_offline.py:129-153: a form of an attempt becomes a submission of it or none.
LEMMA FormsKeepTheirAttempt == PartSpec => PageKeepsItsAttempt
<1> DEFINE Keeps == \A p \in pages : p.attempt # 0 /\ Submit(p) =>
                      LET s == userSubs'[Len(userSubs')] IN s.kind = "offline" /\ s.of = p.attempt
<1>1. PartInv => Keeps
  <2> SUFFICES ASSUME PartInv, NEW p \in pages, p.attempt # 0, Submit(p)
               PROVE  LET s == userSubs'[Len(userSubs')] IN s.kind = "offline" /\ s.of = p.attempt
    OBVIOUS
  <2>1. active = p.attempt /\ userSubs \in Seq(SubRecord)
    BY DEF Submit, PageIsCurrent, PartInv, PartTypes
  <2>2. PICK date \in Dates : NewSub("offline", active, date)
    BY <2>1 DEF Submit
  <2> DEFINE r == [kind |-> "offline", of |-> active, date |-> date, hidden |-> TRUE]
  <2>3. userSubs' = Append(userSubs, r)
    BY <2>2 DEF NewSub
  <2>4. r.kind = "offline" /\ r.of = active
    OBVIOUS
  <2>5. r \in [kind : {"offline"}, of : {active}, date : {date}, hidden : BOOLEAN]
    OBVIOUS
  <2> HIDE DEF r
  <2>6. userSubs'[Len(userSubs')] = r
    BY <2>1, <2>3
  <2> QED
    BY <2>1, <2>4, <2>6
<1>2. PartInv /\ [PartNext]_partVars => [Keeps]_partVars
  BY <1>1
<1> HIDE DEF Keeps
<1>3. PartSpec => [][Keeps]_partVars
  BY <1>2, PartInvHolds, PTL DEF PartSpec
<1> QED
  BY <1>3 DEF PageKeepsItsAttempt, Keeps

\* models/profile.py:438-441: a request that finds its participation over does not
\* clear one that was entered since.
LEMMA StaleRequestsClearNothing == PartSpec => NewerAdmissionKept
<1> DEFINE Kept == \A p \in pages : RemoveStaleContest(p) /\ contestOf # 0 /\ joins[contestOf] >= now =>
                     contestOf' = contestOf
<1>1. PartInv => Kept
  <2> SUFFICES ASSUME PartInv, NEW p \in pages, RemoveStaleContest(p), contestOf # 0, joins[contestOf] >= now
               PROVE  contestOf' = contestOf
    OBVIOUS
  <2>1. joins \in [Joins -> Int] /\ contestOf \in Joins /\ now \in Nat
    BY DEF PartInv, PartTypes
  <2>2. contestOf # p.contest
    BY <2>1 DEF RemoveStaleContest
  <2> QED
    BY <2>2 DEF RemoveStaleContest, SameContest
<1>2. PartInv /\ [PartNext]_partVars => [Kept]_partVars
  BY <1>1
<1> HIDE DEF Kept
<1>3. PartSpec => [][Kept]_partVars
  BY <1>2, PartInvHolds, PTL DEF PartSpec
<1> QED
  BY <1>3 DEF NewerAdmissionKept, Kept

\* A form or a request that is out of date submits nothing outside of its attempt and
\* ends nothing that began after it.
THEOREM StaleRequestsDoNoHarm == PartSpec => StaleRequestsAreHarmless
  BY FormsKeepTheirAttempt, StaleRequestsClearNothing DEF StaleRequestsAreHarmless

-----------------------------------------------------------------------------
(* Batch submission.                                                           *)
Made == {"created", "submitted", "dispatch_error"}
RowRecord == [state : {"absent", "invalid", "pending", "created", "submitted", "dispatch_error", "error"},
              source : BOOLEAN]
DeliveryRecord == [step : {"idle", "next", "admit", "refuse", "judge"}, todo : SUBSET BatchFiles,
                   file : BatchFiles \cup {NoFile}, waiting : SUBSET FileUsers]

\* A delivery that has claimed a row is at a file, and judges only one that is made.
DeliveryFits(r, rows) ==
  /\ r \in DeliveryRecord
  /\ r.step \in {"admit", "refuse", "judge"} => r.file \in BatchFiles
  /\ r.step = "judge" => rows[r.file].state \in Made
BatchInv ==
  /\ fileRows \in [BatchFiles -> RowRecord]
  /\ \A s \in created : s.file \in BatchFiles /\ s = [file |-> s.file, n |-> s.n, queued |-> s.queued]
  /\ deliveries \in [Deliveries -> DeliveryRecord] /\ \A d \in Deliveries : DeliveryFits(deliveries[d], fileRows)
  /\ OneSubmissionPerFile

LEMMA StepIsEq ==
  ASSUME NEW r \in DeliveryRecord, NEW x, NEW q, q = [r EXCEPT !.step = x]
  PROVE  q = [step |-> x, todo |-> r.todo, file |-> r.file, waiting |-> r.waiting]
  BY DEF DeliveryRecord

LEMMA StepIs ==
  ASSUME NEW r \in DeliveryRecord, NEW x
  PROVE  [r EXCEPT !.step = x] = [step |-> x, todo |-> r.todo, file |-> r.file, waiting |-> r.waiting]
  BY StepIsEq

LEMMA TakesEq ==
  ASSUME NEW r \in DeliveryRecord, NEW f, NEW q, q = [r EXCEPT !.step = "admit", !.file = f, !.todo = @ \ {f}]
  PROVE  q = [step |-> "admit", todo |-> r.todo \ {f}, file |-> f, waiting |-> r.waiting]
  BY DEF DeliveryRecord

LEMMA Takes ==
  ASSUME NEW r \in DeliveryRecord, NEW f
  PROVE  [r EXCEPT !.step = "admit", !.file = f, !.todo = @ \ {f}] =
           [step |-> "admit", todo |-> r.todo \ {f}, file |-> f, waiting |-> r.waiting]
  BY TakesEq

LEMMA WaitsEq ==
  ASSUME NEW r \in DeliveryRecord, NEW u, NEW q, q = [r EXCEPT !.step = "next", !.waiting = @ \cup {u}]
  PROVE  q = [step |-> "next", todo |-> r.todo, file |-> r.file, waiting |-> r.waiting \cup {u}]
  BY DEF DeliveryRecord

LEMMA Waits ==
  ASSUME NEW r \in DeliveryRecord, NEW u
  PROVE  [r EXCEPT !.step = "next", !.waiting = @ \cup {u}] =
           [step |-> "next", todo |-> r.todo, file |-> r.file, waiting |-> r.waiting \cup {u}]
  BY WaitsEq

LEMMA ReadsEq ==
  ASSUME NEW r \in DeliveryRecord, NEW t, NEW q, q = [r EXCEPT !.step = "next", !.todo = t]
  PROVE  q = [step |-> "next", todo |-> t, file |-> r.file, waiting |-> r.waiting]
  BY DEF DeliveryRecord

LEMMA Reads ==
  ASSUME NEW r \in DeliveryRecord, NEW t
  PROVE  [r EXCEPT !.step = "next", !.todo = t] =
           [step |-> "next", todo |-> t, file |-> r.file, waiting |-> r.waiting]
  BY ReadsEq

LEMMA JudgedEq ==
  ASSUME NEW s, s = [file |-> s.file, n |-> s.n, queued |-> s.queued], NEW q, q = [s EXCEPT !.queued = FALSE]
  PROVE  q = [file |-> s.file, n |-> s.n, queued |-> FALSE]
<1> DEFINE t == [file |-> s.file, n |-> s.n, queued |-> s.queued]
<1>1. q = [t EXCEPT !.queued = FALSE]
  OBVIOUS
<1> QED
  BY <1>1

LEMMA Judged ==
  ASSUME NEW s, s = [file |-> s.file, n |-> s.n, queued |-> s.queued]
  PROVE  [s EXCEPT !.queued = FALSE] = [file |-> s.file, n |-> s.n, queued |-> FALSE]
  BY JudgedEq

LEMMA IdleFits == ASSUME NEW rows PROVE DeliveryFits(IdleDelivery, rows)
  BY DEF DeliveryFits, DeliveryRecord, IdleDelivery

LEMMA BatchInit_BatchInv == BatchInit => BatchInv
<1> SUFFICES ASSUME BatchInit PROVE BatchInv
  OBVIOUS
<1>1. Row("absent") \in RowRecord /\ Row("absent").state = "absent"
  BY DEF Row, RowRecord
<1>2. deliveries \in [Deliveries -> DeliveryRecord] /\ \A d \in Deliveries : DeliveryFits(deliveries[d], fileRows)
  BY IdleFits DEF BatchInit, DeliveryFits
<1>3. fileRows \in [BatchFiles -> RowRecord] /\ created = {} /\ \A f \in BatchFiles : fileRows[f].state = "absent"
  BY <1>1 DEF BatchInit
<1> QED
  BY <1>2, <1>3 DEF BatchInv, OneSubmissionPerFile

\* A step of one delivery that makes or unmakes no submission.
LEMMA RowsKeep_BatchInv ==
  ASSUME BatchInv, UNCHANGED created, fileRows' \in [BatchFiles -> RowRecord],
         \A f \in BatchFiles : fileRows'[f].state \in Made <=> fileRows[f].state \in Made,
         \/ UNCHANGED deliveries
         \/ \E d \in Deliveries, r \in DeliveryRecord : Does(d, r) /\ DeliveryFits(r, fileRows)
  PROVE  BatchInv'
<1>1. ASSUME NEW r, DeliveryFits(r, fileRows) PROVE DeliveryFits(r, fileRows')
  BY <1>1 DEF DeliveryFits
<1>2. /\ deliveries' \in [Deliveries -> DeliveryRecord]
      /\ \A d \in Deliveries : DeliveryFits(deliveries'[d], fileRows)
  BY DEF BatchInv, Does
<1>3. OneSubmissionPerFile'
  BY DEF BatchInv, OneSubmissionPerFile, Made
<1> QED
  BY <1>1, <1>2, <1>3 DEF BatchInv

LEMMA UploadChunk_BatchInv == ASSUME BatchInv, NEW chunk, UploadChunk(chunk) PROVE BatchInv'
<1>1. PICK valid \in SUBSET chunk :
        fileRows' = [f \in BatchFiles |-> IF f \notin chunk \/ fileRows[f].state # "absent" THEN fileRows[f]
                                          ELSE IF f \in valid THEN Row("pending") ELSE Row("invalid")]
  BY DEF UploadChunk
<1>2. /\ Row("pending") \in RowRecord /\ Row("pending").state \notin Made
      /\ Row("invalid") \in RowRecord /\ Row("invalid").state \notin Made
  BY DEF Row, RowRecord, Made
<1>3. fileRows \in [BatchFiles -> RowRecord] /\ \A f \in BatchFiles : fileRows[f].state = "absent" => fileRows[f].state \notin Made
  BY DEF BatchInv, Made
<1>4. /\ fileRows' \in [BatchFiles -> RowRecord]
      /\ \A f \in BatchFiles : fileRows'[f].state \in Made <=> fileRows[f].state \in Made
  BY <1>1, <1>2, <1>3
<1> QED
  BY <1>4, RowsKeep_BatchInv DEF UploadChunk

LEMMA JudgeEnds_BatchInv == ASSUME BatchInv, NEW s \in created, JudgeEnds(s) PROVE BatchInv'
<1> DEFINE t == [file |-> s.file, n |-> s.n, queued |-> FALSE]
<1>1. s = [file |-> s.file, n |-> s.n, queued |-> s.queued] /\ s.file \in BatchFiles
  BY DEF BatchInv
<1>2. created' = (created \ {s}) \cup {t} /\ UNCHANGED <<fileRows, deliveries>>
  BY <1>1, Judged DEF JudgeEnds
<1>3. t = [file |-> t.file, n |-> t.n, queued |-> t.queued] /\ t.file = s.file
  OBVIOUS
<1> HIDE DEF t
<1>4. \A x \in created' : x.file \in BatchFiles /\ x = [file |-> x.file, n |-> x.n, queued |-> x.queued]
  BY <1>1, <1>2, <1>3 DEF BatchInv
<1>5. OneSubmissionPerFile'
  BY <1>2, <1>3 DEF BatchInv, OneSubmissionPerFile
<1> QED
  BY <1>2, <1>4, <1>5 DEF BatchInv

LEMMA Deliver_BatchInv == ASSUME BatchInv, NEW d \in Deliveries, Deliver(d) PROVE BatchInv'
<1> DEFINE r == [step |-> "next", todo |-> PendingFiles, file |-> IdleDelivery.file, waiting |-> IdleDelivery.waiting]
<1>1. IdleDelivery \in DeliveryRecord /\ PendingFiles \in SUBSET BatchFiles
  BY DEF IdleDelivery, DeliveryRecord, PendingFiles
<1>2. Does(d, r)
  BY <1>1, Reads DEF Deliver
<1>3. r \in DeliveryRecord /\ DeliveryFits(r, fileRows)
  BY <1>1 DEF DeliveryFits, DeliveryRecord
<1> HIDE DEF r
<1> QED
  BY <1>2, <1>3, RowsKeep_BatchInv DEF Deliver, BatchInv

LEMMA NextRow_BatchInv == ASSUME BatchInv, NEW d \in Deliveries, NextRow(d) PROVE BatchInv'
<1> DEFINE r == deliveries[d]
           rest == {f \in r.todo : FileUser[f] \notin r.waiting}
           new(f) == [step |-> "admit", todo |-> r.todo \ {f}, file |-> f, waiting |-> r.waiting]
<1>1. r \in DeliveryRecord /\ UNCHANGED <<fileRows, created>>
  BY DEF BatchInv, NextRow
<1>2. (\E f \in rest : Does(d, [r EXCEPT !.step = "admit", !.file = f, !.todo = @ \ {f}])) \/ Does(d, IdleDelivery)
  BY DEF NextRow
<1>3. CASE \E f \in rest : Does(d, [r EXCEPT !.step = "admit", !.file = f, !.todo = @ \ {f}])
  <2>1. PICK f \in rest : Does(d, new(f))
    BY <1>1, <1>3, Takes
  <2>2. f \in BatchFiles
    BY <1>1 DEF DeliveryRecord
  <2>3. new(f) \in DeliveryRecord /\ DeliveryFits(new(f), fileRows)
    BY <1>1, <2>2 DEF DeliveryFits, DeliveryRecord
  <2> HIDE DEF new
  <2> QED
    BY <1>1, <2>1, <2>3, RowsKeep_BatchInv DEF BatchInv
<1>4. CASE Does(d, IdleDelivery)
  BY <1>1, <1>4, IdleFits, RowsKeep_BatchInv DEF BatchInv, DeliveryFits
<1> QED
  BY <1>2, <1>3, <1>4

LEMMA Admit_BatchInv == ASSUME BatchInv, NEW d \in Deliveries, Admit(d) PROVE BatchInv'
<1> DEFINE r == deliveries[d]
           f == r.file
           at(s) == [step |-> s, todo |-> r.todo, file |-> f, waiting |-> r.waiting]
           waits == [step |-> "next", todo |-> r.todo, file |-> f, waiting |-> r.waiting \cup {FileUser[f]}]
<1>1. /\ r \in DeliveryRecord /\ DeliveryFits(r, fileRows) /\ r.step = "admit"
      /\ \A e \in Deliveries : DeliveryFits(deliveries[e], fileRows)
      /\ deliveries \in [Deliveries -> DeliveryRecord] /\ fileRows \in [BatchFiles -> RowRecord]
  BY DEF BatchInv, Admit, Doing
<1>2. f \in BatchFiles /\ FileUser[f] \in FileUsers
  BY <1>1 DEF DeliveryFits, FileUsers
<1>3. \A s : [r EXCEPT !.step = s] = at(s)
  BY <1>1, StepIs
<1>4. \A s \in {"next", "refuse", "judge"} : at(s) \in DeliveryRecord
  BY <1>1, <1>2 DEF DeliveryRecord
<1>5. \A s \in {"next", "refuse"} : DeliveryFits(at(s), fileRows)
  BY <1>2, <1>4 DEF DeliveryFits
<1>6. CASE UNCHANGED <<fileRows, created>> /\ \E s \in {"next", "refuse"} : Does(d, [r EXCEPT !.step = s])
  <2>1. PICK s \in {"next", "refuse"} : Does(d, at(s))
    BY <1>3, <1>6
  <2>2. at(s) \in DeliveryRecord /\ DeliveryFits(at(s), fileRows)
    BY <1>4, <1>5
  <2> HIDE DEF at
  <2> QED
    BY <1>1, <1>6, <2>1, <2>2, RowsKeep_BatchInv
<1>7. CASE UNCHANGED <<fileRows, created>> /\ Does(d, [r EXCEPT !.step = "next", !.waiting = @ \cup {FileUser[f]}])
  <2>1. Does(d, waits)
    BY <1>1, <1>7, Waits
  <2>2. waits \in DeliveryRecord /\ DeliveryFits(waits, fileRows)
    BY <1>1, <1>2 DEF DeliveryFits, DeliveryRecord
  <2> HIDE DEF waits
  <2> QED
    BY <1>1, <1>7, <2>1, <2>2, RowsKeep_BatchInv
<1>8. CASE /\ StillClaimable(f)
           /\ created' = created \cup {[file |-> f, n |-> Cardinality(created), queued |-> TRUE]}
           /\ fileRows' = [fileRows EXCEPT ![f] = [state |-> "created", source |-> FALSE]]
           /\ Does(d, [r EXCEPT !.step = "judge"])
  <2> DEFINE new == [file |-> f, n |-> Cardinality(created), queued |-> TRUE]
             row == [state |-> "created", source |-> FALSE]
  <2>1. new.file = f /\ new = [file |-> new.file, n |-> new.n, queued |-> new.queued]
    OBVIOUS
  <2>2. row \in RowRecord /\ row.state \in Made
    BY DEF RowRecord, Made
  <2>3. created' = created \cup {new} /\ fileRows' = [fileRows EXCEPT ![f] = row] /\ Does(d, at("judge"))
    BY <1>3, <1>8
  <2>4. fileRows[f].state \notin Made
    BY <1>8 DEF StillClaimable, Made
  <2> HIDE DEF new, row
  <2>5. /\ fileRows' \in [BatchFiles -> RowRecord] /\ fileRows'[f].state \in Made
        /\ \A g \in BatchFiles \ {f} : fileRows'[g] = fileRows[g]
    BY <1>1, <1>2, <2>2, <2>3
  <2>6. OneSubmissionPerFile'
    BY <1>2, <2>1, <2>3, <2>4, <2>5 DEF BatchInv, OneSubmissionPerFile, Made
  <2>7. \A x \in created' : x.file \in BatchFiles /\ x = [file |-> x.file, n |-> x.n, queued |-> x.queued]
    BY <1>2, <2>1, <2>3 DEF BatchInv
  <2>8. ASSUME NEW q, DeliveryFits(q, fileRows) PROVE DeliveryFits(q, fileRows')
    BY <2>4, <2>5, <2>8 DEF DeliveryFits
  <2>9. at("judge") \in DeliveryRecord /\ DeliveryFits(at("judge"), fileRows')
    BY <1>2, <1>4, <2>5 DEF DeliveryFits
  <2> HIDE DEF at
  <2>10. deliveries' \in [Deliveries -> DeliveryRecord] /\ \A e \in Deliveries : DeliveryFits(deliveries'[e], fileRows')
    BY <1>1, <2>3, <2>8, <2>9 DEF Does
  <2> QED
    BY <2>5, <2>6, <2>7, <2>10 DEF BatchInv
<1> QED
  BY <1>6, <1>7, <1>8 DEF Admit

LEMMA Refuse_BatchInv == ASSUME BatchInv, NEW d \in Deliveries, Refuse(d) PROVE BatchInv'
<1> DEFINE r == deliveries[d]
           f == r.file
           next == [step |-> "next", todo |-> r.todo, file |-> f, waiting |-> r.waiting]
<1>1. /\ r \in DeliveryRecord /\ f \in BatchFiles /\ fileRows \in [BatchFiles -> RowRecord] /\ UNCHANGED created
  BY DEF BatchInv, Refuse, Doing, DeliveryFits
<1>2. Does(d, next)
  BY <1>1, StepIs DEF Refuse
<1>3. next \in DeliveryRecord /\ DeliveryFits(next, fileRows)
  BY <1>1 DEF DeliveryRecord, DeliveryFits
<1> HIDE DEF next
<1>4. CASE StillPending(f)
  <2>1. fileRows[f] \in RowRecord /\ fileRows[f].state \notin Made /\ fileRows' = [fileRows EXCEPT ![f].state = "error"]
    BY <1>1, <1>4 DEF StillPending, Refuse, Made
  <2>2. fileRows' \in [BatchFiles -> RowRecord] /\ fileRows'[f].state = "error"
        /\ \A g \in BatchFiles \ {f} : fileRows'[g] = fileRows[g]
    BY <1>1, <2>1 DEF RowRecord
  <2>3. \A g \in BatchFiles : fileRows'[g].state \in Made <=> fileRows[g].state \in Made
    BY <2>1, <2>2 DEF Made
  <2> QED
    BY <1>1, <1>2, <1>3, <2>2, <2>3, RowsKeep_BatchInv
<1>5. CASE ~StillPending(f)
  <2>1. UNCHANGED fileRows
    BY <1>5 DEF Refuse
  <2> QED
    BY <1>1, <1>2, <1>3, <2>1, RowsKeep_BatchInv
<1> QED
  BY <1>4, <1>5

LEMMA Send_BatchInv == ASSUME BatchInv, NEW d \in Deliveries, Send(d) PROVE BatchInv'
<1> DEFINE r == deliveries[d]
           f == r.file
           next == [step |-> "next", todo |-> r.todo, file |-> f, waiting |-> r.waiting]
<1>1. /\ r \in DeliveryRecord /\ f \in BatchFiles /\ fileRows \in [BatchFiles -> RowRecord] /\ UNCHANGED created
      /\ fileRows[f].state \in Made
  BY DEF BatchInv, Send, Doing, DeliveryFits
<1>2. Does(d, next)
  BY <1>1, StepIs DEF Send
<1>3. next \in DeliveryRecord /\ DeliveryFits(next, fileRows)
  BY <1>1 DEF DeliveryRecord, DeliveryFits
<1> HIDE DEF next
<1>4. PICK s \in {"submitted", "dispatch_error"} : fileRows' = [fileRows EXCEPT ![f].state = s]
  BY DEF Send
<1>5. /\ fileRows' \in [BatchFiles -> RowRecord] /\ fileRows'[f].state = s
      /\ \A g \in BatchFiles \ {f} : fileRows'[g] = fileRows[g]
  BY <1>1, <1>4 DEF RowRecord
<1>6. \A g \in BatchFiles : fileRows'[g].state \in Made <=> fileRows[g].state \in Made
  BY <1>1, <1>5 DEF Made
<1> QED
  BY <1>1, <1>2, <1>3, <1>5, <1>6, RowsKeep_BatchInv

LEMMA BatchNext_BatchInv == BatchInv /\ [BatchNext]_batchVars => BatchInv'
<1> SUFFICES ASSUME BatchInv, [BatchNext]_batchVars PROVE BatchInv'
  OBVIOUS
<1>1. fileRows \in [BatchFiles -> RowRecord]
  BY DEF BatchInv
<1>2. CASE \E chunk \in SUBSET BatchFiles : UploadChunk(chunk)
  BY <1>2, UploadChunk_BatchInv
<1>3. CASE UNCHANGED <<fileRows, created, deliveries>>
  BY <1>1, <1>3, RowsKeep_BatchInv
<1>4. CASE \E s \in created : JudgeEnds(s)
  BY <1>4, JudgeEnds_BatchInv
<1>5. CASE \E d \in Deliveries : Deliver(d) \/ NextRow(d) \/ Admit(d) \/ Refuse(d) \/ Send(d)
  BY <1>5, Deliver_BatchInv, NextRow_BatchInv, Admit_BatchInv, Refuse_BatchInv, Send_BatchInv
<1>6. CASE \E d \in Deliveries : DeliveryDies(d)
  BY <1>1, <1>6, IdleFits, RowsKeep_BatchInv DEF DeliveryDies, DeliveryFits
<1> QED
  BY <1>2, <1>3, <1>4, <1>5, <1>6 DEF BatchNext, SomeDelivery, DeliveryStep, StartBatch, ContestOver, batchVars

\* utils/batch_submit.py, tasks/batch_submit.py: however often a batch is started,
\* delivered or abandoned by a worker, a file becomes at most one submission, and
\* its row says whether it did.
THEOREM FilesAreSubmittedOnce == BatchSpec => []OneSubmissionPerFile
<1>1. BatchInv => OneSubmissionPerFile
  BY DEF BatchInv
<1> QED
  BY <1>1, BatchInit_BatchInv, BatchNext_BatchInv, PTL DEF BatchSpec

-----------------------------------------------------------------------------
(* Source files.                                                               *)
\* A new file is not the one of the row before the commit, and the file that is
\* cleaned up is not the one of the row after it.
WritesApart ==
  /\ writing.step = "wrote" => writing.new # 0 /\ writing.new \in sourceDisk /\ writing.new # sourcePath
                               /\ writing.old = sourcePath
  /\ writing.step = "clean" => writing.old # sourcePath
SourceInv == SourceTypeOK /\ SourceFileExists /\ WritesApart

LEMMA SourceInit_SourceInv == SourceInit => SourceInv
  BY SourceAssumption DEF SourceInit, SourceInv, SourceTypeOK, SourceFileExists, WritesApart, NoWrite

LEMMA SourceNext_SourceInv == SourceInv /\ [SourceNext]_sourceVars => SourceInv'
<1> SUFFICES ASSUME SourceInv, [SourceNext]_sourceVars PROVE SourceInv'
  OBVIOUS
<1> USE SourceAssumption DEF SourceInv, SourceTypeOK, SourceFileExists, WritesApart
<1>1. ASSUME NEW f \in 1..SourcePaths, WriteSource(f) PROVE SourceInv'
  BY <1>1 DEF WriteSource, NoWrite
<1>2. CASE CommitSource
  BY <1>2 DEF CommitSource, NoWrite
<1>3. CASE DeleteSource
  BY <1>3 DEF DeleteSource, NoWrite
<1>4. CASE CleanSource
  <2>1. writing.step = "clean" /\ writing' = NoWrite /\ UNCHANGED <<sourcePath, usedPaths>>
        /\ (sourceDisk' = sourceDisk \ {writing.old} \/ sourceDisk' = sourceDisk)
    BY <1>4 DEF CleanSource, CleanupError
  <2>2. sourceDisk' \subseteq usedPaths' /\ SourceFileExists'
    BY <2>1
  <2> QED
    BY <2>1, <2>2 DEF NoWrite
<1>5. CASE WriteFails
  <2>1. writing.step = "wrote" /\ writing' = NoWrite /\ UNCHANGED <<sourcePath, usedPaths>>
        /\ sourceDisk' = sourceDisk \ {writing.new}
    BY <1>5 DEF WriteFails
  <2>2. sourceDisk' \subseteq usedPaths' /\ SourceFileExists'
    BY <2>1
  <2> QED
    BY <2>1, <2>2 DEF NoWrite
<1>6. CASE WriterDies
  BY <1>6 DEF WriterDies, NoWrite
<1>7. CASE UNCHANGED sourceVars
  BY <1>7 DEF sourceVars
<1> QED
  BY <1>1, <1>2, <1>3, <1>4, <1>5, <1>6, <1>7 DEF SourceNext

\* utils/invocation_storage.py:24-25: whatever fails and whoever dies, a source row
\* has its file.
THEOREM SourceFilesExist == SourceSpec => []SourceFileExists
<1>1. SourceInv => SourceFileExists
  BY DEF SourceInv
<1> QED
  BY <1>1, SourceInit_SourceInv, SourceNext_SourceInv, PTL DEF SourceSpec

-----------------------------------------------------------------------------
(* Test data.                                                                  *)
\* Without late failures an edit leaves the init.yml of its archive behind, and a
\* dataset once replaced never comes back: a poll compares with the files of its
\* digest, or with newer ones.
EditIsOfArchive ==
  ~dataFaults =>
    /\ files.archive <= newest
    /\ edit.step \in {"none", "publish"} => files.init = files.archive
    /\ edit.step = "none" => dataset = files.archive
    /\ edit.step = "archive" => files.archive < edit.version
    /\ edit.step \in {"compile", "publish"} => edit.version = files.archive
    /\ edit.step # "none" => edit.version \in 1..newest
PollIsNotAhead ==
  ~dataFaults /\ poll.step # "none" =>
    /\ poll.sha.archive <= files.archive /\ poll.sha.init = poll.sha.archive
    /\ poll.sha.archive = files.archive => poll.sha = files
    /\ poll.step = "store" /\ poll.sha = files => snapshot = files
NoEditIsNone == edit.step = "none" => edit = NoEdit
DataInv ==
  /\ DataTypeOK /\ NoEditIsNone /\ GateOpensOnPublished /\ ReadyIsCurrent /\ ReadyIsUploaded
  /\ EditIsOfArchive /\ PollIsNotAhead

LEMMA DataInit_DataInv == DataInit => DataInv
<1> SUFFICES ASSUME DataInit PROVE DataInv
  OBVIOUS
<1>1. NoContent \in Contents /\ NoContent.archive = 0 /\ NoContent.init = 0
  BY DataAssumption DEF NoContent, Content, Contents
<1>2. DataTypeOK
  <2>1. NoPoll \in [step : {"none", "compare", "store"}, sha : Contents]
    BY <1>1 DEF NoPoll
  <2>2. NoEdit \in [step : {"none", "archive", "compile", "publish"}, version : 0..DataVersions]
    BY DataAssumption DEF NoEdit
  <2>3. [sha |-> NoContent, ready |-> NoContent] \in [sha : Contents, ready : Contents]
    BY <1>1
  <2>4. dataFaults \in BOOLEAN /\ isLocked \in BOOLEAN
    BY Zenon, DataAssumption DEF DataInit
  <2>5. files \in Contents /\ snapshot \in Contents
    BY <1>1, Zenon DEF DataInit
  <2>6. dataset \in 0..DataVersions /\ newest \in 0..DataVersions
    <3>1. dataset = 0 /\ newest = 0
      BY Zenon DEF DataInit
    <3> QED
      BY <3>1, DataAssumption
  <2> QED
    BY <2>1, <2>2, <2>3, <2>4, <2>5, <2>6, Zenon DEF DataInit, DataTypeOK
<1> QED
  BY <1>1, <1>2
  DEF DataInit, DataInv, NoEditIsNone, GateOpensOnPublished, ReadyIsCurrent, ReadyIsUploaded, EditIsOfArchive,
      PollIsNotAhead, NoPoll, NoEdit

LEMMA DataNext_DataInv == DataInv /\ [DataNext]_dataVars => DataInv'
<1> SUFFICES ASSUME DataInv, [DataNext]_dataVars PROVE DataInv'
  OBVIOUS
<1>0. NoContent \in Contents
  BY DataAssumption DEF NoContent, Content, Contents
<1> USE <1>0, DataAssumption
    DEF DataInv, DataTypeOK, NoEditIsNone, GateOpensOnPublished, ReadyIsCurrent, ReadyIsUploaded, EditIsOfArchive,
        PollIsNotAhead
<1>1. CASE UnlockTests
  BY <1>1 DEF UnlockTests, ClearReady
<1>2. CASE BeginEdit
  BY <1>2 DEF BeginEdit, MayEdit, NoEdit
<1>3. CASE SaveArchive
  <2>1. files' = Content(edit.version, files.init)
    BY <1>3 DEF SaveArchive, Contents, Content
  <2> QED
    BY <1>3, <2>1 DEF SaveArchive, NoEdit, Contents, Content
<1>4. CASE CompileData
  <2>1. CASE /\ files' = [files EXCEPT !.init = edit.version] /\ edit' = [edit EXCEPT !.step = "publish"]
    <3>1. files' = Content(files.archive, edit.version)
      BY <2>1 DEF Contents, Content
    <3> QED
      BY <1>4, <2>1, <3>1 DEF CompileData, NoEdit, Contents, Content
  <2>2. CASE dataFaults /\ files' = [files EXCEPT !.init = 0] /\ edit' = NoEdit
    <3>1. files' = Content(files.archive, 0)
      BY <2>2 DEF Contents, Content
    <3> QED
      BY <1>4, <2>2, <3>1 DEF CompileData, NoEdit, Contents, Content
  <2> QED
    BY <1>4, <2>1, <2>2 DEF CompileData
<1>5. CASE PublishData
  BY <1>5 DEF PublishData, NewManifest, NoEdit
<1>6. CASE EditFails
  BY <1>6 DEF EditFails, NoEdit
<1>7. CASE Upload
  BY <1>7 DEF Upload
<1>8. CASE PollReads
  BY <1>8 DEF PollReads, NoEdit
<1>9. CASE PollCompares
  BY <1>9 DEF PollCompares, NoPoll
<1>10. CASE PollStores
  BY <1>10 DEF PollStores, StillPolled, NoPoll
<1>11. CASE UNCHANGED dataVars
  BY <1>11 DEF dataVars
<1> QED
  BY <1>1, <1>2, <1>3, <1>4, <1>5, <1>6, <1>7, <1>8, <1>9, <1>10, <1>11 DEF DataNext, EditStep, PollStep

\* utils/test_data_lock.py: judging is open only on the files that were published.
THEOREM JudgingIsOnPublishedData == DataSpec => []GateOpensOnPublished
<1>1. DataInv => GateOpensOnPublished
  BY DEF DataInv
<1> QED
  BY <1>1, DataInit_DataInv, DataNext_DataInv, PTL DEF DataSpec

\* tasks/remote_data.py:38: however late a poll answers, what is acknowledged is the
\* current manifest of a problem that is open.
LEMMA AcknowledgedIsCurrent == DataSpec => []ReadyIsCurrent
<1>1. DataInv => ReadyIsCurrent
  BY DEF DataInv
<1> QED
  BY <1>1, DataInit_DataInv, DataNext_DataInv, PTL DEF DataSpec

\* While no edit fails after it wrote files, an acknowledged problem is at the storage.
LEMMA AcknowledgedIsUploaded == DataSpec => []ReadyIsUploaded
<1>1. DataInv => ReadyIsUploaded
  BY DEF DataInv
<1> QED
  BY <1>1, DataInit_DataInv, DataNext_DataInv, PTL DEF DataSpec

\* tasks/remote_data.py:38: a remote judge is only offered a problem whose current files
\* are published and, while no edit fails late, at the storage.
THEOREM AcknowledgedDataAreReady == DataSpec => []RemoteDataReady
<1>1. ReadyIsCurrent /\ ReadyIsUploaded => RemoteDataReady
  BY DEF RemoteDataReady
<1> QED
  BY <1>1, AcknowledgedIsCurrent, AcknowledgedIsUploaded, PTL

-----------------------------------------------------------------------------
(* Storage synchronisation.                                                    *)
TaskRecord ==
  [step : {"idle", "read", "renew", "fetch", "apply", "totals", "save"}, cursor : 0..FeedLength, upto : 0..FeedLength]

\* The change k is the last of the first n about problem p; 0: there is none.
IsLastChange(k, p, n) == k \in 0..n /\ (k # 0 => Feed[k] = p) /\ \A i \in (k + 1)..n : Feed[i] # p

\* A worker that waits for the service holds a lease in force, when leases do not run
\* out meanwhile; the cursor of a worker that holds the lease is that of the database.
WaitingHolds ==
  \A w \in SyncWorkers : syncTask[w].step \in {"fetch", "totals", "save"} => Holds(w) /\ lease.valid
CursorIsRead ==
  \A w \in SyncWorkers :
    Holds(w) /\ syncTask[w].step \in {"renew", "fetch", "apply", "save"} => syncTask[w].cursor = syncCursor
PageIsAhead == \A w \in SyncWorkers : syncTask[w].step = "apply" => syncTask[w].cursor <= syncTask[w].upto
SyncInv == SyncTypeOK /\ WaitingHolds /\ CursorIsRead /\ PageIsAhead /\ ProjectionMatchesCursor

LEMMA LastChangeExists ==
  ASSUME NEW p \in CatalogProblems, NEW n \in 0..FeedLength
  PROVE  IsLastChange(LastChange(p, n), p, n)
<1> DEFINE S == {k \in 0..n : k # 0 => Feed[k] = p}
<1>1. n \in Nat
  BY SyncAssumption
<1>2. IsFiniteSet(0..n)
  BY <1>1, FS_Interval
<1>3. IsFiniteSet(S)
  BY <1>2, FS_Subset
<1>4. S \in SUBSET Int /\ 0 \in S
  BY <1>1
<1>5. PICK k \in S : \A m \in S : m <= k
  <2> HIDE DEF S
  <2> QED
    BY <1>3, <1>4, GreatestExists
<1>6. IsLastChange(k, p, n)
  BY <1>1, <1>5 DEF IsLastChange
<1> QED
  BY <1>6 DEF LastChange, IsLastChange

LEMMA LastChangeIs ==
  ASSUME NEW p \in CatalogProblems, NEW n \in 0..FeedLength, NEW k, IsLastChange(k, p, n)
  PROVE  LastChange(p, n) = k
<1>1. IsLastChange(LastChange(p, n), p, n)
  BY LastChangeExists
<1> QED
  BY <1>1, SyncAssumption DEF IsLastChange

LEMMA SyncInit_SyncInv == SyncInit => SyncInv
<1> SUFFICES ASSUME SyncInit PROVE SyncInv
  OBVIOUS
<1>1. IdleTask \in TaskRecord /\ IdleTask.step = "idle"
  BY SyncAssumption DEF IdleTask, TaskRecord
<1>2. SyncTypeOK
  BY <1>1, SyncAssumption DEF SyncInit, SyncTypeOK, TaskRecord
<1>3. ASSUME NEW p \in CatalogProblems PROVE LastChange(p, 0) = 0
  BY SyncAssumption, LastChangeIs DEF IsLastChange
<1> QED
  BY <1>1, <1>2, <1>3
  DEF SyncInit, SyncInv, WaitingHolds, CursorIsRead, PageIsAhead, ProjectionMatchesCursor

\* A step of one worker that leaves the projection alone keeps the invariant when the
\* worker and the lease end up as they should be.
LEMMA OneWorker ==
  ASSUME SyncInv, NEW w \in SyncWorkers, NEW t \in TaskRecord, syncTask' = [syncTask EXCEPT ![w] = t],
         UNCHANGED <<syncCursor, projection>>, staleRows' \subseteq CatalogProblems, published' = published,
         lease' \in [owner : SyncWorkers \cup {NoWorker}, valid : BOOLEAN],
         \A v \in SyncWorkers \ {w} : Holds(v) /\ lease.valid <=> (lease'.owner = v /\ lease'.valid),
         \A v \in SyncWorkers \ {w} : lease'.owner = v => Holds(v),
         t.step \in {"fetch", "totals", "save"} => lease'.owner = w /\ lease'.valid,
         lease'.owner = w /\ t.step \in {"renew", "fetch", "apply", "save"} => t.cursor = syncCursor,
         t.step = "apply" => t.cursor <= t.upto
  PROVE  SyncInv'
<1> USE DEF SyncInv
<1>1. syncTask \in [SyncWorkers -> TaskRecord]
  BY DEF SyncTypeOK, TaskRecord
<1>2. /\ syncTask' \in [SyncWorkers -> TaskRecord] /\ syncTask'[w] = t
      /\ \A v \in SyncWorkers \ {w} : syncTask'[v] = syncTask[v]
  BY <1>1
<1>3. SyncTypeOK'
  BY <1>2 DEF SyncTypeOK, TaskRecord
<1>4. WaitingHolds'
  BY <1>2 DEF WaitingHolds, Holds
<1>5. CursorIsRead' /\ PageIsAhead'
  BY <1>2 DEF CursorIsRead, PageIsAhead, Holds
<1>6. ProjectionMatchesCursor'
  BY DEF ProjectionMatchesCursor, LastChange
<1> QED
  BY <1>3, <1>4, <1>5, <1>6

LEMMA EndSync_Lease ==
  ASSUME SyncInv, NEW w \in SyncWorkers, EndSync(w)
  PROVE  /\ IdleTask \in TaskRecord /\ IdleTask.step = "idle" /\ syncTask' = [syncTask EXCEPT ![w] = IdleTask]
         /\ lease' \in [owner : SyncWorkers \cup {NoWorker}, valid : BOOLEAN]
         /\ \A v \in SyncWorkers \ {w} : Holds(v) /\ lease.valid <=> (lease'.owner = v /\ lease'.valid)
         /\ \A v \in SyncWorkers \ {w} : lease'.owner = v => Holds(v)
<1>1. IdleTask \in TaskRecord /\ IdleTask.step = "idle"
  BY SyncAssumption DEF IdleTask, TaskRecord
<1>2. syncTask' = [syncTask EXCEPT ![w] = IdleTask]
  BY DEF EndSync
<1>3. CASE Holds(w)
  <2>1. lease' = [owner |-> NoWorker, valid |-> FALSE]
    BY <1>3 DEF EndSync
  <2> QED
    BY <1>1, <1>2, <1>3, <2>1, SyncAssumption DEF Holds
<1>4. CASE ~Holds(w)
  <2>1. lease' = lease
    BY <1>4 DEF EndSync
  <2> QED
    BY <1>1, <1>2, <2>1 DEF SyncInv, SyncTypeOK, Holds
<1> QED
  BY <1>3, <1>4

LEMMA Ends_SyncInv ==
  ASSUME SyncInv, NEW w \in SyncWorkers, EndSync(w), UNCHANGED <<syncCursor, projection, published>>,
         staleRows' \subseteq CatalogProblems
  PROVE  SyncInv'
  BY EndSync_Lease, OneWorker

\* A step of a worker that does not touch the lease.
LEMMA GoesOn_SyncInv ==
  ASSUME SyncInv, NEW w \in SyncWorkers, NEW t \in TaskRecord, syncTask' = [syncTask EXCEPT ![w] = t],
         UNCHANGED <<lease, syncCursor, projection, staleRows, published>>,
         t.step \in {"fetch", "totals", "save"} => Holds(w) /\ lease.valid,
         Holds(w) /\ t.step \in {"renew", "fetch", "apply", "save"} => t.cursor = syncCursor,
         t.step = "apply" => t.cursor <= t.upto
  PROVE  SyncInv'
<1>1. lease' \in [owner : SyncWorkers \cup {NoWorker}, valid : BOOLEAN] /\ staleRows' \subseteq CatalogProblems
  BY DEF SyncInv, SyncTypeOK
<1>2. \A v \in SyncWorkers : Holds(v) <=> lease'.owner = v
  BY DEF Holds
<1> QED
  BY <1>1, <1>2, OneWorker

LEMMA AcquireLease_SyncInv == ASSUME SyncInv, NEW w \in SyncWorkers, AcquireLease(w) PROVE SyncInv'
<1>1. syncTask[w] \in TaskRecord /\ syncTask \in [SyncWorkers -> TaskRecord] /\ staleRows' \subseteq CatalogProblems
  BY DEF SyncInv, SyncTypeOK, TaskRecord, AcquireLease
<1> DEFINE t == [step |-> "read", cursor |-> syncTask[w].cursor, upto |-> syncTask[w].upto]
<1>2. t \in TaskRecord /\ t.step = "read"
  BY <1>1 DEF TaskRecord
<1>3. syncTask' = [syncTask EXCEPT ![w] = t]
  <2>1. [syncTask[w] EXCEPT !.step = "read"] = t
    BY <1>1 DEF TaskRecord
  <2> HIDE DEF t
  <2> QED
    BY <1>1, <2>1 DEF AcquireLease, GoTo
<1> HIDE DEF t
<1>4. lease.owner = NoWorker \/ ~lease.valid
  BY DEF AcquireLease
<1>5. lease' = [owner |-> w, valid |-> TRUE] /\ UNCHANGED <<syncCursor, projection, staleRows, published>>
  BY DEF AcquireLease
<1>6. /\ lease' \in [owner : SyncWorkers \cup {NoWorker}, valid : BOOLEAN]
      /\ lease'.owner = w
      /\ \A v \in SyncWorkers \ {w} : ~(Holds(v) /\ lease.valid) /\ lease'.owner # v
  BY <1>4, <1>5, SyncAssumption DEF Holds
<1> QED
  BY <1>1, <1>2, <1>3, <1>5, <1>6, OneWorker

LEMMA ReadCursor_SyncInv == ASSUME SyncInv, NEW w \in SyncWorkers, ReadCursor(w) PROVE SyncInv'
<1> DEFINE t == [step |-> "renew", cursor |-> syncCursor, upto |-> syncCursor]
<1>1. t \in TaskRecord /\ t.step = "renew" /\ t.cursor = syncCursor
  BY DEF SyncInv, SyncTypeOK, TaskRecord
<1>2. syncTask' = [syncTask EXCEPT ![w] = t] /\ UNCHANGED <<lease, syncCursor, projection, staleRows, published>>
  BY DEF ReadCursor
<1> HIDE DEF t
<1> QED
  BY <1>1, <1>2, GoesOn_SyncInv

LEMMA RenewLease_SyncInv == ASSUME SyncInv, NEW w \in SyncWorkers, RenewLease(w) PROVE SyncInv'
<1>1. /\ syncTask[w].step = "renew" /\ UNCHANGED <<syncCursor, projection, staleRows, published>>
      /\ syncTask[w] \in TaskRecord /\ syncTask \in [SyncWorkers -> TaskRecord] /\ staleRows' \subseteq CatalogProblems
      /\ lease \in [owner : SyncWorkers \cup {NoWorker}, valid : BOOLEAN]
  BY DEF SyncInv, SyncTypeOK, TaskRecord, RenewLease, At
<1>2. CASE ~Holds(w)
  <2>1. EndSync(w)
    BY <1>2 DEF RenewLease
  <2> QED
    BY <1>1, <2>1, Ends_SyncInv
<1>3. CASE Holds(w)
  <2> DEFINE t == [step |-> "fetch", cursor |-> syncTask[w].cursor, upto |-> syncTask[w].upto]
  <2>1. t \in TaskRecord /\ t.step = "fetch" /\ t.cursor = syncCursor
    BY <1>1, <1>3 DEF TaskRecord, SyncInv, CursorIsRead
  <2>2. [syncTask[w] EXCEPT !.step = "fetch"] = t
    BY <1>1 DEF TaskRecord
  <2>3. lease' = [lease EXCEPT !.valid = TRUE] /\ GoTo(w, "fetch")
    BY <1>3 DEF RenewLease
  <2> HIDE DEF t
  <2>4. syncTask' = [syncTask EXCEPT ![w] = t]
    BY <1>1, <2>2, <2>3 DEF GoTo
  <2>5. lease' = [owner |-> w, valid |-> TRUE]
    BY <1>1, <1>3, <2>3 DEF Holds
  <2>6. /\ lease' \in [owner : SyncWorkers \cup {NoWorker}, valid : BOOLEAN]
        /\ lease'.owner = w /\ lease'.valid
        /\ \A v \in SyncWorkers \ {w} : ~Holds(v) /\ lease'.owner # v
    BY <1>3, <2>5 DEF Holds
  <2> QED
    BY <1>1, <2>1, <2>4, <2>6, OneWorker
<1> QED
  BY <1>2, <1>3

LEMMA FetchPage_SyncInv == ASSUME SyncInv, NEW w \in SyncWorkers, FetchPage(w) PROVE SyncInv'
<1>1. /\ syncTask[w].step = "fetch" /\ UNCHANGED <<syncCursor, projection, published>>
      /\ syncTask[w] \in TaskRecord /\ syncTask \in [SyncWorkers -> TaskRecord] /\ staleRows \subseteq CatalogProblems
      /\ published \in 0..FeedLength
  BY DEF SyncInv, SyncTypeOK, TaskRecord, FetchPage, At
<1>2. Holds(w) /\ lease.valid /\ syncTask[w].cursor = syncCursor /\ syncTask[w].cursor \in 0..FeedLength
  BY <1>1 DEF SyncInv, WaitingHolds, CursorIsRead, TaskRecord
<1>3. ASSUME NEW n \in (syncTask[w].cursor + 1)..published,
             syncTask' = [syncTask EXCEPT ![w] = [step |-> "apply", cursor |-> @.cursor, upto |-> n]],
             UNCHANGED <<lease, staleRows>>
      PROVE  SyncInv'
  <2> DEFINE t == [step |-> "apply", cursor |-> syncTask[w].cursor, upto |-> n]
  <2>1. n \in 0..FeedLength /\ syncTask[w].cursor <= n
    BY <1>1, <1>2, SyncAssumption
  <2>2. t \in TaskRecord /\ t.step = "apply" /\ t.cursor = syncCursor /\ t.cursor <= t.upto
    BY <1>2, <2>1 DEF TaskRecord
  <2>3. syncTask' = [syncTask EXCEPT ![w] = t]
    BY <1>3
  <2> HIDE DEF t
  <2> QED
    BY <1>1, <1>3, <2>2, <2>3, GoesOn_SyncInv
<1>4. CASE GoTo(w, "totals") /\ UNCHANGED <<lease, staleRows>>
  <2> DEFINE t == [step |-> "totals", cursor |-> syncTask[w].cursor, upto |-> syncTask[w].upto]
  <2>1. t \in TaskRecord /\ t.step = "totals"
    BY <1>1 DEF TaskRecord
  <2>2. [syncTask[w] EXCEPT !.step = "totals"] = t
    BY <1>1 DEF TaskRecord
  <2> HIDE DEF t
  <2>3. syncTask' = [syncTask EXCEPT ![w] = t]
    BY <1>1, <1>4, <2>2 DEF GoTo
  <2> QED
    BY <1>1, <1>2, <1>4, <2>1, <2>3, GoesOn_SyncInv
<1>5. CASE EndSync(w) /\ staleRows' \in {staleRows, CatalogProblems}
  BY <1>1, <1>5, Ends_SyncInv
<1> QED
  BY <1>1, <1>3, <1>4, <1>5 DEF FetchPage

LEMMA ApplyPage_SyncInv == ASSUME SyncInv, NEW w \in SyncWorkers, ApplyPage(w) PROVE SyncInv'
<1> DEFINE c == syncTask[w].cursor
           n == syncTask[w].upto
           touched == {p \in CatalogProblems : Applied(c, n, p) # {}}
           LastApplied(p) == CHOOSE k \in Applied(c, n, p) : \A i \in Applied(c, n, p) : i <= k
<1>1. /\ syncTask[w].step = "apply" /\ published' = published
      /\ syncTask[w] \in TaskRecord /\ syncTask \in [SyncWorkers -> TaskRecord] /\ staleRows \subseteq CatalogProblems
  BY DEF SyncInv, SyncTypeOK, TaskRecord, ApplyPage, At
<1>2. c \in 0..FeedLength /\ n \in 0..FeedLength /\ c <= n
  BY <1>1 DEF TaskRecord, SyncInv, PageIsAhead
<1>3. CASE ~AssertLease(w) /\ EndSync(w) /\ UNCHANGED <<projection, staleRows, syncCursor>>
  BY <1>1, <1>3, Ends_SyncInv
<1>4. CASE /\ AssertLease(w) /\ projection' = [p \in CatalogProblems |-> IF p \in touched THEN LastApplied(p) ELSE projection[p]]
           /\ staleRows' = staleRows \ touched /\ syncCursor' = n /\ UNCHANGED lease
           /\ \E step \in {"renew", "totals"} :
                syncTask' = [syncTask EXCEPT ![w] = [step |-> step, cursor |-> n, upto |-> n]]
  <2>1. Holds(w) /\ lease.valid /\ c = syncCursor
    BY <1>1, <1>4 DEF AssertLease, SyncInv, CursorIsRead
  <2>2. ASSUME NEW p \in CatalogProblems
        PROVE  IsLastChange(projection'[p], p, n)
    <3>1. IsLastChange(projection[p], p, c)
      BY <2>1, <1>2, LastChangeExists DEF SyncInv, ProjectionMatchesCursor
    <3>2. CASE p \notin touched
      <4>1. projection'[p] = projection[p] /\ \A i \in (c + 1)..n : Feed[i] # p
        BY <1>4, <3>2 DEF Applied
      <4> QED
        BY <1>2, <3>1, <4>1 DEF IsLastChange
    <3>3. CASE p \in touched
      <4> DEFINE S == Applied(c, n, p)
      <4>1. IsFiniteSet(S) /\ S \in SUBSET Int /\ S # {}
        <5>0. c + 1 \in Int /\ n \in Int
          BY <1>2
        <5>1. IsFiniteSet((c + 1)..n)
          BY <5>0, FS_Interval
        <5> QED
          BY <1>2, <3>3, <5>1, FS_Subset DEF Applied
      <4>2. \E k \in S : \A i \in S : i <= k
        <5> HIDE DEF S
        <5> QED
          BY <4>1, GreatestExists
      <4>3. LastApplied(p) \in S /\ \A i \in S : i <= LastApplied(p)
        BY <4>2
      <4>4. projection'[p] = LastApplied(p)
        BY <1>4, <3>3
      <4> HIDE DEF LastApplied
      <4>5. \A i \in (LastApplied(p) + 1)..n : Feed[i] # p
        <5>1. SUFFICES ASSUME NEW i \in (LastApplied(p) + 1)..n, Feed[i] = p PROVE FALSE
          OBVIOUS
        <5>2. LastApplied(p) \in (c + 1)..n
          BY <4>3 DEF Applied
        <5>3. i \in S
          BY <1>2, <5>1, <5>2 DEF Applied
        <5> QED
          BY <1>2, <4>3, <5>1, <5>2, <5>3
      <4> QED
        BY <1>2, <4>3, <4>4, <4>5 DEF IsLastChange, Applied
    <3> QED
      BY <3>2, <3>3
  <2>3. ProjectionMatchesCursor'
    <3>1. ASSUME NEW p \in CatalogProblems PROVE projection'[p] = LastChange(p, n)
      BY <1>2, <2>2, LastChangeIs
    <3> QED
      BY <1>4, <3>1 DEF ProjectionMatchesCursor, LastChange
  <2>4. PICK step \in {"renew", "totals"} : syncTask' = [syncTask EXCEPT ![w] = [step |-> step, cursor |-> n, upto |-> n]]
    BY <1>4
  <2> DEFINE t == [step |-> step, cursor |-> n, upto |-> n]
  <2>5. t \in TaskRecord /\ t.step \in {"renew", "totals"} /\ t.cursor = n
    BY <1>2 DEF TaskRecord
  <2> HIDE DEF t
  <2>6. /\ syncTask' \in [SyncWorkers -> TaskRecord] /\ syncTask'[w] = t
        /\ \A v \in SyncWorkers \ {w} : syncTask'[v] = syncTask[v]
    BY <1>1, <2>4, <2>5 DEF t
  <2>7. projection' \in [CatalogProblems -> 0..FeedLength]
    <3>1. ASSUME NEW p \in CatalogProblems PROVE projection'[p] \in 0..FeedLength
      <4>1. projection'[p] \in 0..n
        BY <2>2 DEF IsLastChange
      <4> QED
        BY <1>2, <4>1, SyncAssumption
    <3> QED
      BY <1>4, <3>1
  <2>8. SyncTypeOK'
    BY <1>1, <1>2, <1>4, <2>6, <2>7 DEF SyncInv, SyncTypeOK, TaskRecord
  <2>9. \A v \in SyncWorkers \ {w} : ~Holds(v)
    BY <2>1 DEF Holds
  <2>10. WaitingHolds'
    BY <1>4, <2>1, <2>5, <2>6 DEF SyncInv, WaitingHolds, Holds
  <2>11. CursorIsRead' /\ PageIsAhead'
    BY <1>4, <2>1, <2>5, <2>6, <2>9 DEF SyncInv, CursorIsRead, PageIsAhead, Holds
  <2> QED
    BY <2>3, <2>8, <2>10, <2>11 DEF SyncInv
<1> QED
  BY <1>3, <1>4 DEF ApplyPage

LEMMA ReadStatus_SyncInv == ASSUME SyncInv, NEW w \in SyncWorkers, ReadStatus(w) PROVE SyncInv'
<1>1. syncTask[w] \in TaskRecord /\ syncTask[w].step = "totals"
  BY DEF SyncInv, SyncTypeOK, TaskRecord, ReadStatus, At
<1>2. Holds(w) /\ lease.valid /\ syncCursor \in 0..FeedLength
  BY <1>1 DEF SyncInv, SyncTypeOK, WaitingHolds
<1> DEFINE t == [step |-> "save", cursor |-> syncCursor, upto |-> syncTask[w].upto]
<1>3. t \in TaskRecord /\ t.step = "save" /\ t.cursor = syncCursor
  BY <1>1, <1>2 DEF TaskRecord
<1>4. syncTask' = [syncTask EXCEPT ![w] = t] /\ UNCHANGED <<lease, syncCursor, projection, staleRows, published>>
  BY DEF ReadStatus
<1> HIDE DEF t
<1> QED
  BY <1>2, <1>3, <1>4, GoesOn_SyncInv

\* The cursor that is saved with the status row is the one in the database.
LEMMA SaveStatus_SyncInv == ASSUME SyncInv, NEW w \in SyncWorkers, SaveStatus(w) PROVE SyncInv'
<1>1. syncTask[w].step = "save" /\ EndSync(w) /\ syncCursor' = syncTask[w].cursor
      /\ UNCHANGED <<projection, staleRows, published>>
  BY DEF SaveStatus, At
<1>2. syncCursor' = syncCursor
  BY <1>1 DEF SyncInv, WaitingHolds, CursorIsRead
<1>3. staleRows' \subseteq CatalogProblems
  BY <1>1 DEF SyncInv, SyncTypeOK
<1> QED
  BY <1>1, <1>2, <1>3, Ends_SyncInv

LEMMA SyncWorkerDies_SyncInv == ASSUME SyncInv, NEW w \in SyncWorkers, SyncWorkerDies(w) PROVE SyncInv'
<1>1. syncTask' = [syncTask EXCEPT ![w] = IdleTask] /\ UNCHANGED <<lease, syncCursor, projection, staleRows, published>>
  BY DEF SyncWorkerDies
<1>2. IdleTask \in TaskRecord /\ IdleTask.step = "idle"
  BY SyncAssumption DEF IdleTask, TaskRecord
<1> QED
  BY <1>1, <1>2, GoesOn_SyncInv

LEMMA LeaseRunsOut_SyncInv == ASSUME SyncInv, ~Overruns, LeaseRunsOut PROVE SyncInv'
<1>1. /\ lease' = [lease EXCEPT !.valid = FALSE] /\ UNCHANGED <<syncCursor, projection, staleRows, published, syncTask>>
      /\ \A w \in SyncWorkers : Holds(w) => syncTask[w].step \notin {"fetch", "totals", "save"}
  BY DEF LeaseRunsOut
<1>2. lease \in [owner : SyncWorkers \cup {NoWorker}, valid : BOOLEAN]
  BY DEF SyncInv, SyncTypeOK
<1>3. lease' \in [owner : SyncWorkers \cup {NoWorker}, valid : BOOLEAN] /\ lease'.owner = lease.owner
  BY <1>1, <1>2
<1>4. SyncTypeOK'
  BY <1>1, <1>3 DEF SyncInv, SyncTypeOK
<1>5. WaitingHolds'
  BY <1>1 DEF SyncInv, WaitingHolds
<1>6. CursorIsRead' /\ PageIsAhead' /\ ProjectionMatchesCursor'
  BY <1>1, <1>3 DEF SyncInv, CursorIsRead, PageIsAhead, ProjectionMatchesCursor, LastChange, Holds
<1> QED
  BY <1>4, <1>5, <1>6 DEF SyncInv

LEMMA SyncNext_SyncInv == ~Overruns /\ SyncInv /\ [SyncNext]_syncVars => SyncInv'
<1> SUFFICES ASSUME ~Overruns, SyncInv, [SyncNext]_syncVars PROVE SyncInv'
  OBVIOUS
<1>1. ASSUME NEW w \in SyncWorkers, SyncStep(w) PROVE SyncInv'
  BY <1>1, AcquireLease_SyncInv, ReadCursor_SyncInv, RenewLease_SyncInv, FetchPage_SyncInv, ApplyPage_SyncInv,
     ReadStatus_SyncInv, SaveStatus_SyncInv DEF SyncStep
<1>2. ASSUME NEW w \in SyncWorkers, SyncWorkerDies(w) PROVE SyncInv'
  BY <1>2, SyncWorkerDies_SyncInv
<1>3. CASE PublishChange
  BY <1>3, SyncAssumption
  DEF PublishChange, SyncInv, SyncTypeOK, WaitingHolds, CursorIsRead, PageIsAhead, ProjectionMatchesCursor, LastChange, Holds
<1>4. CASE LeaseRunsOut
  BY <1>4, LeaseRunsOut_SyncInv
<1>5. CASE UNCHANGED syncVars
  BY <1>5 DEF syncVars, SyncInv, SyncTypeOK, WaitingHolds, CursorIsRead, PageIsAhead, ProjectionMatchesCursor,
              LastChange, Holds
<1> QED
  BY <1>1, <1>2, <1>3, <1>4, <1>5 DEF SyncNext

\* The docstring of storage_sync_catalog (tasks/storage.py:50-51), as long as no lease
\* runs out while its holder waits for the service: the projection is exactly that of
\* the changes before the cursor, whoever applied them and whoever died.
THEOREM ProjectionIsOfCursor ==
  ASSUME Overruns = FALSE
  PROVE  SyncSpec => []ProjectionMatchesCursor
<1>1. SyncInv => ProjectionMatchesCursor
  BY DEF SyncInv
<1>2. SyncInv /\ [SyncNext]_syncVars => SyncInv'
  BY SyncNext_SyncInv
<1> QED
  BY <1>1, <1>2, SyncInit_SyncInv, PTL DEF SyncSpec

\* Under the same assumption only a batch moves the cursor: the row that is saved with
\* the totals holds the cursor that is there (tasks/storage.py:50-51).
THEOREM OnlyBatchesMoveTheCursor ==
  ASSUME Overruns = FALSE
  PROVE  SyncSpec => CursorMovesWithBatch
<1>1. SyncInv /\ [SyncNext]_syncVars => SyncInv'
  BY SyncNext_SyncInv
<1>2. SyncInv /\ [SyncNext]_syncVars => [syncCursor' # syncCursor => \E w \in SyncWorkers : ApplyPage(w)]_syncVars
  <2>1. SUFFICES ASSUME SyncInv, SyncNext, syncCursor' # syncCursor
                 PROVE  \E w \in SyncWorkers : ApplyPage(w)
    BY DEF syncVars
  <2>2. ASSUME NEW w \in SyncWorkers, SaveStatus(w) PROVE FALSE
    BY <2>1, <2>2 DEF SaveStatus, At, SyncInv, WaitingHolds, CursorIsRead
  <2> QED
    BY <2>1, <2>2
    DEF SyncNext, SyncStep, AcquireLease, ReadCursor, RenewLease, FetchPage, ReadStatus, SyncWorkerDies,
        PublishChange, LeaseRunsOut
<1> QED
  BY <1>1, <1>2, SyncInit_SyncInv, PTL DEF SyncSpec, CursorMovesWithBatch

-----------------------------------------------------------------------------
(* ContestScoring.                                                             *)
Entry == [prob : ContestProblems, date : 1..WindowEnd, result : Results, points : 0..FullPoints,
          running : BOOLEAN, again : BOOLEAN]
Unscored == {"none", "IE", "CE"}
\* F is E after submissions came, or ended without a score.
Later(E, F) ==
  /\ \A i \in DOMAIN E :
       /\ i \in DOMAIN F
       /\ E[i].prob = F[i].prob /\ E[i].date = F[i].date /\ E[i].points = F[i].points
       /\ E[i].result \in Unscored <=> F[i].result \in Unscored
  /\ \A i \in DOMAIN F \ DOMAIN E : F[i].points = 0 /\ F[i].result \in Unscored /\ \A j \in DOMAIN E : j < i
\* What has the shape of a list of entries: the list itself, or a part of it.
Listing(E) ==
  /\ DOMAIN E \subseteq Nat \ {0} /\ IsFiniteSet(DOMAIN E)
  /\ \A i \in DOMAIN E :
       E[i].prob \in ContestProblems /\ E[i].date \in Nat /\ E[i].points \in Nat

LEMMA ListingFacts ==
  ASSUME NEW E, Listing(E), NEW p, Of(E, p) # {}
  PROVE  /\ Best(E, p) \in Nat /\ FirstBest(E, p) \in Nat
         /\ \A i \in Of(E, p) : E[i].points <= Best(E, p)
         /\ \A i \in Of(E, p) : E[i].points = Best(E, p) => FirstBest(E, p) <= E[i].date
         /\ \E i \in Of(E, p) : E[i].points = Best(E, p) /\ E[i].date = FirstBest(E, p)
<1> DEFINE points == [i \in Of(E, p) |-> E[i].points]
           S == {points[i] : i \in DOMAIN points}
           D == {E[i].date : i \in {k \in Of(E, p) : E[k].points = Best(E, p)}}
<1>1. Of(E, p) \subseteq DOMAIN E /\ IsFiniteSet(Of(E, p))
  BY FS_Subset DEF Of, Listing
<1>2. IsFiniteSet(S)
  BY <1>1, FiniteImage
<1>3. S = {E[i].points : i \in Of(E, p)} /\ S \in SUBSET Nat /\ S # {}
  BY <1>1 DEF Listing
<1>4. Best(E, p) = Max(S)
  BY <1>3 DEF Best
<1>5. Best(E, p) \in S /\ \A n \in S : n <= Best(E, p)
  <2> HIDE DEF S
  <2>1. S \in SUBSET Int
    BY <1>3
  <2> QED
    BY <1>2, <1>3, <1>4, <2>1, MaxFacts
<1>6. /\ \A i \in Of(E, p) : E[i].points <= Best(E, p)
      /\ \E i \in Of(E, p) : E[i].points = Best(E, p)
      /\ Best(E, p) \in Nat
  BY <1>3, <1>5
<1>7. D \in SUBSET Nat /\ D # {}
  BY <1>1, <1>6 DEF Listing
<1>8. FirstBest(E, p) \in D /\ \A n \in D : FirstBest(E, p) <= n
  <2>1. FirstBest(E, p) = Min(D)
    BY DEF FirstBest
  <2> HIDE DEF D
  <2> QED
    BY <1>7, <2>1, MinFacts
<1> QED
  BY <1>6, <1>7, <1>8

\* What decides the best points of a problem and their date.
LEMMA BestIs ==
  ASSUME NEW E, Listing(E), NEW p, NEW i \in Of(E, p), NEW b, E[i].points = b,
         \A k \in Of(E, p) : E[k].points <= b /\ (E[k].points = b => E[i].date <= E[k].date)
  PROVE  Best(E, p) = b /\ FirstBest(E, p) = E[i].date
<1>1. i \in DOMAIN E /\ b \in Nat /\ E[i].date \in Nat
  BY DEF Of, Listing
<1>2. Best(E, p) = b
  <2>1. PICK k \in Of(E, p) : E[k].points = Best(E, p)
    BY ListingFacts
  <2>2. Best(E, p) \in Nat /\ b <= Best(E, p) /\ Best(E, p) <= b
    BY <2>1, ListingFacts
  <2> QED
    BY <1>1, <2>2
<1>3. FirstBest(E, p) = E[i].date
  <2>1. PICK k \in Of(E, p) : E[k].points = Best(E, p) /\ E[k].date = FirstBest(E, p)
    BY ListingFacts
  <2>2. FirstBest(E, p) \in Nat /\ FirstBest(E, p) <= E[i].date /\ E[i].date <= FirstBest(E, p)
    BY <1>2, <2>1, ListingFacts
  <2> QED
    BY <1>1, <2>2
<1> QED
  BY <1>2, <1>3

\* Rows are made of the scored problems.
LEMMA SameRows ==
  ASSUME NEW E, NEW F, NEW P, P = Scored(E), P = Scored(F),
         \A p \in P : Best(E, p) = Best(F, p) /\ FirstBest(E, p) = FirstBest(F, p) /\ Tries(E, p) = Tries(F, p)
  PROVE  /\ ICPC(E) = ICPC(F) /\ ICPCFrozen(E) = ICPCFrozen(F) /\ AtCoder(E) = AtCoder(F)
         /\ \A lso \in BOOLEAN : VNOJ(E, lso) = VNOJ(F, lso)
         /\ LegacyIOI(E) = LegacyIOI(F)
<1>1. BestTotal(E) = BestTotal(F) /\ MaxTime(E) = MaxTime(F)
  <2>1. [p \in P |-> Best(E, p)] = [p \in P |-> Best(F, p)]
    OBVIOUS
  <2>2. {FirstBest(E, p) : p \in P} = {FirstBest(F, p) : p \in P}
    OBVIOUS
  <2> QED
    BY <2>1, <2>2 DEF BestTotal, TotalOf, MaxTime
<1>2. ASSUME NEW Q \in SUBSET P
      PROVE  TimeOf(E, Q) = TimeOf(F, Q) /\ PenaltyOf(E, Q) = PenaltyOf(F, Q)
  <2>1. [p \in Q |-> FirstBest(E, p)] = [p \in Q |-> FirstBest(F, p)]
    OBVIOUS
  <2>2. [p \in Q |-> (Tries(E, p) - 1) * Penalty] = [p \in Q |-> (Tries(F, p) - 1) * Penalty]
    OBVIOUS
  <2> QED
    BY <2>1, <2>2 DEF TimeOf, PenaltyOf, TotalOf
<1>3. BeforeFreeze(E) = BeforeFreeze(F) /\ BeforeFreeze(E) \in SUBSET P
  BY DEF BeforeFreeze
<1>4. ICPCFrozen(E) = ICPCFrozen(F)
  <2> DEFINE Q == BeforeFreeze(E)
  <2>1. [p \in Q |-> Best(E, p)] = [p \in Q |-> Best(F, p)] /\ {FirstBest(E, p) : p \in Q} = {FirstBest(F, p) : p \in Q}
    BY <1>3
  <2> QED
    BY <1>2, <1>3, <2>1 DEF ICPCFrozen, TotalOf
<1> QED
  BY <1>1, <1>2, <1>4 DEF ICPC, AtCoder, VNOJ, LegacyIOI

LEMMA LaterScored ==
  ASSUME NEW E, NEW F, Listing(E), Listing(F), Later(E, F), NEW p
  PROVE  /\ p \in Scored(E) <=> p \in Scored(F)
         /\ p \in Scored(F) => Best(E, p) = Best(F, p) /\ FirstBest(E, p) = FirstBest(F, p) /\ Tries(E, p) = Tries(F, p)
<1>1. /\ Of(E, p) \subseteq Of(F, p)
      /\ \A i \in Of(E, p) : E[i].points = F[i].points /\ E[i].date = F[i].date
      /\ \A i \in Of(F, p) \ Of(E, p) : i \notin DOMAIN E /\ F[i].points = 0 /\ F[i].result \in Unscored
  BY DEF Later, Of
<1>2. ASSUME p \in Scored(E)
      PROVE  p \in Scored(F) /\ Best(E, p) = Best(F, p) /\ FirstBest(E, p) = FirstBest(F, p)
  <2>1. Of(E, p) # {} /\ Best(E, p) > 0
    BY <1>2 DEF Scored, Tried
  <2>2. PICK i \in Of(E, p) : E[i].points = Best(E, p) /\ E[i].date = FirstBest(E, p)
    BY <2>1, ListingFacts
  <2>3. \A k \in Of(F, p) : F[k].points <= Best(E, p) /\ (F[k].points = Best(E, p) => F[i].date <= F[k].date)
    <3> SUFFICES ASSUME NEW k \in Of(F, p)
                 PROVE  F[k].points <= Best(E, p) /\ (F[k].points = Best(E, p) => F[i].date <= F[k].date)
      OBVIOUS
    <3>1. CASE k \in Of(E, p)
      BY <1>1, <2>1, <2>2, <3>1, ListingFacts
    <3>2. CASE k \notin Of(E, p)
      BY <1>1, <2>1, <3>2, ListingFacts
    <3> QED
      BY <3>1, <3>2
  <2>4. i \in Of(F, p) /\ F[i].points = Best(E, p) /\ F[i].date = FirstBest(E, p)
    BY <1>1, <2>2
  <2>5. Best(F, p) = Best(E, p) /\ FirstBest(F, p) = FirstBest(E, p)
    BY <2>3, <2>4, BestIs
  <2> QED
    BY <1>2, <2>1, <2>4, <2>5 DEF Scored, Tried
<1>3. ASSUME p \in Scored(F) PROVE p \in Scored(E)
  <2>1. Of(F, p) # {} /\ Best(F, p) > 0 /\ p \in ContestProblems
    BY <1>3 DEF Scored, Tried
  <2>2. PICK i \in Of(F, p) : F[i].points = Best(F, p)
    BY <2>1, ListingFacts
  <2>3. i \in Of(E, p) /\ E[i].points = Best(F, p)
    BY <1>1, <2>1, <2>2
  <2>4. Best(E, p) > 0
    <3>1. Best(E, p) \in Nat /\ E[i].points <= Best(E, p) /\ Best(F, p) \in Nat
      BY <2>1, <2>3, ListingFacts
    <3> QED
      BY <2>1, <2>3, <3>1
  <2> QED
    BY <2>1, <2>3, <2>4 DEF Scored, Tried
<1>4. ASSUME FirstBest(E, p) = FirstBest(F, p) PROVE Tries(E, p) = Tries(F, p)
  <2>1. {i \in Of(E, p) : E[i].result \notin {"none", "IE", "CE"} /\ E[i].date <= FirstBest(E, p)}
          = {i \in Of(F, p) : F[i].result \notin {"none", "IE", "CE"} /\ F[i].date <= FirstBest(F, p)}
    BY <1>1, <1>4 DEF Later, Unscored, Of
  <2> QED
    BY <2>1 DEF Tries
<1> QED
  BY <1>2, <1>3, <1>4

LEMMA LaterVOI ==
  ASSUME NEW E, NEW F, Listing(E), Listing(F), Later(E, F)
  PROVE  VOI(E) = VOI(F)
<1> DEFINE first(G, p) == G[Min(Of(G, p))]
           P(G) == {p \in Tried(G) : first(G, p).points > 0}
<1>1. ASSUME NEW p, Of(E, p) # {}
      PROVE  Min(Of(E, p)) = Min(Of(F, p)) /\ Min(Of(E, p)) \in Of(E, p)
  <2>1. Of(E, p) \in SUBSET Nat /\ Of(F, p) \in SUBSET Int
    BY DEF Of, Listing
  <2>2. Min(Of(E, p)) \in Of(E, p) /\ \A i \in Of(E, p) : Min(Of(E, p)) <= i
    BY <1>1, <2>1, MinFacts
  <2>3. Min(Of(E, p)) \in Of(F, p) /\ \A i \in Of(F, p) : Min(Of(E, p)) <= i
    <3>1. \A i \in Of(F, p) : i \in Of(E, p) \/ \A j \in DOMAIN E : j < i
      BY DEF Later, Of
    <3>2. Min(Of(E, p)) \in DOMAIN E /\ Min(Of(E, p)) \in Of(F, p)
      BY <2>2 DEF Later, Of
    <3>3. \A i \in Of(F, p) : Min(Of(E, p)) <= i
      BY <2>1, <2>2, <3>1, <3>2
    <3> QED
      BY <3>2, <3>3
  <2>4. Min(Of(F, p)) = Min(Of(E, p))
    BY <2>1, <2>3, MinIs
  <2> QED
    BY <2>2, <2>4
<1>2. ASSUME NEW p, Of(E, p) # {}
      PROVE  first(E, p).points = first(F, p).points /\ first(E, p).date = first(F, p).date /\ Of(F, p) # {}
  <2>1. Min(Of(E, p)) \in DOMAIN E
    BY <1>2, <1>1 DEF Of
  <2>2. Min(Of(F, p)) = Min(Of(E, p)) /\ Of(F, p) # {}
    <3>1. Of(E, p) \subseteq Of(F, p)
      BY DEF Later, Of
    <3> QED
      BY <1>2, <1>1, <3>1
  <2> QED
    BY <2>1, <2>2 DEF Later
<1>3. ASSUME NEW p, Of(E, p) = {}, Of(F, p) # {} PROVE first(F, p).points = 0
  <2>1. Of(F, p) \in SUBSET Nat
    BY DEF Of, Listing
  <2>2. Min(Of(F, p)) \in Of(F, p)
    BY <1>3, <2>1, MinFacts
  <2> QED
    BY <1>3, <2>2 DEF Later, Of
<1> HIDE DEF first
<1>4. P(E) = P(F)
  BY <1>2, <1>3 DEF Tried
<1>5. \A p \in P(E) : first(E, p).points = first(F, p).points /\ first(E, p).date = first(F, p).date
  BY <1>2 DEF Tried
<1>6. VOI(E) = [score |-> TotalOf(LAMBDA p : first(E, p).points, P(E)), cumtime |-> TotalOf(LAMBDA p : first(E, p).date, P(E))]
  BY DEF VOI, first
<1>7. VOI(F) = [score |-> TotalOf(LAMBDA p : first(F, p).points, P(F)), cumtime |-> TotalOf(LAMBDA p : first(F, p).date, P(F))]
  BY DEF VOI, first
<1> HIDE DEF P
<1>8. /\ [p \in P(E) |-> first(E, p).points] = [p \in P(E) |-> first(F, p).points]
      /\ [p \in P(E) |-> first(E, p).date] = [p \in P(E) |-> first(F, p).date]
  BY <1>5
<1> QED
  BY <1>4, <1>6, <1>7, <1>8 DEF TotalOf

LEMMA LaterRows ==
  ASSUME NEW E, NEW F, Listing(E), Listing(F), Later(E, F)
  PROVE  Rows(E) = Rows(F)
<1>1. Scored(E) = Scored(F)
  BY LaterScored DEF Scored
<1>2. \A p \in Scored(E) : Best(E, p) = Best(F, p) /\ FirstBest(E, p) = FirstBest(F, p) /\ Tries(E, p) = Tries(F, p)
  BY <1>1, LaterScored
<1>3. /\ ICPC(E) = ICPC(F) /\ ICPCFrozen(E) = ICPCFrozen(F) /\ AtCoder(E) = AtCoder(F)
      /\ \A lso \in BOOLEAN : VNOJ(E, lso) = VNOJ(F, lso)
      /\ LegacyIOI(E) = LegacyIOI(F)
  <2> DEFINE P == Scored(E)
  <2>1. P = Scored(E) /\ P = Scored(F)
    BY <1>1
  <2> HIDE DEF P
  <2> QED
    BY <1>2, <2>1, SameRows
<1>4. VNOJ(E, TRUE) = VNOJ(F, TRUE) /\ VNOJ(E, FALSE) = VNOJ(F, FALSE)
  BY <1>3
<1>5. VOI(E) = VOI(F)
  BY LaterVOI
<1> QED
  BY <1>3, <1>4, <1>5 DEF Rows

ScoreInv ==
  /\ entries \in Seq(Entry) /\ board \in Seq(Entry)
  /\ updates \subseteq [entry : Nat, points : 0..FullPoints, step : {"points", "read", "save"}, seen : Seq(Entry)]
  /\ scoreWorld = {} =>
       /\ \A i \in DOMAIN entries : entries[i].result \in Unscored => entries[i].points = 0
       /\ \A i \in DOMAIN entries : entries[i].running => entries[i].result = "none"
       /\ \A u, v \in updates : u = v
       /\ \A u \in updates :
            /\ u.entry \in DOMAIN entries /\ ~entries[u.entry].running
            /\ entries[u.entry].result \in Unscored => u.points = 0
            /\ u.step = "save" => Later(u.seen, entries)
       /\ updates = {} => Later(board, entries)

LEMMA EntriesAreListing ==
  ASSUME NEW E \in Seq(Entry)
  PROVE  Listing(E)
<1>1. DOMAIN E = 1..Len(E) /\ Len(E) \in Nat
  OBVIOUS
<1>2. IsFiniteSet(DOMAIN E)
  BY <1>1, FS_Interval
<1>3. \A i \in DOMAIN E : E[i] \in Entry
  BY <1>1
<1>4. 1..WindowEnd \subseteq Nat /\ 0..FullPoints \subseteq Nat
  BY ScoringAssumption
<1> QED
  BY <1>1, <1>2, <1>3, <1>4 DEF Listing, Entry

LEMMA NewEntry_Score ==
  ASSUME ScoreInv, NEW p \in ContestProblems, NewEntry(p)
  PROVE  ScoreInv'
<1>1. PICK d \in 1..WindowEnd :
        entries' = Append(entries, [prob |-> p, date |-> d, result |-> "none", points |-> 0,
                                    running |-> TRUE, again |-> FALSE])
  BY DEF NewEntry
<1> DEFINE new == [prob |-> p, date |-> d, result |-> "none", points |-> 0, running |-> TRUE, again |-> FALSE]
<1>2. new \in Entry
  BY ScoringAssumption DEF Entry, Results
<1>3. /\ entries' \in Seq(Entry) /\ DOMAIN entries' = 1..(Len(entries) + 1) /\ DOMAIN entries = 1..Len(entries)
      /\ \A i \in DOMAIN entries : entries'[i] = entries[i]
      /\ entries'[Len(entries) + 1] = new /\ Len(entries) \in Nat
  BY <1>1, <1>2 DEF ScoreInv
<1>4. /\ \A i \in DOMAIN entries : i \in DOMAIN entries' /\ entries'[i] = entries[i]
      /\ \A i \in DOMAIN entries' \ DOMAIN entries :
           /\ entries'[i].points = 0 /\ entries'[i].result = "none"
           /\ i = Len(entries) + 1
  BY <1>3
<1>5. ASSUME NEW E \in Seq(Entry), Later(E, entries) PROVE Later(E, entries')
  <2>1. \A j \in DOMAIN E : j \in DOMAIN entries
    BY <1>5 DEF Later
  <2>2. \A j \in DOMAIN E : j < Len(entries) + 1
    BY <1>3, <2>1
  <2> HIDE DEF new
  <2> QED
    BY <1>4, <1>5, <2>1, <2>2 DEF Later, Unscored
<1> HIDE DEF new
<1>6. UNCHANGED <<board, updates, scoreWorld>>
  BY DEF NewEntry
<1>7. \A u \in updates : u.seen \in Seq(Entry)
  BY DEF ScoreInv
<1> QED
  BY <1>3, <1>4, <1>5, <1>6, <1>7 DEF ScoreInv, Unscored

\* An entry changes that is no score before and after.
LEMMA Entry_Score ==
  ASSUME ScoreInv, NEW i \in DOMAIN entries, NEW e \in Entry, entries' = [entries EXCEPT ![i] = e],
         scoreWorld = {} => /\ entries[i].running /\ ~e.running /\ entries[i].result \in Unscored /\ e.result \in Unscored
                            /\ e.points = entries[i].points /\ e.prob = entries[i].prob /\ e.date = entries[i].date,
         UNCHANGED <<board, updates, scoreWorld>>
  PROVE  ScoreInv'
<1>1. /\ entries' \in Seq(Entry) /\ DOMAIN entries' = DOMAIN entries /\ entries'[i] = e
      /\ \A k \in DOMAIN entries \ {i} : entries'[k] = entries[k]
  BY DEF ScoreInv
<1>2. ASSUME NEW E, scoreWorld = {}, Later(E, entries) PROVE Later(E, entries')
  BY <1>1, <1>2 DEF Later
<1> QED
  BY <1>1, <1>2 DEF ScoreInv

LEMMA Graded_Score ==
  ASSUME ScoreInv, NEW i \in DOMAIN entries, Graded(i)
  PROVE  ScoreInv'
<1>1. PICK points \in 0..FullPoints, result \in {"AC", "WA", "IE"} :
        /\ result = "IE" => points = 0
        /\ entries' = [entries EXCEPT ![i].result = result, ![i].running = FALSE]
        /\ updates' = updates \cup Call(i, points)
  BY DEF Graded
<1>2. /\ entries \in Seq(Entry) /\ entries[i] \in Entry /\ entries[i].running
      /\ UNCHANGED <<board, scoreWorld>> /\ (scoreWorld = {} => updates = {})
  BY DEF ScoreInv, Graded, Alone
<1> DEFINE e == [entries[i] EXCEPT !.result = result, !.running = FALSE]
           u == [entry |-> i, points |-> points, step |-> "points", seen |-> <<>>]
<1>3. /\ e \in Entry /\ e.points = entries[i].points /\ e.result = result /\ ~e.running
  BY <1>2 DEF Entry, Results
<1>4. entries' = [entries EXCEPT ![i] = e]
  <2>1. [entries EXCEPT ![i].result = result, ![i].running = FALSE] = [entries EXCEPT ![i] = e]
    BY <1>2
  <2> QED
    BY <1>1, <2>1
<1> HIDE DEF e
<1>5. /\ entries' \in Seq(Entry) /\ DOMAIN entries' = DOMAIN entries /\ entries'[i] = e
      /\ \A k \in DOMAIN entries \ {i} : entries'[k] = entries[k]
  BY <1>2, <1>3, <1>4
<1>6. u \in [entry : Nat, points : 0..FullPoints, step : {"points", "read", "save"}, seen : Seq(Entry)]
  <2>1. i \in Nat /\ <<>> \in Seq(Entry)
    BY <1>2
  <2> QED
    BY <2>1
<1>7. /\ u.entry = i /\ u.points = points /\ u.step = "points"
      /\ updates' = updates \cup {u}
  BY <1>1 DEF Call
<1> HIDE DEF u
<1> QED
  BY <1>1, <1>2, <1>3, <1>5, <1>6, <1>7 DEF ScoreInv, Unscored

LEMMA EndsUnscored_Score ==
  ASSUME ScoreInv, NEW i \in DOMAIN entries, EndsUnscored(i)
  PROVE  ScoreInv'
<1>1. PICK result \in {"CE", "IE", "AB"} :
        /\ result = "AB" => "abort" \in scoreWorld
        /\ entries' = [entries EXCEPT ![i].result = result, ![i].running = FALSE]
  BY DEF EndsUnscored
<1>2. entries \in Seq(Entry) /\ entries[i] \in Entry /\ entries[i].running /\ UNCHANGED <<board, updates, scoreWorld>>
  BY DEF ScoreInv, EndsUnscored
<1> DEFINE e == [entries[i] EXCEPT !.result = result, !.running = FALSE]
<1>3. /\ e \in Entry /\ e.points = entries[i].points /\ e.result = result /\ ~e.running
      /\ e.prob = entries[i].prob /\ e.date = entries[i].date
  BY <1>2 DEF Entry, Results
<1>4. entries' = [entries EXCEPT ![i] = e]
  <2>1. [entries EXCEPT ![i].result = result, ![i].running = FALSE] = [entries EXCEPT ![i] = e]
    BY <1>2
  <2> QED
    BY <1>1, <2>1
<1> HIDE DEF e
<1>5. scoreWorld = {} => entries[i].result \in Unscored /\ e.result \in Unscored
  BY <1>1, <1>2, <1>3 DEF ScoreInv, Unscored
<1> QED
  BY <1>2, <1>3, <1>4, <1>5, Entry_Score

LEMMA Rejudge_Score ==
  ASSUME ScoreInv, NEW i \in DOMAIN entries, Rejudge(i)
  PROVE  ScoreInv'
<1>1. entries \in Seq(Entry) /\ entries[i] \in Entry /\ scoreWorld # {} /\ UNCHANGED <<board, updates, scoreWorld>>
  BY DEF ScoreInv, Rejudge
<1> DEFINE e == [entries[i] EXCEPT !.result = "none", !.running = TRUE, !.again = TRUE]
<1>2. e \in Entry
  BY <1>1 DEF Entry, Results
<1>3. entries' = [entries EXCEPT ![i] = e]
  <2>1. [entries EXCEPT ![i].result = "none", ![i].running = TRUE, ![i].again = TRUE] = [entries EXCEPT ![i] = e]
    BY <1>1
  <2> QED
    BY <2>1 DEF Rejudge
<1> HIDE DEF e
<1> QED
  BY <1>1, <1>2, <1>3, Entry_Score

LEMMA WritePoints_Score ==
  ASSUME ScoreInv, NEW u \in updates, WritePoints(u)
  PROVE  ScoreInv'
<1> DEFINE v == [u EXCEPT !.step = "read"]
           T == [entry : Nat, points : 0..FullPoints, step : {"points", "read", "save"}, seen : Seq(Entry)]
<1>1. /\ u \in T /\ entries \in Seq(Entry) /\ UNCHANGED <<board, scoreWorld>>
      /\ entries' = [entries EXCEPT ![u.entry].points = u.points]
      /\ updates' = (updates \ {u}) \cup {v}
  BY DEF ScoreInv, WritePoints, Step, Recompute
<1>2. v \in T /\ v.entry = u.entry /\ v.points = u.points /\ v.step = "read"
  BY <1>1
<1>3. /\ entries' \in Seq(Entry) /\ DOMAIN entries' = DOMAIN entries
      /\ \A i \in DOMAIN entries :
           /\ entries'[i].result = entries[i].result /\ entries'[i].running = entries[i].running
           /\ entries'[i].points = IF i = u.entry THEN u.points ELSE entries[i].points
  <2>1. DOMAIN entries' = DOMAIN entries /\ DOMAIN entries = 1..Len(entries) /\ Len(entries) \in Nat
    BY <1>1
  <2>2. \A i \in DOMAIN entries : entries'[i] = IF i = u.entry THEN [entries[i] EXCEPT !.points = u.points] ELSE entries[i]
    BY <1>1
  <2>3. \A i \in DOMAIN entries : entries[i] \in Entry
    BY <1>1, <2>1
  <2>4. u.points \in 0..FullPoints
    BY <1>1
  <2>5. \A e \in Entry : /\ [e EXCEPT !.points = u.points] \in Entry
                         /\ [e EXCEPT !.points = u.points].result = e.result
                         /\ [e EXCEPT !.points = u.points].running = e.running
                         /\ [e EXCEPT !.points = u.points].points = u.points
    BY <2>4 DEF Entry
  <2>6. \A i \in DOMAIN entries : entries'[i] \in Entry
    BY <2>2, <2>3, <2>5
  <2>7. entries' \in Seq(Entry)
    <3>1. entries' = [i \in 1..Len(entries) |-> entries'[i]]
      BY <1>1, <2>1
    <3> QED
      BY <2>1, <2>6, <3>1
  <2>8. \A i \in DOMAIN entries :
           /\ entries'[i].result = entries[i].result /\ entries'[i].running = entries[i].running
           /\ entries'[i].points = IF i = u.entry THEN u.points ELSE entries[i].points
    <3> SUFFICES ASSUME NEW i \in DOMAIN entries
                 PROVE  /\ entries'[i].result = entries[i].result /\ entries'[i].running = entries[i].running
                        /\ entries'[i].points = IF i = u.entry THEN u.points ELSE entries[i].points
      OBVIOUS
    <3> HIDE DEF v, T
    <3>1. CASE i = u.entry
      <4>1. entries'[i] = [entries[i] EXCEPT !.points = u.points] /\ entries[i] \in Entry
        BY <2>2, <2>3, <3>1
      <4> QED
        BY <2>5, <3>1, <4>1
    <3>2. CASE i # u.entry
      BY <2>2, <3>2
    <3> QED
      BY <3>1, <3>2
  <2> QED
    BY <2>1, <2>7, <2>8
<1> HIDE DEF v
<1> QED
  BY <1>1, <1>2, <1>3 DEF ScoreInv

LEMMA ReadEntries_Score ==
  ASSUME ScoreInv, NEW u \in updates, ReadEntries(u)
  PROVE  ScoreInv'
<1> DEFINE v == [u EXCEPT !.step = "save", !.seen = entries]
           T == [entry : Nat, points : 0..FullPoints, step : {"points", "read", "save"}, seen : Seq(Entry)]
<1>1. /\ u \in T /\ entries \in Seq(Entry) /\ UNCHANGED <<entries, board, scoreWorld>>
      /\ updates' = (updates \ {u}) \cup {v}
  BY DEF ScoreInv, ReadEntries, Step
<1>2. v \in T /\ v.entry = u.entry /\ v.points = u.points /\ v.seen = entries
  BY <1>1
<1>3. Later(entries, entries)
  BY DEF Later
<1> HIDE DEF v
<1> QED
  BY <1>1, <1>2, <1>3 DEF ScoreInv

LEMMA SaveRow_Score ==
  ASSUME ScoreInv, NEW u \in updates, SaveRow(u)
  PROVE  ScoreInv'
<1>1. updates' = updates \ {u} /\ board' = u.seen /\ UNCHANGED <<entries, scoreWorld>> /\ u.step = "save"
  BY DEF SaveRow, Step
<1>2. u.seen \in Seq(Entry)
  BY DEF ScoreInv
<1> QED
  BY <1>1, <1>2 DEF ScoreInv

LEMMA Spec_Score == ScoringSpec => []ScoreInv
<1>1. ScoringInit => ScoreInv
  BY DEF ScoringInit, ScoreInv, Later
<1>2. ScoreInv /\ [ScoringNext]_scoreVars => ScoreInv'
  <2> SUFFICES ASSUME ScoreInv, [ScoringNext]_scoreVars PROVE ScoreInv'
    OBVIOUS
  <2>1. CASE UNCHANGED scoreVars
    BY <2>1 DEF scoreVars, ScoreInv, Later
  <2> QED
    BY <2>1, NewEntry_Score, Rejudge_Score, Graded_Score, EndsUnscored_Score, WritePoints_Score,
       ReadEntries_Score, SaveRow_Score DEF ScoringNext
<1> QED
  BY <1>1, <1>2, PTL DEF ScoringSpec

\* Submission.update_contest, ContestParticipation.recompute_results: when nothing is
\* running or being stored, the stored row is what its format gives for the
\* submissions as they are, in every format.
THEOREM BoardsAreCurrent == ScoringSpec => []BoardIsCurrent
<1>1. ScoreInv => BoardIsCurrent
  <2> SUFFICES ASSUME ScoreInv, scoreWorld = {}, updates = {} PROVE Rows(board) = Rows(entries)
    BY DEF BoardIsCurrent
  <2>1. Listing(board) /\ Listing(entries) /\ Later(board, entries)
    BY EntriesAreListing DEF ScoreInv
  <2> QED
    BY <2>1, LaterRows
<1> QED
  BY <1>1, Spec_Score, PTL

\* The row of the runs before a time, when points are all or nothing.
LEMMA FrozenProblem ==
  ASSUME NEW E, Listing(E), AllOrNothing(E), NEW B, B = Restrict(E, {i \in DOMAIN E : E[i].date < FreezeAt}), NEW p
  PROVE  /\ p \in Scored(B) <=> p \in BeforeFreeze(E)
         /\ p \in BeforeFreeze(E) => Best(E, p) = Best(B, p) /\ FirstBest(E, p) = FirstBest(B, p) /\ Tries(E, p) = Tries(B, p)
<1>0. FreezeAt \in Nat /\ FullPoints \in Nat /\ FullPoints > 0
  BY ScoringAssumption
<1>1. /\ Of(B, p) = {i \in Of(E, p) : E[i].date < FreezeAt}
      /\ \A i \in Of(B, p) : B[i] = E[i]
  BY DEF Restrict, Of
<1>2. Listing(B)
  <2>1. DOMAIN B \in SUBSET DOMAIN E /\ \A i \in DOMAIN B : B[i] = E[i]
    BY DEF Restrict
  <2> QED
    BY <2>1, FS_Subset DEF Listing
<1>3. ASSUME p \in BeforeFreeze(E)
      PROVE  p \in Scored(B) /\ Best(E, p) = Best(B, p) /\ FirstBest(E, p) = FirstBest(B, p)
  <2>1. Of(E, p) # {} /\ Best(E, p) > 0 /\ FirstBest(E, p) < FreezeAt /\ p \in ContestProblems
    BY <1>3 DEF BeforeFreeze, Scored, Tried
  <2>2. PICK i \in Of(E, p) : E[i].points = Best(E, p) /\ E[i].date = FirstBest(E, p)
    BY <2>1, ListingFacts
  <2>3. i \in Of(B, p) /\ B[i].points = Best(E, p) /\ B[i].date = FirstBest(E, p)
    BY <1>1, <2>1, <2>2
  <2>4. \A k \in Of(B, p) : B[k].points <= Best(E, p) /\ (B[k].points = Best(E, p) => B[i].date <= B[k].date)
    BY <1>1, <2>1, <2>3, ListingFacts
  <2>5. Best(B, p) = Best(E, p) /\ FirstBest(B, p) = FirstBest(E, p)
    BY <1>2, <2>3, <2>4, BestIs
  <2> QED
    BY <2>1, <2>3, <2>5 DEF Scored, Tried
<1>4. ASSUME p \in Scored(B) PROVE p \in BeforeFreeze(E)
  <2>1. Of(B, p) # {} /\ Best(B, p) > 0 /\ p \in ContestProblems
    BY <1>4 DEF Scored, Tried
  <2>2. PICK i \in Of(B, p) : B[i].points = Best(B, p)
    BY <1>2, <2>1, ListingFacts
  <2>3. i \in Of(E, p) /\ E[i].date < FreezeAt /\ E[i].points = FullPoints /\ E[i].date \in Nat
    BY <1>1, <2>1, <2>2 DEF AllOrNothing, Listing, Of
  <2>4. Of(E, p) # {} /\ Best(E, p) \in Nat /\ FullPoints <= Best(E, p)
    BY <2>3, ListingFacts
  <2>5. PICK k \in Of(E, p) : E[k].points = Best(E, p)
    BY <2>4, ListingFacts
  <2>6. Best(E, p) = FullPoints
    BY <1>0, <2>4, <2>5 DEF AllOrNothing, Of
  <2>7. FirstBest(E, p) <= E[i].date /\ FirstBest(E, p) \in Nat
    BY <2>3, <2>4, <2>6, ListingFacts
  <2>8. FirstBest(E, p) < FreezeAt
    BY <1>0, <2>3, <2>7
  <2> QED
    BY <1>0, <2>1, <2>4, <2>6, <2>8 DEF BeforeFreeze, Scored, Tried
<1>5. ASSUME p \in BeforeFreeze(E), FirstBest(E, p) = FirstBest(B, p) PROVE Tries(E, p) = Tries(B, p)
  <2>1. FirstBest(E, p) < FreezeAt /\ FirstBest(E, p) \in Nat
    BY <1>5, ListingFacts DEF BeforeFreeze, Scored, Tried
  <2>2. \A i \in Of(E, p) : E[i].date \in Nat
    BY DEF Listing, Of
  <2>3. {i \in Of(E, p) : E[i].result \notin {"none", "IE", "CE"} /\ E[i].date <= FirstBest(E, p)}
          = {i \in Of(B, p) : B[i].result \notin {"none", "IE", "CE"} /\ B[i].date <= FirstBest(B, p)}
    <3>1. \A i \in Of(E, p) : E[i].date <= FirstBest(E, p) => i \in Of(B, p)
      BY <1>0, <1>1, <2>1, <2>2
    <3>2. Of(B, p) \subseteq Of(E, p) /\ FirstBest(E, p) = FirstBest(B, p)
      BY <1>1, <1>5
    <3> QED
      BY <1>1, <3>1, <3>2
  <2> QED
    BY <2>3 DEF Tries
<1> QED
  BY <1>3, <1>4, <1>5

LEMMA FrozenRow ==
  ASSUME NEW E, Listing(E), AllOrNothing(E)
  PROVE  ICPCFrozen(E) = ICPC(Restrict(E, {i \in DOMAIN E : E[i].date < FreezeAt}))
<1> DEFINE B == Restrict(E, {i \in DOMAIN E : E[i].date < FreezeAt})
           P == BeforeFreeze(E)
<1>1. B = Restrict(E, {i \in DOMAIN E : E[i].date < FreezeAt})
  OBVIOUS
<1> HIDE DEF B
<1>2. Scored(B) = P
  BY <1>1, FrozenProblem DEF Scored, BeforeFreeze
<1>3. \A p \in P : Best(E, p) = Best(B, p) /\ FirstBest(E, p) = FirstBest(B, p) /\ Tries(E, p) = Tries(B, p)
  BY <1>1, FrozenProblem
<1> HIDE DEF P
<1>4. /\ [p \in P |-> Best(E, p)] = [p \in P |-> Best(B, p)]
      /\ [p \in P |-> FirstBest(E, p)] = [p \in P |-> FirstBest(B, p)]
      /\ [p \in P |-> (Tries(E, p) - 1) * Penalty] = [p \in P |-> (Tries(B, p) - 1) * Penalty]
      /\ {FirstBest(E, p) : p \in P} = {FirstBest(B, p) : p \in P}
  BY <1>3
<1>5. ICPC(B) = [score |-> TotalOf(LAMBDA p : Best(B, p), P), cumtime |-> TimeOf(B, P) + PenaltyOf(B, P),
                 tiebreaker |-> Max({0} \cup {FirstBest(B, p) : p \in P})]
  BY <1>2 DEF ICPC, BestTotal, MaxTime
<1>6. ICPCFrozen(E) = [score |-> TotalOf(LAMBDA p : Best(E, p), P), cumtime |-> TimeOf(E, P) + PenaltyOf(E, P),
                       tiebreaker |-> Max({0} \cup {FirstBest(E, p) : p \in P})]
  BY DEF ICPCFrozen, P
<1>7. ICPCFrozen(E) = ICPC(B)
  BY <1>4, <1>5, <1>6 DEF TotalOf, TimeOf, PenaltyOf
<1> QED
  BY <1>1, <1>7

\* icpc.py, frozen columns: with all-or-nothing points they are the row of the runs
\* before the freeze, for every list of submissions that can arise.
THEOREM FrozenBoardsShowFreeze == ScoringSpec => []FrozenShowsFreeze
<1>1. ScoreInv => FrozenShowsFreeze
  BY EntriesAreListing, FrozenRow DEF ScoreInv, FrozenShowsFreeze
<1> QED
  BY <1>1, Spec_Score, PTL
=============================================================================
