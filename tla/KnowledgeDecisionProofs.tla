----------------------- MODULE KnowledgeDecisionProofs -----------------------
(***************************************************************************)
(* Theorems about KnowledgeDecision for any number of servers, decisions   *)
(* and incidents.  IInv says which server is responsible for a decision    *)
(* and what a call in progress may still assume about the two files.       *)
(***************************************************************************)
EXTENDS KnowledgeDecision, TLAPS

NonReview == {"no_change", "accepted"}

\* The server that is responsible for the next status of a decision.
Owns(s, d) ==
    \/ drain[s].phase \in {"accepted", "applying", "failing"} /\ drain[s].decision = d
    \/ call[s].by = "drain" /\ call[s].decision = d

Unique == \A r, s \in Servers : \A d \in Decisions : Owns(r, d) /\ Owns(s, d) => r = s

\* The four shapes of a call in progress.
CreatesReview(s) ==
    /\ call[s].by = "drain"
    /\ call[s].to = "requires_review"
    /\ call[s].at \in {"acquire", "write", "save"}
    /\ verdict[call[s].decision] = "requires_review"
    /\ record[call[s].decision] = "absent"
    /\ drain[s] = Idle

CreatesAccepted(s) ==
    /\ call[s].by = "drain"
    /\ call[s].to = "accepted"
    /\ call[s].at = "save"
    /\ verdict[call[s].decision] \in NonReview
    /\ record[call[s].decision] = "absent"
    /\ call[s].decision \notin commits
    /\ drain[s].phase = "accepted"
    /\ drain[s].decision = call[s].decision

MovesDrain(s) ==
    /\ call[s].by = "drain"
    /\ call[s].at \in {"get", "release", "unlink", "save"}
    /\ verdict[call[s].decision] \in NonReview
    /\ record[call[s].decision] # "absent"
    /\ \/ /\ call[s].to = "applying"
          /\ call[s].decision \notin commits
          /\ drain[s].phase = "applying"
          /\ drain[s].decision = call[s].decision
       \/ /\ call[s].to = "failed"
          /\ call[s].decision \in commits => call[s].decision \in unread
          /\ drain[s].phase = "failing"
          /\ drain[s].decision = call[s].decision
       \/ /\ call[s].to = "applied"
          /\ call[s].decision \in commits \ unread
          /\ drain[s] = Idle

Reviews(s) ==
    /\ call[s].by = "review"
    /\ call[s].to \in ReviewActions
    /\ call[s].at \in {"get", "release", "unlink", "save"}
    /\ verdict[call[s].decision] = "requires_review"
    /\ record[call[s].decision] # "absent"
    /\ call[s].at = "save" => lock # call[s].decision
    /\ drain[s].phase \in {"idle", "governing"}

CallOK(s) ==
    \/ call[s] = NoCall
    \/ /\ call[s].decision \in Decisions
       /\ CreatesReview(s) \/ CreatesAccepted(s) \/ MovesDrain(s) \/ Reviews(s)

\* What a drain between two calls knows of its decision.
DrainOK(s) ==
    \/ drain[s].phase \in {"idle", "governing"} /\ drain[s].decision = NoDecision
    \/ /\ drain[s].phase \in {"accepted", "applying", "failing"}
       /\ drain[s].decision \in Decisions
       /\ verdict[drain[s].decision] \in NonReview
       /\ drain[s].decision \in commits => drain[s].phase = "failing" /\ drain[s].decision \in unread
       /\ Free(s) => record[drain[s].decision] # "absent"
       /\ Free(s) /\ drain[s].phase = "applying" => record[drain[s].decision] = "applying"

RecordOK ==
    \A d \in Decisions :
        /\ record[d] \in {"requires_review"} \cup ReviewActions => verdict[d] = "requires_review"
        /\ record[d] \in {"accepted", "applying", "applied", "failed"} => verdict[d] \in NonReview
        /\ lock = d => verdict[d] = "requires_review"

IInv == /\ TypeOK
        /\ RecordOK
        /\ Unique
        /\ \A s \in Servers : CallOK(s) /\ DrainOK(s)
        /\ ReviewLockIsPending
        /\ AuditMatchesGit

USE DecisionAssumption

-----------------------------------------------------------------------------
\* The first state satisfies the invariant: no lock, no record, nobody at work.
THEOREM InitIInv == Init => IInv
<1> SUFFICES ASSUME Init PROVE IInv
  OBVIOUS
<1> USE DEF Init, Idle, NoCall
<1>1. TypeOK
  <2>1. Idle \in [phase : Phases, decision : Decisions \cup {NoDecision}]
    BY DEF Phases
  <2>2. NoCall \in Calls
    BY DEF Calls, Statuses
  <2> QED BY <2>1, <2>2 DEF TypeOK, Statuses
<1>2. RecordOK /\ ReviewLockIsPending /\ AuditMatchesGit
  BY DEF RecordOK, ReviewLockIsPending, AuditMatchesGit, ReviewActions
<1>3. Unique
  BY DEF Unique, Owns
<1>4. \A s \in Servers : CallOK(s) /\ DrainOK(s)
  BY DEF CallOK, DrainOK
<1> QED BY <1>1, <1>2, <1>3, <1>4 DEF IInv

\* A call that goes on changes its position only.
LEMMA GotoFacts ==
    ASSUME TypeOK, NEW s \in Servers, NEW at \in {"write", "save", "release", "unlink"},
           Goto(s, at)
    PROVE  /\ call' \in [Servers -> Calls]
           /\ drain' = drain
           /\ call'[s].at = at
           /\ \A r \in Servers : /\ call'[r].by = call[r].by
                                 /\ call'[r].decision = call[r].decision
                                 /\ call'[r].to = call[r].to
                                 /\ r # s => call'[r] = call[r]
<1>1. call[s] \in Calls /\ [call[s] EXCEPT !.at = at] \in Calls
  BY DEF TypeOK, Calls
<1>2. call' = [call EXCEPT ![s] = [call[s] EXCEPT !.at = at]]
  BY <1>1 DEF Goto, TypeOK
<1> QED BY <1>1, <1>2 DEF Goto, TypeOK, Calls

\* A call that raises ends, and with it the drain that made it.
LEMMA RaiseFacts ==
    ASSUME TypeOK, NEW s \in Servers, Raise(s)
    PROVE  /\ call' \in [Servers -> Calls]
           /\ drain' \in [Servers -> [phase : Phases, decision : Decisions \cup {NoDecision}]]
           /\ call'[s] = NoCall
           /\ drain'[s] = IF call[s].by = "drain" THEN Idle ELSE drain[s]
           /\ \A r \in Servers : r # s => call'[r] = call[r] /\ drain'[r] = drain[r]
<1>1. NoCall \in Calls
  BY DEF NoCall, Calls, Statuses
<1>2. Idle \in [phase : Phases, decision : Decisions \cup {NoDecision}]
  BY DEF Idle, Phases
<1> QED BY <1>1, <1>2 DEF Raise, TypeOK

\* create reads the lock: it goes on, or the drain ends.
LEMMA AcquireGetIInv ==
    ASSUME IInv, NEW s \in Servers, AcquireGet(s)
    PROVE  IInv'
<1> USE DEF TypeOK, IInv, RecordOK, Unique, Owns, CallOK, CreatesReview,
           CreatesAccepted, MovesDrain, Reviews, DrainOK, ReviewLockIsPending,
           AuditMatchesGit, Idle, NoCall, Free, NonReview, ReviewActions
<1>1. CASE Raise(s)
  <2>1. UNCHANGED <<lock, record, verdict, commits, unread, incidents>>
    BY DEF AcquireGet
  <2>2. TypeOK'
    BY <1>1, <2>1, RaiseFacts
  <2>3. RecordOK' /\ ReviewLockIsPending' /\ AuditMatchesGit'
    BY <2>1
  <2>4. Unique'
    BY SMTT(60), <1>1, RaiseFacts
  <2>5. ASSUME NEW r \in Servers PROVE CallOK(r)' /\ DrainOK(r)'
    BY <1>1, <2>1, RaiseFacts
  <2> QED BY <2>2, <2>3, <2>4, <2>5
<1>2. CASE ~Raise(s)
  <2>1. call[s].at = "acquire" /\ UNCHANGED <<lock, record, verdict, commits, unread, incidents>>
    BY DEF AcquireGet, Calling
  <2>2. Goto(s, "write")
    BY <1>2 DEF AcquireGet
  <2>3. /\ call' \in [Servers -> Calls]
        /\ drain' = drain
        /\ call'[s].at = "write"
        /\ \A r \in Servers : /\ call'[r].by = call[r].by
                              /\ call'[r].decision = call[r].decision
                              /\ call'[r].to = call[r].to
                              /\ r # s => call'[r] = call[r]
    BY <2>2, GotoFacts
  <2>4. call[s].decision \in Decisions /\ call[s].by # "nobody"
    BY <2>1
  <2>5. TypeOK'
    BY <2>1, <2>3
  <2>6. RecordOK' /\ ReviewLockIsPending' /\ AuditMatchesGit'
    BY <2>1
  <2>7. Unique'
    BY <2>3
  <2>8. ASSUME NEW r \in Servers, r # s PROVE CallOK(r)' /\ DrainOK(r)'
    BY <2>8, <2>1, <2>3, <2>4
  <2>9. DrainOK(s)'
    BY <2>1, <2>2, <2>3, <2>4
  <2>10. CallOK(s)'
    BY <2>1, <2>2, <2>3, <2>4
  <2> QED BY <2>5, <2>6, <2>7, <2>8, <2>9, <2>10
<1> QED BY <1>1, <1>2

\* create writes the lock: no transition of its decision can be under way.
LEMMA AcquireWriteIInv ==
    ASSUME IInv, NEW s \in Servers, AcquireWrite(s)
    PROVE  IInv'
<1> USE DEF TypeOK, IInv, RecordOK, Unique, Owns, CallOK, CreatesReview,
           CreatesAccepted, MovesDrain, Reviews, DrainOK, ReviewLockIsPending,
           AuditMatchesGit, Idle, NoCall, Free, NonReview, ReviewActions
<1>1. call[s].at = "write" /\ UNCHANGED <<record, verdict, commits, unread, incidents>>
  BY DEF AcquireWrite, Calling
<1>2. Goto(s, "save")
  BY DEF AcquireWrite
<1>3. /\ call' \in [Servers -> Calls]
      /\ drain' = drain
      /\ call'[s].at = "save"
      /\ \A r \in Servers : /\ call'[r].by = call[r].by
                            /\ call'[r].decision = call[r].decision
                            /\ call'[r].to = call[r].to
                            /\ r # s => call'[r] = call[r]
  BY <1>2, GotoFacts
<1>4. call[s].decision \in Decisions /\ call[s].by # "nobody"
  BY <1>1
<1>5. TypeOK'
  BY <1>1, <1>3, <1>4 DEF AcquireWrite
<1>6. RecordOK' /\ ReviewLockIsPending' /\ AuditMatchesGit'
  BY <1>1 DEF AcquireWrite
<1>7. Unique'
  BY <1>3
<1>8. ASSUME NEW r \in Servers, r # s PROVE CallOK(r)' /\ DrainOK(r)'
  BY <1>8, <1>1, <1>3, <1>4 DEF AcquireWrite
<1>9. DrainOK(s)'
  BY <1>1, <1>2, <1>3, <1>4
<1>10. CallOK(s)'
  BY <1>1, <1>2, <1>3, <1>4 DEF AcquireWrite
<1> QED BY <1>5, <1>6, <1>7, <1>8, <1>9, <1>10

\* transition reads the record.
LEMMA GetIInv ==
    ASSUME IInv, NEW s \in Servers, Get(s)
    PROVE  IInv'
<1> USE DEF TypeOK, IInv, RecordOK, Unique, Owns, CallOK, CreatesReview,
           CreatesAccepted, MovesDrain, Reviews, DrainOK, ReviewLockIsPending,
           AuditMatchesGit, Idle, NoCall, Free, NonReview, ReviewActions
<1>1. CASE Raise(s)
  <2>1. UNCHANGED <<lock, record, verdict, commits, unread, incidents>>
    BY DEF Get
  <2>2. TypeOK'
    BY <1>1, <2>1, RaiseFacts
  <2>3. RecordOK' /\ ReviewLockIsPending' /\ AuditMatchesGit'
    BY <2>1
  <2>4. Unique'
    BY <1>1, RaiseFacts
  <2>5. ASSUME NEW r \in Servers PROVE CallOK(r)' /\ DrainOK(r)'
    BY <1>1, <2>1, RaiseFacts
  <2> QED BY <2>2, <2>3, <2>4, <2>5
<1>2. CASE ~Raise(s)
  <2>1. call[s].at = "get" /\ UNCHANGED <<lock, record, verdict, commits, unread, incidents>>
    BY DEF Get, Calling
  <2>2. (Goto(s, "save") /\ ~Releasing(call[s].to)) \/ (Goto(s, "release") /\ Releasing(call[s].to))
    <3>1. Goto(s, IF Releasing(call[s].to) THEN "release" ELSE "save")
      BY <1>2, Zenon DEF Get
    <3>2. CASE Releasing(call[s].to)
      BY <3>1, <3>2
    <3>3. CASE ~Releasing(call[s].to)
      BY <3>1, <3>3
    <3> QED BY <3>2, <3>3
  <2>3. /\ call' \in [Servers -> Calls]
        /\ drain' = drain
        /\ (call'[s].at = "save" /\ ~Releasing(call[s].to)) \/ (call'[s].at = "release" /\ Releasing(call[s].to))
        /\ \A r \in Servers : /\ call'[r].by = call[r].by
                              /\ call'[r].decision = call[r].decision
                              /\ call'[r].to = call[r].to
                              /\ r # s => call'[r] = call[r]
    BY <2>2, GotoFacts
  <2>4. call[s].decision \in Decisions /\ call[s].by # "nobody"
    BY <2>1
  <2>5. TypeOK'
    BY <2>1, <2>3 DEF Releasing
  <2>6. RecordOK' /\ ReviewLockIsPending' /\ AuditMatchesGit'
    BY <2>1 DEF Releasing
  <2>7. Unique'
    BY <2>3
  <2>8. ASSUME NEW r \in Servers, r # s PROVE CallOK(r)' /\ DrainOK(r)'
    BY <2>8, <2>1, <2>3, <2>4 DEF Releasing
  <2>9. DrainOK(s)'
    BY <2>1, <2>2, <2>3, <2>4
  <2>10. CallOK(s)'
    BY <2>1, <2>2, <2>3, <2>4 DEF Releasing
  <2> QED BY <2>5, <2>6, <2>7, <2>8, <2>9, <2>10
<1> QED BY <1>1, <1>2

\* transition reads the lock: at "save" it is not its own decision's.
LEMMA ReleaseGetIInv ==
    ASSUME IInv, NEW s \in Servers, ReleaseGet(s)
    PROVE  IInv'
<1> USE DEF TypeOK, IInv, RecordOK, Unique, Owns, CallOK, CreatesReview,
           CreatesAccepted, MovesDrain, Reviews, DrainOK, ReviewLockIsPending,
           AuditMatchesGit, Idle, NoCall, Free, NonReview, ReviewActions
<1>1. CASE Raise(s)
  <2>1. UNCHANGED <<lock, record, verdict, commits, unread, incidents>>
    BY DEF ReleaseGet
  <2>2. TypeOK'
    BY <1>1, <2>1, RaiseFacts
  <2>3. RecordOK' /\ ReviewLockIsPending' /\ AuditMatchesGit'
    BY <2>1
  <2>4. Unique'
    BY <1>1, RaiseFacts
  <2>5. ASSUME NEW r \in Servers PROVE CallOK(r)' /\ DrainOK(r)'
    BY <1>1, <2>1, RaiseFacts
  <2> QED BY <2>2, <2>3, <2>4, <2>5
<1>2. CASE ~Raise(s)
  <2>1. call[s].at = "release" /\ UNCHANGED <<lock, record, verdict, commits, unread, incidents>>
    BY DEF ReleaseGet, Calling
  <2>2. (Goto(s, "save") /\ lock = NoDecision) \/ (Goto(s, "unlink") /\ lock = call[s].decision)
    BY <1>2, Zenon DEF ReleaseGet
  <2>3. /\ call' \in [Servers -> Calls]
        /\ drain' = drain
        /\ (call'[s].at = "save" /\ lock = NoDecision) \/ (call'[s].at = "unlink" /\ lock = call[s].decision)
        /\ \A r \in Servers : /\ call'[r].by = call[r].by
                              /\ call'[r].decision = call[r].decision
                              /\ call'[r].to = call[r].to
                              /\ r # s => call'[r] = call[r]
    BY <2>2, GotoFacts
  <2>4. call[s].decision \in Decisions /\ call[s].by # "nobody"
    BY <2>1
  <2>5. TypeOK'
    BY <2>1, <2>3
  <2>6. RecordOK' /\ ReviewLockIsPending' /\ AuditMatchesGit'
    BY <2>1
  <2>7. Unique'
    BY <2>3
  <2>8. ASSUME NEW r \in Servers, r # s PROVE CallOK(r)' /\ DrainOK(r)'
    BY <2>8, <2>1, <2>3, <2>4
  <2>9. DrainOK(s)'
    BY <2>1, <2>2, <2>3, <2>4
  <2>10. CallOK(s)'
    BY <2>1, <2>2, <2>3, <2>4
  <2> QED BY <2>5, <2>6, <2>7, <2>8, <2>9, <2>10
<1> QED BY <1>1, <1>2

\* transition removes the lock.
LEMMA UnlinkIInv ==
    ASSUME IInv, NEW s \in Servers, Unlink(s)
    PROVE  IInv'
<1> USE DEF TypeOK, IInv, RecordOK, Unique, Owns, CallOK, CreatesReview,
           CreatesAccepted, MovesDrain, Reviews, DrainOK, ReviewLockIsPending,
           AuditMatchesGit, Idle, NoCall, Free, NonReview, ReviewActions
<1>1. call[s].at = "unlink" /\ UNCHANGED <<record, verdict, commits, unread, incidents>>
  BY DEF Unlink, Calling
<1>2. Goto(s, "save")
  BY DEF Unlink
<1>3. /\ call' \in [Servers -> Calls]
      /\ drain' = drain
      /\ call'[s].at = "save"
      /\ \A r \in Servers : /\ call'[r].by = call[r].by
                            /\ call'[r].decision = call[r].decision
                            /\ call'[r].to = call[r].to
                            /\ r # s => call'[r] = call[r]
  BY <1>2, GotoFacts
<1>4. call[s].decision \in Decisions /\ call[s].by # "nobody"
  BY <1>1
<1>5. TypeOK'
  BY <1>1, <1>3, <1>4 DEF Unlink
<1>6. RecordOK' /\ ReviewLockIsPending' /\ AuditMatchesGit'
  BY <1>1 DEF Unlink
<1>7. Unique'
  BY <1>3
<1>8. ASSUME NEW r \in Servers, r # s PROVE CallOK(r)' /\ DrainOK(r)'
  BY <1>8, <1>1, <1>3, <1>4 DEF Unlink
<1>9. DrainOK(s)'
  BY <1>1, <1>2, <1>3, <1>4
<1>10. CallOK(s)'
  BY SMTT(60), <1>1, <1>2, <1>3, <1>4 DEF Unlink
<1> QED BY <1>5, <1>6, <1>7, <1>8, <1>9, <1>10

\* The call saves the record its server is responsible for.
LEMMA SaveIInv ==
    ASSUME IInv, NEW s \in Servers, Save(s)
    PROVE  IInv'
<1> USE DEF Save, Calling, Return, TypeOK, Calls,
           IInv, RecordOK, Unique, Owns, CallOK, CreatesReview,
           CreatesAccepted, MovesDrain, Reviews, DrainOK, ReviewLockIsPending,
           AuditMatchesGit, Idle, NoCall, Free, NonReview, ReviewActions
<1>1. TypeOK'
  BY DEF Statuses, Phases
<1>2. RecordOK' /\ ReviewLockIsPending' /\ AuditMatchesGit'
  OBVIOUS
<1>3. Unique'
  OBVIOUS
<1>4. ASSUME NEW r \in Servers PROVE CallOK(r)' /\ DrainOK(r)'
  <2>1. CASE r = s
    <3>1. call'[s] = NoCall
      OBVIOUS
    <3>2. CASE CreatesReview(s) \/ Reviews(s)
      BY <3>1, <3>2, <2>1
    <3>3. CASE CreatesAccepted(s)
      BY <3>1, <3>3, <2>1
    <3>4. CASE MovesDrain(s)
      BY <3>1, <3>4, <2>1
    <3> QED BY <3>2, <3>3, <3>4
  <2>2. CASE r # s
    BY <2>2
  <2> QED BY SMTT(60), <2>1, <2>2
<1> QED BY <1>1, <1>2, <1>3, <1>4

\* A drain that starts changes nothing but its phase.
LEMMA StartDrainIInv ==
    ASSUME IInv, NEW s \in Servers, StartDrain(s)
    PROVE  IInv'
<1> USE DEF StartDrain, Create, TypeOK, Calls,
           IInv, RecordOK, Unique, Owns, CallOK, CreatesReview,
           CreatesAccepted, MovesDrain, Reviews, DrainOK, ReviewLockIsPending,
           AuditMatchesGit, Idle, NoCall, Free, NonReview, ReviewActions
<1>1. TypeOK'
  BY DEF Statuses, Phases
<1>2. RecordOK' /\ ReviewLockIsPending' /\ AuditMatchesGit'
  OBVIOUS
<1>3. Unique'
  OBVIOUS
<1>4. ASSUME NEW r \in Servers PROVE CallOK(r)' /\ DrainOK(r)'
  <2>1. CASE r = s
    BY <2>1
  <2>2. CASE r # s
    BY <2>2
  <2> QED BY <2>1, <2>2
<1> QED BY <1>1, <1>2, <1>3, <1>4

\* A drain that governance ends has written nothing.
LEMMA GovernanceRaisesIInv ==
    ASSUME IInv, NEW s \in Servers, GovernanceRaises(s)
    PROVE  IInv'
<1> USE DEF GovernanceRaises, Create, TypeOK, Calls,
           IInv, RecordOK, Unique, Owns, CallOK, CreatesReview,
           CreatesAccepted, MovesDrain, Reviews, DrainOK, ReviewLockIsPending,
           AuditMatchesGit, Idle, NoCall, Free, NonReview, ReviewActions
<1>1. TypeOK'
  BY DEF Statuses, Phases
<1>2. RecordOK' /\ ReviewLockIsPending' /\ AuditMatchesGit'
  OBVIOUS
<1>3. Unique'
  OBVIOUS
<1>4. ASSUME NEW r \in Servers PROVE CallOK(r)' /\ DrainOK(r)'
  <2>1. CASE r = s
    BY <2>1
  <2>2. CASE r # s
    BY <2>2
  <2> QED BY <2>1, <2>2
<1> QED BY <1>1, <1>2, <1>3, <1>4

\* The mutation begins with the transition to applying of its own decision.
LEMMA EnterMutationIInv ==
    ASSUME IInv, NEW s \in Servers, EnterMutation(s)
    PROVE  IInv'
<1> USE DEF EnterMutation, Transition, TypeOK, Calls,
           IInv, RecordOK, Unique, Owns, CallOK, CreatesReview,
           CreatesAccepted, MovesDrain, Reviews, DrainOK, ReviewLockIsPending,
           AuditMatchesGit, Idle, NoCall, Free, NonReview, ReviewActions
<1>1. TypeOK'
  BY DEF Statuses, Phases
<1>2. RecordOK' /\ ReviewLockIsPending' /\ AuditMatchesGit'
  OBVIOUS
<1>3. Unique'
  OBVIOUS
<1>4. ASSUME NEW r \in Servers PROVE CallOK(r)' /\ DrainOK(r)'
  <2>1. CASE r = s
    BY SMTT(60), <2>1
  <2>2. CASE r # s
    BY <2>2
  <2> QED BY <2>1, <2>2
<1> QED BY <1>1, <1>2, <1>3, <1>4

\* A drain commits while its record says applying, and moves on to applied.
LEMMA ApplyCommitsIInv ==
    ASSUME IInv, NEW s \in Servers, ApplyCommits(s)
    PROVE  IInv'
<1> USE DEF ApplyCommits, Transition, TypeOK, Calls,
           IInv, RecordOK, Unique, Owns, CallOK, CreatesReview,
           CreatesAccepted, MovesDrain, Reviews, DrainOK, ReviewLockIsPending,
           AuditMatchesGit, Idle, NoCall, Free, NonReview, ReviewActions
<1>1. TypeOK'
  BY DEF Statuses, Phases
<1>2. RecordOK' /\ ReviewLockIsPending' /\ AuditMatchesGit'
  OBVIOUS
<1>3. Unique'
  BY SMTT(60)
<1>4. ASSUME NEW r \in Servers PROVE CallOK(r)' /\ DrainOK(r)'
  <2>1. CASE r = s
    BY <2>1
  <2>2. CASE r # s
    BY SMTT(60), <2>2
  <2> QED BY <2>1, <2>2
<1> QED BY <1>1, <1>2, <1>3, <1>4

\* A failed apply has committed nothing, or its commit raised after it was made.
LEMMA ApplyFailsIInv ==
    ASSUME IInv, NEW s \in Servers, ApplyFails(s)
    PROVE  IInv'
<1> USE DEF ApplyFails, Raised, Transition, TypeOK, Calls,
           IInv, RecordOK, Unique, Owns, CallOK, CreatesReview,
           CreatesAccepted, MovesDrain, Reviews, DrainOK, ReviewLockIsPending,
           AuditMatchesGit, Idle, NoCall, Free, NonReview, ReviewActions
<1>1. TypeOK'
  BY DEF Statuses, Phases
<1>2. RecordOK' /\ ReviewLockIsPending' /\ AuditMatchesGit'
  OBVIOUS
<1>3. Unique'
  OBVIOUS
<1>4. ASSUME NEW r \in Servers PROVE CallOK(r)' /\ DrainOK(r)'
  <2>1. CASE r = s
    <3> DEFINE d == drain[s].decision
    <3>1. d \in Decisions /\ d \notin commits /\ verdict[d] \in NonReview /\ record[d] = "applying"
      OBVIOUS
    <3>2. drain'[s].phase = "failing" /\ drain'[s].decision = d /\ ~Free(s)'
      OBVIOUS
    <3>3. call'[s] = Transition("drain", d, "failed")
      OBVIOUS
    <3>4. UNCHANGED <<verdict, record>> /\ (d \in commits' => d \in unread')
      BY <3>1
    <3>5. CallOK(s)'
      BY <3>1, <3>2, <3>3, <3>4
    <3>6. DrainOK(s)'
      BY <3>1, <3>2, <3>4
    <3> QED BY <3>5, <3>6, <2>1
  <2>2. CASE r # s
    BY <2>2
  <2> QED BY <2>1, <2>2
<1> QED BY <1>1, <1>2, <1>3, <1>4

\* A failing rollback leaves the record in applying.
LEMMA RollbackFailsIInv ==
    ASSUME IInv, NEW s \in Servers, RollbackFails(s)
    PROVE  IInv'
<1> USE DEF RollbackFails, Raised, Transition, TypeOK, Calls,
           IInv, RecordOK, Unique, Owns, CallOK, CreatesReview,
           CreatesAccepted, MovesDrain, Reviews, DrainOK, ReviewLockIsPending,
           AuditMatchesGit, Idle, NoCall, Free, NonReview, ReviewActions
<1>1. TypeOK'
  BY DEF Statuses, Phases
<1>2. RecordOK' /\ ReviewLockIsPending' /\ AuditMatchesGit'
  OBVIOUS
<1>3. Unique'
  OBVIOUS
<1>4. ASSUME NEW r \in Servers PROVE CallOK(r)' /\ DrainOK(r)'
  <2>1. CASE r = s
    BY <2>1
  <2>2. CASE r # s
    BY <2>2
  <2> QED BY <2>1, <2>2
<1> QED BY <1>1, <1>2, <1>3, <1>4

\* A crash forgets the drain and the call of a server and leaves the files.
LEMMA CrashIInv ==
    ASSUME IInv, NEW s \in Servers, Crash(s)
    PROVE  IInv'
<1> USE DEF Crash, Transition, TypeOK, Calls,
           IInv, RecordOK, Unique, Owns, CallOK, CreatesReview,
           CreatesAccepted, MovesDrain, Reviews, DrainOK, ReviewLockIsPending,
           AuditMatchesGit, Idle, NoCall, Free, NonReview, ReviewActions
<1>1. TypeOK'
  BY DEF Statuses, Phases
<1>2. RecordOK' /\ ReviewLockIsPending' /\ AuditMatchesGit'
  OBVIOUS
<1>3. Unique'
  OBVIOUS
<1>4. ASSUME NEW r \in Servers PROVE CallOK(r)' /\ DrainOK(r)'
  <2>1. CASE r = s
    BY <2>1
  <2>2. CASE r # s
    BY <2>2
  <2> QED BY <2>1, <2>2
<1> QED BY <1>1, <1>2, <1>3, <1>4

\* A new decision: nobody has used its id, in a file or in a call.
LEMMA DecideIInv ==
    ASSUME IInv, NEW s \in Servers, NEW d \in Decisions, NEW v \in Verdicts, Decide(s, d, v)
    PROVE  IInv'
<1> USE DEF Verdicts, TypeOK, Calls,
           IInv, RecordOK, Unique, Owns, CallOK, CreatesReview,
           CreatesAccepted, MovesDrain, Reviews, DrainOK, ReviewLockIsPending,
           AuditMatchesGit, Idle, NoCall, Free, NonReview, ReviewActions
<1>1. UNCHANGED <<lock, record, commits, unread, incidents>> /\ verdict' = [verdict EXCEPT ![d] = v]
  BY DEF Decide
<1>2. drain[s].phase = "governing" /\ verdict[d] = "none" /\ call[s] = NoCall
  BY DEF Decide
<1>3. RecordOK' /\ ReviewLockIsPending' /\ AuditMatchesGit'
  BY <1>1, <1>2
<1>4. ASSUME NEW r \in Servers PROVE ~Owns(r, d)
  <2>1. CallOK(r) /\ DrainOK(r) /\ d # NoDecision
    OBVIOUS
  <2>2. ~(drain[r].phase \in {"accepted", "applying", "failing"} /\ drain[r].decision = d)
    BY <2>1, <1>2
  <2>3. ~(call[r].by = "drain" /\ call[r].decision = d)
    BY <2>1, <1>2
  <2> QED BY <2>2, <2>3
<1>5. record[d] = "absent" /\ d \notin commits
  <2>1. record[d] \in Statuses
    BY SMTT(60)
  <2> QED BY <2>1, <1>2 DEF Statuses
<1>6. ASSUME NEW c, call' = [call EXCEPT ![s] = c], NEW n, drain' = [drain EXCEPT ![s] = n],
             c \in Calls, n \in [phase : Phases, decision : Decisions \cup {NoDecision}],
             c.by = "drain", c.decision = d,
             \/ /\ v = "requires_review" /\ c.to = v /\ c.at = "acquire" /\ n = Idle
             \/ /\ v \in NonReview /\ c.to = "accepted" /\ c.at = "save"
                /\ n.phase = "accepted" /\ n.decision = d
      PROVE  IInv'
  <2>1. call'[s] = c /\ drain'[s] = n
    BY <1>6
  <2>2. \A r \in Servers : r # s => call'[r] = call[r] /\ drain'[r] = drain[r]
    BY <1>6
  <2>3. TypeOK'
    BY <1>1, <1>6
  <2>4. Unique'
    <3>1. \A r \in Servers : \A e \in Decisions : r # s => (Owns(r, e)' <=> Owns(r, e))
      BY <2>2
    <3>2. \A e \in Decisions : Owns(s, e)' => e = d
      BY <2>1, <1>6
    <3> QED BY <3>1, <3>2, <1>4 DEF Unique
  <2>5. ASSUME NEW r \in Servers, r # s PROVE CallOK(r)' /\ DrainOK(r)'
    BY <2>5, <2>2, <1>1, <1>2
  <2>6. verdict'[d] = v /\ record'[d] = "absent" /\ d \notin commits'
    BY <1>1, <1>5
  <2>7. CallOK(s)'
    BY <2>1, <2>6, <1>6
  <2>8. DrainOK(s)'
    BY <2>1, <2>6, <1>6
  <2> QED BY <1>3, <2>3, <2>4, <2>5, <2>7, <2>8
<1>7. CASE v = "requires_review"
  <2>1. Create("drain", d, "requires_review") \in Calls
    BY DEF Create, Statuses
  <2>2. Idle \in [phase : Phases, decision : Decisions \cup {NoDecision}]
    BY DEF Phases
  <2> QED BY <1>6, <1>7, <2>1, <2>2 DEF Decide, Create
<1>8. CASE v # "requires_review"
  <2>1. Create("drain", d, "accepted") \in Calls
    BY DEF Create, Statuses
  <2>2. [phase |-> "accepted", decision |-> d]
            \in [phase : Phases, decision : Decisions \cup {NoDecision}]
    BY DEF Phases
  <2> QED BY <1>6, <1>8, <2>1, <2>2 DEF Decide, Create
<1> QED BY <1>7, <1>8

\* A review only starts on a record that awaits one.
LEMMA ReviewIInv ==
    ASSUME IInv, NEW s \in Servers, NEW d \in Decisions, NEW a \in ReviewActions, Review(s, d, a)
    PROVE  IInv'
<1> USE DEF Review, Transition, TypeOK, Calls,
           IInv, RecordOK, Unique, Owns, CallOK, CreatesReview,
           CreatesAccepted, MovesDrain, Reviews, DrainOK, ReviewLockIsPending,
           AuditMatchesGit, Idle, NoCall, Free, NonReview, ReviewActions
<1>1. TypeOK'
  BY DEF Statuses
<1>2. RecordOK' /\ ReviewLockIsPending' /\ AuditMatchesGit'
  OBVIOUS
<1>3. Unique'
  OBVIOUS
<1>4. ASSUME NEW r \in Servers PROVE CallOK(r)' /\ DrainOK(r)'
  <2>1. CASE r = s
    BY <2>1
  <2>2. CASE r # s
    BY <2>2
  <2> QED BY <2>1, <2>2
<1> QED BY <1>1, <1>2, <1>3, <1>4

-----------------------------------------------------------------------------
\* No step of a server, of a request or of a crash breaks the invariant.
THEOREM NextIInv == IInv /\ [Next]_vars => IInv'
<1> SUFFICES ASSUME IInv, [Next]_vars PROVE IInv'
  OBVIOUS
<1>1. CASE UNCHANGED vars
  BY <1>1 DEF vars, IInv, TypeOK, RecordOK, Unique, Owns, CallOK, CreatesReview,
              CreatesAccepted, MovesDrain, Reviews, DrainOK, Free, ReviewLockIsPending,
              AuditMatchesGit
<1>2. ASSUME NEW s \in Servers, Service(s) PROVE IInv'
  BY <1>2, AcquireGetIInv, AcquireWriteIInv, GetIInv, ReleaseGetIInv, UnlinkIInv, SaveIInv
  DEF Service
<1>3. ASSUME NEW s \in Servers, Drain(s) PROVE IInv'
  BY <1>3, StartDrainIInv, GovernanceRaisesIInv, DecideIInv, EnterMutationIInv,
     ApplyCommitsIInv, ApplyFailsIInv, RollbackFailsIInv
  DEF Drain
<1>4. ASSUME NEW s \in Servers, Crash(s) PROVE IInv'
  BY <1>4, CrashIInv
<1>5. ASSUME NEW s \in Servers, NEW d \in Decisions, NEW a \in ReviewActions, Review(s, d, a)
      PROVE  IInv'
  BY <1>5, ReviewIInv
<1> QED BY <1>1, <1>2, <1>3, <1>4, <1>5 DEF Next

\* The inductive invariant holds in every reachable state, for any number of
\* servers and decisions.
THEOREM Invariance == Safety => []IInv
BY InitIInv, NextIInv, PTL DEF Safety

\* The files, the drains and the calls of the servers keep their types.
THEOREM TypeCorrect == Safety => []TypeOK
<1>1. IInv => TypeOK
  BY DEF IInv
<1> QED BY <1>1, Invariance, PTL

\* However many servers share the workspace and wherever they crash, a settled
\* decision never freezes the partition.
THEOREM ReviewLockAlwaysPending == Safety => []ReviewLockIsPending
<1>1. IInv => ReviewLockIsPending
  BY DEF IInv
<1> QED BY <1>1, Invariance, PTL

\* However many servers share the workspace and wherever they crash, applied
\* means committed, and a committed mutation is recorded as failed only if its
\* commit raised after it was made.
THEOREM AuditAlwaysMatchesGit == Safety => []AuditMatchesGit
<1>1. IInv => AuditMatchesGit
  BY DEF IInv
<1> QED BY <1>1, Invariance, PTL

-----------------------------------------------------------------------------
(* A workspace with one server *)

\* A drain that has passed the check of the review lock is the only one that
\* could take it.
DrainUnlocked == \A s \in Servers :
    /\ drain[s] # Idle => lock = NoDecision
    /\ drain[s] # Idle => call[s].at \notin {"acquire", "write"}

\* With one server the lock that was free before governance is still free
\* when the plan is applied: nothing but the drain itself could freeze the
\* partition.
THEOREM FrozenPartitionNeverMutated ==
    ASSUME NEW server, Servers = {server}
    PROVE  Safety => []FrozenPartitionIsNotMutated
<1>1. Init => DrainUnlocked
  BY DEF Init, DrainUnlocked
<1>2. IInv /\ DrainUnlocked /\ [Next]_vars => DrainUnlocked'
  <2> SUFFICES ASSUME IInv, DrainUnlocked, [Next]_vars PROVE DrainUnlocked'
    OBVIOUS
  <2> USE DEF DrainUnlocked, IInv, TypeOK, Calls, Idle, NoCall, Free
  <2>1. CASE UNCHANGED vars
    BY <2>1 DEF vars
  <2>2. ASSUME NEW s \in Servers, Service(s) PROVE DrainUnlocked'
    BY <2>2 DEF Service, AcquireGet, AcquireWrite, Get, ReleaseGet, Unlink, Save, Goto, Raise,
                Return, Calling
  <2>3. ASSUME NEW s \in Servers, Drain(s) PROVE DrainUnlocked'
    BY <2>3 DEF Drain, StartDrain, GovernanceRaises, Decide, EnterMutation, ApplyCommits,
                ApplyFails, RollbackFails, Create, Transition
  <2>4. ASSUME NEW s \in Servers, Crash(s) PROVE DrainUnlocked'
    BY <2>4 DEF Crash
  <2>5. ASSUME NEW s \in Servers, NEW d \in Decisions, NEW a \in ReviewActions, Review(s, d, a)
        PROVE  DrainUnlocked'
    BY <2>5 DEF Review, Transition
  <2> QED BY <2>1, <2>2, <2>3, <2>4, <2>5 DEF Next
<1>3. DrainUnlocked => FrozenPartitionIsNotMutated
  BY DEF DrainUnlocked, FrozenPartitionIsNotMutated, Mutating, Idle
<1> QED BY <1>1, <1>2, <1>3, Invariance, PTL DEF Safety

\* What the two files say of a decision is the same, except in the calls that
\* change both: a creation has the lock before its record, a review removes the
\* lock before it saves the record.
Agree == \A d \in Decisions : record[d] = "requires_review" <=> lock = d

CallAgrees(s) ==
    /\ call[s].at # "save" => Agree
    /\ call[s].at = "write" => lock = NoDecision
    /\ call[s].at = "unlink" => lock = call[s].decision
    /\ call[s].at = "save" /\ call[s].to = "requires_review" =>
           lock = call[s].decision /\ \A d \in Decisions : record[d] # "requires_review"
    /\ call[s].at = "save" /\ call[s].to # "requires_review" =>
           /\ lock # call[s].decision
           /\ \A d \in Decisions : d # call[s].decision => (record[d] = "requires_review" <=> lock = d)

FilesAgree == incidents = 0 => \A s \in Servers : CallAgrees(s)

\* The step of a call: with one server, nothing comes between two of its accesses.
LEMMA ServiceAgrees ==
    ASSUME NEW server, Servers = {server}, IInv, FilesAgree, NEW s \in Servers, Service(s)
    PROVE  FilesAgree'
<1> SUFFICES ASSUME incidents = 0 PROVE CallAgrees(s)'
  BY DEF FilesAgree, Service, AcquireGet, AcquireWrite, Get, ReleaseGet, Unlink, Save
<1> USE DEF IInv, RecordOK, CallOK, CreatesReview, CreatesAccepted, MovesDrain, Reviews,
            NonReview, ReviewActions, Calling
<1>1. TypeOK /\ CallAgrees(s) /\ CallOK(s) /\ call[s] \in Calls BY DEF FilesAgree, TypeOK
<1>2. ASSUME Raise(s), call[s].at # "save", UNCHANGED <<lock, record>> PROVE CallAgrees(s)'
  BY <1>1, <1>2, RaiseFacts DEF CallAgrees, Agree, NoCall
<1>3. CASE AcquireGet(s)
  <2>1. CASE Goto(s, "write")
    <3>1. lock \in {NoDecision, call[s].decision} /\ call[s].at = "acquire" /\ UNCHANGED <<lock, record>>
      BY <1>3, <2>1, <1>1 DEF AcquireGet, Raise, Goto, NoCall, TypeOK, Calls
    <3>2. call'[s].at = "write" BY <2>1, <1>1, GotoFacts
    <3>3. record[call[s].decision] = "absent" /\ call[s].decision \in Decisions BY <1>1, <3>1 DEF NoCall
    <3> QED BY <1>1, <3>1, <3>2, <3>3 DEF CallAgrees, Agree
  <2>2. CASE Raise(s) BY <1>2, <1>3, <2>2 DEF AcquireGet
  <2> QED BY <1>3, <2>1, <2>2 DEF AcquireGet
<1>4. CASE AcquireWrite(s)
  <2>1. call'[s].at = "save" /\ call'[s].to = call[s].to /\ call'[s].decision = call[s].decision
    BY <1>1, <1>4, GotoFacts DEF AcquireWrite
  <2>2. call[s].to = "requires_review" /\ lock' = call[s].decision /\ record' = record /\ call[s].at = "write"
    BY <1>1, <1>4 DEF AcquireWrite, NoCall
  <2> QED BY <1>1, <2>1, <2>2 DEF CallAgrees, Agree
<1>5. CASE Get(s)
  <2>1. call[s].at = "get" /\ UNCHANGED <<lock, record>> BY <1>5 DEF Get
  <2>2. CASE Goto(s, "release") BY <1>1, <2>1, <2>2, GotoFacts DEF CallAgrees, Agree
  <2>3. CASE Goto(s, "save") /\ ~Releasing(call[s].to)
    <3>1. call[s].to = "applying" /\ lock # call[s].decision BY <1>1, <2>1, <2>3 DEF Releasing, NoCall
    <3> QED BY <1>1, <2>1, <2>3, <3>1, GotoFacts DEF CallAgrees, Agree
  <2>4. CASE Raise(s) BY <1>2, <2>1, <2>4
  <2>5. Goto(s, IF Releasing(call[s].to) THEN "release" ELSE "save") \/ Raise(s) BY <1>5, Zenon DEF Get
  <2> QED BY <2>2, <2>3, <2>4, <2>5
<1>6. CASE ReleaseGet(s)
  <2>1. call[s].at = "release" /\ UNCHANGED <<lock, record>> BY <1>6 DEF ReleaseGet
  <2>2. call[s].to # "requires_review" /\ call[s].decision \in Decisions BY <1>1, <2>1 DEF NoCall
  <2>3. CASE lock = NoDecision /\ Goto(s, "save")
    BY <1>1, <2>1, <2>2, <2>3, GotoFacts DEF CallAgrees, Agree
  <2>4. CASE lock = call[s].decision /\ Goto(s, "unlink")
    BY <1>1, <2>1, <2>2, <2>4, GotoFacts DEF CallAgrees, Agree
  <2>5. CASE Raise(s) BY <1>2, <2>1, <2>5
  <2> QED BY <1>6, <2>3, <2>4, <2>5, Zenon DEF ReleaseGet
<1>7. CASE Unlink(s)
  <2>1. call[s].at = "unlink" /\ lock' = NoDecision /\ record' = record /\ Goto(s, "save") BY <1>7 DEF Unlink
  <2>2. call[s].to # "requires_review" /\ call[s].decision \in Decisions BY <1>1, <2>1 DEF NoCall
  <2> QED BY <1>1, <2>1, <2>2, GotoFacts DEF CallAgrees, Agree
<1>8. CASE Save(s)
  <2>1. /\ call'[s] = NoCall /\ lock' = lock
        /\ record' = [record EXCEPT ![call[s].decision] = call[s].to]
    BY <1>1, <1>8 DEF Save, Return, TypeOK
  <2>2. call[s].at = "save" /\ call[s].decision \in Decisions BY <1>1, <1>8 DEF Save, NoCall
  <2> QED BY <1>1, <2>1, <2>2 DEF CallAgrees, Agree, NoCall, TypeOK
<1> QED BY <1>3, <1>4, <1>5, <1>6, <1>7, <1>8 DEF Service

\* Everything else happens between two calls and starts at most one.
LEMMA OthersAgree ==
    ASSUME IInv, FilesAgree, NEW s \in Servers,
           \/ Drain(s) \/ Crash(s)
           \/ \E d \in Decisions, a \in ReviewActions : Review(s, d, a)
    PROVE  FilesAgree'
<1>1. TypeOK /\ (\A r \in Servers : call[r] \in Calls) BY DEF IInv, TypeOK
<1>2. CASE Crash(s) \/ RollbackFails(s) BY <1>1, <1>2 DEF Crash, RollbackFails, FilesAgree, TypeOK
<1>3. ASSUME NEW c, call' = [call EXCEPT ![s] = c], Free(s), UNCHANGED <<lock, record, incidents>>,
             \/ c.at \in {"get", "acquire"}
             \/ /\ c.at = "save" /\ c.to = "accepted"
                /\ lock # c.decision
      PROVE  FilesAgree'
  <2> SUFFICES ASSUME incidents = 0, NEW r \in Servers PROVE CallAgrees(r)'
    BY <1>3 DEF FilesAgree
  <2>1. CASE r = s BY <1>1, <1>3, <2>1 DEF FilesAgree, CallAgrees, Agree, Free, NoCall, TypeOK
  <2>2. CASE r # s BY <1>1, <1>3, <2>2 DEF FilesAgree, CallAgrees, Agree, TypeOK
  <2> QED BY <2>1, <2>2
<1>4. CASE StartDrain(s) \/ GovernanceRaises(s)
  BY <1>4 DEF StartDrain, GovernanceRaises, FilesAgree, CallAgrees, Agree
<1>5. ASSUME NEW d \in Decisions, NEW v \in Verdicts, Decide(s, d, v) PROVE FilesAgree'
  <2>1. Free(s) /\ UNCHANGED <<lock, record, incidents>> /\ verdict[d] = "none" BY <1>5 DEF Decide
  <2>2. lock # d BY <2>1 DEF IInv, RecordOK
  <2>3. CASE v = "requires_review" BY <1>3, <1>5, <2>1, <2>3 DEF Decide, Create
  <2>4. CASE v # "requires_review" BY <1>3, <1>5, <2>1, <2>2, <2>4 DEF Decide, Create
  <2> QED BY <2>3, <2>4
<1>6. CASE EnterMutation(s) \/ ApplyCommits(s) \/ ApplyFails(s)
  BY <1>3, <1>6 DEF EnterMutation, ApplyCommits, ApplyFails, Transition
<1>7. CASE \E d \in Decisions, a \in ReviewActions : Review(s, d, a)
  BY <1>3, <1>7 DEF Review, Transition
<1> QED BY <1>2, <1>4, <1>5, <1>6, <1>7 DEF Drain

\* With one server, and as long as nothing crashed, a decision awaits its review
\* between two calls exactly when it freezes the partition: for any number of
\* decisions, drains and reviews.
THEOREM PendingReviewAlwaysFreezes ==
    ASSUME NEW server, Servers = {server}
    PROVE  Safety => []PendingReviewFreezes
<1>1. Init => FilesAgree
  BY DEF Init, FilesAgree, CallAgrees, Agree, NoCall
<1>2. IInv /\ FilesAgree /\ [Next]_vars => FilesAgree'
  <2> SUFFICES ASSUME IInv, FilesAgree, [Next]_vars PROVE FilesAgree'
    OBVIOUS
  <2>1. CASE UNCHANGED vars BY <2>1 DEF vars, FilesAgree, CallAgrees, Agree
  <2>2. ASSUME NEW s \in Servers, Service(s) PROVE FilesAgree' BY <2>2, ServiceAgrees
  <2>3. ASSUME NEW s \in Servers,
               \/ Drain(s) \/ Crash(s)
               \/ \E d \in Decisions, a \in ReviewActions : Review(s, d, a)
        PROVE  FilesAgree'
    BY <2>3, OthersAgree
  <2> QED BY <2>1, <2>2, <2>3 DEF Next
<1>3. FilesAgree => PendingReviewFreezes
  BY DEF FilesAgree, CallAgrees, Agree, PendingReviewFreezes, Free, NoCall
<1> QED BY <1>1, <1>2, <1>3, Invariance, PTL DEF Safety
=============================================================================
