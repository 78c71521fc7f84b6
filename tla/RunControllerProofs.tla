------------------------ MODULE RunControllerProofs ------------------------
(***************************************************************************)
(* Proofs about RunController, for any number of Attempts, crashes, failed *)
(* passes and polls, any retry policy and any launcher replies.            *)
(*                                                                         *)
(* ControllerInv adds PassInv to the stated invariants: what a pass may    *)
(* rely on at each point, which is what makes them inductive.  No other    *)
(* actor moves the Run while no execution is live, and a live execution    *)
(* belongs to the current Attempt; that is why the reads stay good.        *)
(*                                                                         *)
(* RunAuthority comes first, for every number of Attempts, restores and    *)
(* revisions: RunInv, the conjunction of its invariants, is inductive, and *)
(* each conjunct needs some of the others.  OneLineage needs               *)
(* EndedWasContacted (a terminal Attempt has a row), SessionFollowsAttempt *)
(* needs both, and OneCandidate needs the slot and phase facts of the same *)
(* rows.                                                                   *)
(***************************************************************************)
EXTENDS RunController, TLAPS, FiniteSetTheorems

RunInv ==
    /\ TypeOK
    /\ OneLineage
    /\ SessionFollowsAttempt
    /\ EndedWasContacted
    /\ OneCandidate
    /\ SlotWhileNonterminal

----------------------------------------------------------------------------

\* The state T3 leaves behind satisfies the invariant.
LEMMA InitRunInv == Init => RunInv
<1> SUFFICES ASSUME Init PROVE RunInv
    OBVIOUS
<1> USE RunAssumption
<1>1. TypeOK
    BY DEF Init, TypeOK, OpenGoalPhases, NonterminalRunPhases, Conclusions,
           Observations, NoRow, NoAttempt, RunRows, AttemptRows, SessionRows
<1>2. History = {}
    BY DEF Init, History, Created, NoRow
<1>3. OneLineage
    BY <1>2 DEF Init, OneLineage, Nonterminal, Created, NoRow, NoAttempt
<1>4. SessionFollowsAttempt /\ EndedWasContacted
    BY DEF Init, SessionFollowsAttempt, EndedWasContacted, Nonterminal,
           Created, NoRow
<1>5. OneCandidate /\ SlotWhileNonterminal
    BY DEF Init, OneCandidate, SlotWhileNonterminal, NonterminalRunPhases
<1>6. QED
    BY <1>1, <1>3, <1>4, <1>5 DEF RunInv

\* A step that leaves the Attempt and session rows and the Run's current
\* pointer alone keeps the facts about the lineage.
LEMMA LineageUntouched ==
    ASSUME OneLineage, SessionFollowsAttempt, EndedWasContacted,
           attempt' = attempt, session' = session, run'.current = run.current
    PROVE  OneLineage' /\ SessionFollowsAttempt' /\ EndedWasContacted'
BY DEF OneLineage, SessionFollowsAttempt, EndedWasContacted, History,
       Nonterminal, Created

\* A step that leaves the Run and the request rows alone keeps the facts
\* about the Candidate and the slot.
LEMMA CandidateUntouched ==
    ASSUME OneCandidate, SlotWhileNonterminal, run' = run, requests' = requests
    PROVE  OneCandidate' /\ SlotWhileNonterminal'
BY DEF OneCandidate, SlotWhileNonterminal

\* The rows the updates of run_status write are rows of run_status.
LEMMA RunRowMoved ==
    ASSUME run \in RunRows, NEW n \in Ordinals
    PROVE  [run EXCEPT !.current = n, !.revision = run.revision + 1] \in RunRows
<1> DEFINE moved == [run EXCEPT !.current = n]
<1>1. moved \in RunRows /\ run.revision + 1 \in Nat
    BY DEF RunRows
<1> HIDE DEF moved
<1>2. [moved EXCEPT !.revision = run.revision + 1] \in RunRows
    BY <1>1 DEF RunRows
<1>3. QED
    BY <1>2 DEF moved

LEMMA RunRowConcluded ==
    ASSUME run \in RunRows, NEW t \in Conclusions
    PROVE  [run EXCEPT !.phase = t, !.target = t, !.slot = FALSE,
                       !.revision = run.revision + 1] \in RunRows
<1> DEFINE a == [run EXCEPT !.phase = t]
           b == [a EXCEPT !.target = t]
           c == [b EXCEPT !.slot = FALSE]
<1>1. a \in RunRows /\ run.revision + 1 \in Nat
    BY DEF RunRows
<1> HIDE DEF a
<1>2. b \in RunRows
    BY <1>1 DEF RunRows
<1> HIDE DEF b
<1>3. c \in RunRows
    BY <1>2 DEF RunRows
<1> HIDE DEF c
<1>4. [c EXCEPT !.revision = run.revision + 1] \in RunRows
    BY <1>1, <1>3 DEF RunRows
<1>5. QED
    BY <1>4 DEF a, b, c

LEMMA RunRowSubmitted ==
    ASSUME run \in RunRows, NEW d \in Candidates
    PROVE  [run EXCEPT !.phase = "Finalizing", !.target = "Completed",
                       !.candidate = d, !.revision = run.revision + 1]
                \in RunRows
<1> DEFINE a == [run EXCEPT !.phase = "Finalizing"]
           b == [a EXCEPT !.target = "Completed"]
           c == [b EXCEPT !.candidate = d]
<1>1. a \in RunRows /\ run.revision + 1 \in Nat
    BY DEF RunRows, NonterminalRunPhases
<1> HIDE DEF a
<1>2. b \in RunRows
    BY <1>1 DEF RunRows
<1> HIDE DEF b
<1>3. c \in RunRows
    BY <1>2 DEF RunRows
<1> HIDE DEF c
<1>4. [c EXCEPT !.revision = run.revision + 1] \in RunRows
    BY <1>1, <1>3 DEF RunRows
<1>5. QED
    BY <1>4 DEF a, b, c

\* T4 keeps the invariant: the new Attempt is the only nonterminal one.
LEMMA CreateKeepsInv ==
    ASSUME RunInv, NEW n \in Ordinals, CreateAttempt(n, run.revision)
    PROVE  RunInv'
<1> USE RunAssumption
<1> DEFINE row == [observed |-> "ABSENT", terminal |-> FALSE,
                   contact |-> "NOT_CONTACTED", revision |-> 1]
           acs == [state |-> "ACTIVE", credential |-> 1,
                   generation |-> generation]
<1>1. /\ attempt' = [attempt EXCEPT ![n] = row]
      /\ session' = [session EXCEPT ![n] = acs]
      /\ run' = [run EXCEPT !.current = n, !.revision = @ + 1]
      /\ UNCHANGED <<generation, goal, task, plan, requests>>
    BY DEF CreateAttempt
<1>2. TypeOK
    BY DEF RunInv
<1>3. TypeOK'
  <2>1. row \in AttemptRows
    BY DEF AttemptRows, Observations
  <2>2. acs \in SessionRows
    BY <1>2 DEF TypeOK, SessionRows
  <2>3. run' \in RunRows
    BY <1>1, <1>2, RunRowMoved DEF TypeOK
  <2> HIDE DEF row, acs
  <2>4. attempt' \in [Ordinals -> AttemptRows]
    BY <1>1, <1>2, <2>1 DEF TypeOK
  <2>5. session' \in [Ordinals -> SessionRows]
    BY <1>1, <1>2, <2>2 DEF TypeOK
  <2>6. QED
    BY <1>1, <1>2, <2>3, <2>4, <2>5 DEF TypeOK
<1>4. \A m \in Ordinals : m # n => attempt'[m] = attempt[m]
                                   /\ session'[m] = session[m]
    BY <1>1, <1>2 DEF TypeOK
<1>5. attempt'[n] = row /\ session'[n] = acs
    BY <1>1, <1>2 DEF TypeOK
<1>6. History = 1 .. (n - 1) /\ \A m \in Ordinals : ~Nonterminal(m)
    BY DEF CreateAttempt
<1>7. Nonterminal(n)' /\ Created(n)'
    BY <1>5 DEF Nonterminal, Created, NoRow
<1>8. \A m \in Ordinals : m # n => /\ Created(m)' <=> Created(m)
                                   /\ ~Nonterminal(m)'
    BY <1>4, <1>6 DEF Nonterminal, Created
<1>9. OneLineage'
  <2>1. History' = History \cup {n}
    BY <1>7, <1>8 DEF History
  <2>2. n \in Nat
    BY DEF Ordinals
  <2>3. run'.current = n
    BY <1>1, <1>2 DEF TypeOK, RunRows
  <2>4. History' = 1 .. n
    BY <2>1, <2>2, <1>6 DEF Ordinals
  <2>5. QED
    BY <2>3, <2>4, <1>7, <1>8 DEF OneLineage
<1>10. SessionFollowsAttempt'
    BY <1>4, <1>5, <1>6, <1>7, <1>8
    DEF RunInv, SessionFollowsAttempt, NoRow
<1>11. EndedWasContacted'
    BY <1>4, <1>5 DEF RunInv, EndedWasContacted
<1>12. run'.phase = run.phase /\ run'.slot = run.slot
         /\ run'.candidate = run.candidate /\ requests' = requests
    BY <1>1, <1>2 DEF TypeOK, RunRows
<1>13. OneCandidate' /\ SlotWhileNonterminal'
    BY <1>12 DEF RunInv, OneCandidate, SlotWhileNonterminal
<1>14. QED
    BY <1>3, <1>9, <1>10, <1>11, <1>13 DEF RunInv

\* T4a keeps the invariant: only a credential revision moves.
LEMMA RekeyKeepsInv ==
    ASSUME RunInv, NEW n \in Ordinals, RekeySession(n, session[n].credential)
    PROVE  RunInv'
<1>1. TypeOK
    BY DEF RunInv
<1>2. /\ session' = [session EXCEPT ![n].credential = @ + 1]
      /\ UNCHANGED <<generation, goal, task, run, plan, attempt, requests>>
    BY DEF RekeySession
<1>3. TypeOK'
  <2>1. session' \in [Ordinals -> SessionRows]
    BY <1>1, <1>2 DEF TypeOK, SessionRows
  <2>2. QED
    BY <1>1, <1>2, <2>1 DEF TypeOK
<1>4. \A m \in Ordinals : session'[m].state = session[m].state
    BY <1>1, <1>2 DEF TypeOK, SessionRows
<1>5. OneLineage' /\ SessionFollowsAttempt' /\ EndedWasContacted'
    BY <1>2, <1>4 DEF RunInv, OneLineage, SessionFollowsAttempt,
                      EndedWasContacted, History, Nonterminal, Created
<1>6. QED
    BY <1>2, <1>3, <1>5, CandidateUntouched DEF RunInv

\* A step that changes one Attempt row but neither its existence nor its end
\* keeps the invariant: T4b and the nonterminal observations.
LEMMA StatusUpdateKeepsInv ==
    ASSUME RunInv, NEW n \in Ordinals, Created(n),
           attempt' \in [Ordinals -> AttemptRows],
           \A m \in Ordinals : m # n => attempt'[m] = attempt[m],
           attempt'[n].terminal = attempt[n].terminal,
           attempt'[n].contact \in {attempt[n].contact,
                                    "CONTACT_MAY_HAVE_OCCURRED"},
           UNCHANGED <<generation, goal, task, run, plan, session, requests>>
    PROVE  RunInv'
<1>1. TypeOK'
    BY DEF RunInv, TypeOK
<1>2. \A m \in Ordinals : /\ Created(m)' <=> Created(m)
                          /\ Nonterminal(m)' <=> Nonterminal(m)
    BY DEF Created, Nonterminal, NoRow
<1>3. OneLineage' /\ SessionFollowsAttempt'
    BY <1>2 DEF RunInv, OneLineage, SessionFollowsAttempt, History
<1>4. EndedWasContacted'
    BY DEF RunInv, EndedWasContacted
<1>5. QED
    BY <1>1, <1>3, <1>4, CandidateUntouched DEF RunInv

LEMMA MarkKeepsInv ==
    ASSUME RunInv, NEW n \in Ordinals,
           MarkLaunchContact(n, attempt[n].revision, session[n].credential)
    PROVE  RunInv'
<1>1. attempt \in [Ordinals -> AttemptRows]
    BY DEF RunInv, TypeOK
<1>2. attempt' = [attempt EXCEPT
                    ![n].contact = "CONTACT_MAY_HAVE_OCCURRED",
                    ![n].revision = @ + 1]
    BY DEF MarkLaunchContact
<1>3. attempt' \in [Ordinals -> AttemptRows]
    BY <1>1, <1>2 DEF AttemptRows
<1>4. /\ \A m \in Ordinals : m # n => attempt'[m] = attempt[m]
      /\ attempt'[n].terminal = attempt[n].terminal
      /\ attempt'[n].contact = "CONTACT_MAY_HAVE_OCCURRED"
    BY <1>1, <1>2 DEF AttemptRows
<1>5. QED
    BY <1>3, <1>4, StatusUpdateKeepsInv DEF MarkLaunchContact, Nonterminal

LEMMA ObserveKeepsInv ==
    ASSUME RunInv, NEW n \in Ordinals, NEW o \in Observations,
           ObserveExecution(n, attempt[n].revision, o)
    PROVE  RunInv'
<1>1. attempt \in [Ordinals -> AttemptRows]
    BY DEF RunInv, TypeOK
<1>2. attempt' = [attempt EXCEPT ![n].observed = o, ![n].revision = @ + 1]
    BY DEF ObserveExecution
<1>3. attempt' \in [Ordinals -> AttemptRows]
    BY <1>1, <1>2 DEF AttemptRows
<1>4. /\ \A m \in Ordinals : m # n => attempt'[m] = attempt[m]
      /\ attempt'[n].terminal = attempt[n].terminal
      /\ attempt'[n].contact = attempt[n].contact
    BY <1>1, <1>2 DEF AttemptRows
<1>5. QED
    BY <1>3, <1>4, StatusUpdateKeepsInv DEF ObserveExecution

\* Terminalization keeps the invariant: the Attempt and its session end in
\* the same step.
LEMMA TerminalizeKeepsInv ==
    ASSUME RunInv, NEW n \in Ordinals, NEW o \in Observations,
           TerminalizeAttempt(n, attempt[n].revision, o)
    PROVE  RunInv'
<1>1. TypeOK
    BY DEF RunInv
<1>2. /\ attempt[n].contact = "CONTACT_MAY_HAVE_OCCURRED"
      /\ attempt' = [attempt EXCEPT ![n].observed = o, ![n].terminal = TRUE,
                                    ![n].revision = @ + 1]
      /\ session' = [session EXCEPT ![n].state = "REVOKED"]
      /\ UNCHANGED <<generation, goal, task, run, plan, requests>>
    BY DEF TerminalizeAttempt
<1>3. attempt' \in [Ordinals -> AttemptRows]
    BY <1>1, <1>2 DEF TypeOK, AttemptRows
<1>4. session' \in [Ordinals -> SessionRows]
    BY <1>1, <1>2 DEF TypeOK, SessionRows
<1>5. TypeOK'
    BY <1>1, <1>2, <1>3, <1>4 DEF TypeOK
<1>6. /\ \A m \in Ordinals : m # n => /\ attempt'[m] = attempt[m]
                                      /\ session'[m] = session[m]
      /\ attempt'[n].terminal /\ attempt'[n].contact = attempt[n].contact
    BY <1>1, <1>2 DEF TypeOK, AttemptRows, SessionRows
<1>7. session'[n].state = "REVOKED"
    BY <1>1, <1>2 DEF TypeOK, SessionRows
<1>8. Created(n) /\ Created(n)' /\ ~Nonterminal(n)'
    BY <1>2, <1>6 DEF Created, Nonterminal, NoRow
<1>9. \A m \in Ordinals : m # n => /\ Created(m)' <=> Created(m)
                                   /\ Nonterminal(m)' <=> Nonterminal(m)
    BY <1>6 DEF Created, Nonterminal
<1>10. OneLineage'
  <2>1. History' = History
    BY <1>8, <1>9 DEF History
  <2>2. QED
    BY <1>2, <1>8, <1>9, <2>1 DEF RunInv, OneLineage
<1>11. SessionFollowsAttempt'
    BY <1>6, <1>7, <1>8, <1>9 DEF RunInv, SessionFollowsAttempt, NoRow
<1>12. EndedWasContacted'
  <2> SUFFICES ASSUME NEW m \in Ordinals, attempt'[m].terminal
               PROVE  attempt'[m].contact = "CONTACT_MAY_HAVE_OCCURRED"
    BY DEF EndedWasContacted
  <2>1. CASE m = n
    BY <2>1, <1>2, <1>6
  <2>2. CASE m # n
    BY <2>2, <1>6 DEF RunInv, EndedWasContacted
  <2>3. QED
    BY <2>1, <2>2
<1>13. QED
    BY <1>2, <1>5, <1>10, <1>11, <1>12, CandidateUntouched DEF RunInv

\* Concluding the Run keeps the invariant, whatever phase it was in.
LEMMA ConcludeKeepsInv ==
    ASSUME RunInv, NEW t \in Conclusions, ConcludeRun(t, run.revision)
    PROVE  RunInv'
<1>1. TypeOK
    BY DEF RunInv
<1>2. /\ run' = [run EXCEPT !.phase = t, !.target = t, !.slot = FALSE,
                            !.revision = run.revision + 1]
      /\ UNCHANGED <<generation, goal, task, plan, attempt, session, requests>>
    BY DEF ConcludeRun
<1>3. run' \in RunRows
    BY <1>1, <1>2, RunRowConcluded DEF TypeOK
<1>4. TypeOK'
    BY <1>1, <1>2, <1>3 DEF TypeOK
<1>5. /\ run'.phase = t /\ run'.slot = FALSE
      /\ run'.candidate = run.candidate /\ run'.current = run.current
    BY <1>1, <1>2 DEF TypeOK, RunRows
<1>6. OneCandidate' /\ SlotWhileNonterminal'
    BY <1>2, <1>5 DEF RunInv, OneCandidate, SlotWhileNonterminal,
                      NonterminalRunPhases, Conclusions
<1>7. QED
    BY <1>2, <1>4, <1>5, <1>6, LineageUntouched DEF RunInv

\* Submission keeps the invariant: it is the only step that adds a request
\* row, and it leaves the Run outside Active.
LEMMA SubmitKeepsInv ==
    ASSUME RunInv, NEW n \in Ordinals, NEW r \in RequestIds,
           NEW d \in Candidates,
           SubmitCandidate(n, session[n].credential, r, d, task.revision)
    PROVE  RunInv'
<1> USE RunAssumption
<1> DEFINE row == [attempt |-> n, request |-> r, candidate |-> d]
<1>1. TypeOK
    BY DEF RunInv
<1>2. /\ run.candidate = NoCandidate /\ run.slot
      /\ requests' = requests \cup {row}
      /\ run' = [run EXCEPT !.phase = "Finalizing", !.target = "Completed",
                            !.candidate = d, !.revision = run.revision + 1]
      /\ task' = [phase |-> "Evaluating", revision |-> task.revision + 1]
      /\ UNCHANGED <<generation, goal, plan, attempt, session>>
    BY DEF SubmitCandidate
<1>3. TypeOK'
  <2>1. run' \in RunRows
    BY <1>1, <1>2, RunRowSubmitted DEF TypeOK
  <2>2. requests' \in SUBSET RequestRows
    BY <1>1, <1>2 DEF TypeOK, RequestRows
  <2>3. QED
    BY <1>1, <1>2, <2>1, <2>2 DEF TypeOK
<1>4. /\ run'.phase = "Finalizing" /\ run'.slot = run.slot
      /\ run'.candidate = d /\ run'.current = run.current
    BY <1>1, <1>2 DEF TypeOK, RunRows
<1>5. requests' = {row} /\ row.candidate = d
    BY <1>2 DEF RunInv, OneCandidate
<1>6. OneCandidate' /\ SlotWhileNonterminal'
    BY <1>2, <1>4, <1>5 DEF OneCandidate, SlotWhileNonterminal,
                            NonterminalRunPhases
<1>7. QED
    BY <1>2, <1>3, <1>4, <1>6, LineageUntouched DEF RunInv

\* The steps that touch no Attempt, no session and not the Run.
LEMMA OutsideKeepsInv ==
    ASSUME RunInv,
           \/ \E p \in Plans : AttachContextPlan(p)
           \/ CancelGoal
           \/ RotateGeneration
           \/ UNCHANGED vars
    PROVE  RunInv'
<1>1. UNCHANGED <<run, attempt, session, requests>>
    BY DEF AttachContextPlan, CancelGoal, RotateGeneration, vars
<1>2. TypeOK'
    BY DEF RunInv, TypeOK, AttachContextPlan, CancelGoal, RotateGeneration,
           vars
<1>3. QED
    BY <1>1, <1>2, LineageUntouched, CandidateUntouched DEF RunInv

----------------------------------------------------------------------------

\* Each step, and each stuttering step, keeps the invariant.
LEMMA NextKeepsInv ==
    ASSUME RunInv, [Next]_vars
    PROVE  RunInv'
<1>1. CASE \E p \in Plans : AttachContextPlan(p)
  BY <1>1, OutsideKeepsInv
<1>2. CASE CancelGoal \/ RotateGeneration \/ UNCHANGED vars
  BY <1>2, OutsideKeepsInv
<1>3. CASE \E n \in Ordinals : CreateAttempt(n, run.revision)
  BY <1>3, CreateKeepsInv
<1>4. CASE \E n \in Ordinals : RekeySession(n, session[n].credential)
  BY <1>4, RekeyKeepsInv
<1>5. CASE \E n \in Ordinals :
              MarkLaunchContact(n, attempt[n].revision, session[n].credential)
  BY <1>5, MarkKeepsInv
<1>6. CASE \E n \in Ordinals, o \in Observations :
              ObserveExecution(n, attempt[n].revision, o)
  BY <1>6, ObserveKeepsInv
<1>7. CASE \E n \in Ordinals, o \in Observations :
              TerminalizeAttempt(n, attempt[n].revision, o)
  BY <1>7, TerminalizeKeepsInv
<1>8. CASE \E n \in Ordinals, r \in RequestIds, d \in Candidates :
              SubmitCandidate(n, session[n].credential, r, d, task.revision)
  BY <1>8, SubmitKeepsInv
<1>9. CASE \E t \in Conclusions : ConcludeRun(t, run.revision)
  BY <1>9, ConcludeKeepsInv
<1>10. QED
  BY <1>1, <1>2, <1>3, <1>4, <1>5, <1>6, <1>7, <1>8, <1>9 DEF Next

\* Every invariant of the module holds in every reachable state: at most one
\* nonterminal Attempt and it is the Run's current one, sessions that live
\* exactly as long as their Attempts, ends only after contact, at most one
\* Candidate, and the slot held exactly while the Run is nonterminal.
THEOREM RunAuthoritySafe == Spec => []RunInv
<1>1. Init => RunInv
    BY InitRunInv
<1>2. RunInv /\ [Next]_vars => RunInv'
    BY NextKeepsInv
<1>3. QED
    BY <1>1, <1>2, PTL DEF Spec

\* "V1 permits at most one nonterminal Attempt per Run": T4 creates a
\* replacement only when every earlier Attempt of the Run has ended.
THEOREM AttemptsAreSerial == Spec => []OneLineage
<1>1. RunInv => OneLineage
    BY DEF RunInv
<1>2. QED
    BY <1>1, RunAuthoritySafe, PTL

\* "At most one Candidate per Run": T6 records the request, the Candidate and
\* the Run's move to Finalizing together, or nothing.
THEOREM CandidateIsUnique == Spec => []OneCandidate
<1>1. RunInv => OneCandidate
    BY DEF RunInv
<1>2. QED
    BY <1>1, RunAuthoritySafe, PTL

----------------------------------------------------------------------------
(* What no step may do.                                                    *)

\* The action CommittedFactsStand allows.
FactsStand ==
    /\ \A n \in Ordinals :
        attempt[n].contact = "CONTACT_MAY_HAVE_OCCURRED" =>
            /\ attempt'[n].contact = attempt[n].contact
            /\ attempt[n].terminal => attempt'[n].terminal
            /\ session'[n].credential = session[n].credential
    /\ plan # NoPlan => plan' = plan
    /\ run.candidate # NoCandidate => run'.candidate = run.candidate

\* Under the invariant, no step takes a committed fact back: a rekey needs an
\* Attempt that was never contacted, a new Attempt a fresh ordinal, a
\* submission a Run without a Candidate.
LEMMA StepKeepsFacts ==
    ASSUME RunInv, Next
    PROVE  FactsStand
<1> USE RunAssumption
<1>1. /\ run \in RunRows
      /\ attempt \in [Ordinals -> AttemptRows]
      /\ session \in [Ordinals -> SessionRows]
    BY DEF RunInv, TypeOK
<1>2. CASE \E p \in Plans : AttachContextPlan(p)
    BY <1>2 DEF AttachContextPlan, FactsStand
<1>3. ASSUME NEW n \in Ordinals, CreateAttempt(n, run.revision)
      PROVE  FactsStand
  <2>1. attempt[n].contact = NoRow
    BY <1>3 DEF CreateAttempt, History, Created
  <2>2. \A m \in Ordinals : m # n => /\ attempt'[m] = attempt[m]
                                    /\ session'[m] = session[m]
    BY <1>1, <1>3 DEF CreateAttempt
  <2>3. run'.candidate = run.candidate
    BY <1>1, <1>3 DEF CreateAttempt, RunRows
  <2>4. plan' = plan
    BY <1>3 DEF CreateAttempt
  <2>5. QED
    BY <2>1, <2>2, <2>3, <2>4 DEF FactsStand, NoRow
<1>4. ASSUME NEW n \in Ordinals, RekeySession(n, session[n].credential)
      PROVE  FactsStand
  <2>1. /\ attempt[n].contact = "NOT_CONTACTED"
        /\ attempt' = attempt /\ run' = run /\ plan' = plan
    BY <1>4 DEF RekeySession
  <2>2. \A m \in Ordinals : m # n => session'[m] = session[m]
    BY <1>1, <1>4 DEF RekeySession
  <2>3. QED
    BY <2>1, <2>2 DEF FactsStand
<1>5. ASSUME NEW n \in Ordinals,
             MarkLaunchContact(n, attempt[n].revision, session[n].credential)
      PROVE  FactsStand
  <2>1. attempt[n].contact = "NOT_CONTACTED"
        /\ session' = session /\ run' = run /\ plan' = plan
    BY <1>5 DEF MarkLaunchContact
  <2>2. \A m \in Ordinals : m # n => attempt'[m] = attempt[m]
    BY <1>1, <1>5 DEF MarkLaunchContact
  <2>3. QED
    BY <2>1, <2>2 DEF FactsStand
<1>6. ASSUME NEW n \in Ordinals, NEW o \in Observations,
             \/ ObserveExecution(n, attempt[n].revision, o)
             \/ TerminalizeAttempt(n, attempt[n].revision, o)
      PROVE  FactsStand
  <2>1. \A m \in Ordinals : /\ attempt'[m].contact = attempt[m].contact
                            /\ attempt[m].terminal => attempt'[m].terminal
    BY <1>1, <1>6 DEF ObserveExecution, TerminalizeAttempt, AttemptRows
  <2>2. \A m \in Ordinals : session'[m].credential = session[m].credential
    BY <1>1, <1>6 DEF ObserveExecution, TerminalizeAttempt, SessionRows
  <2>3. run' = run /\ plan' = plan
    BY <1>6 DEF ObserveExecution, TerminalizeAttempt
  <2>4. QED
    BY <2>1, <2>2, <2>3 DEF FactsStand
<1>7. ASSUME NEW n \in Ordinals, NEW r \in RequestIds, NEW d \in Candidates,
             SubmitCandidate(n, session[n].credential, r, d, task.revision)
      PROVE  FactsStand
    BY <1>7 DEF SubmitCandidate, FactsStand
<1>8. ASSUME NEW t \in Conclusions, ConcludeRun(t, run.revision)
      PROVE  FactsStand
  <2>1. run'.candidate = run.candidate
    BY <1>1, <1>8 DEF ConcludeRun, RunRows
  <2>2. QED
    BY <1>8, <2>1 DEF ConcludeRun, FactsStand
<1>9. CASE CancelGoal \/ RotateGeneration
    BY <1>9 DEF CancelGoal, RotateGeneration, FactsStand
<1>10. QED
    BY <1>2, <1>3, <1>4, <1>5, <1>6, <1>7, <1>8, <1>9 DEF Next

\* Contact markers, ends of Attempts, the credential of a contacted Attempt,
\* the ContextPlan and the Candidate are permanent, for any number of
\* Attempts and whatever the callers of the store do.
THEOREM FactsArePermanent == Spec => CommittedFactsStand
<1>1. RunInv /\ [Next]_vars => [FactsStand]_vars
    BY StepKeepsFacts
<1>2. QED
    BY <1>1, RunAuthoritySafe, PTL DEF Spec, CommittedFactsStand, FactsStand

\* Only T4, T6 and the conclusion write the Run's row.
LEMMA RunMovers ==
    ASSUME Next
    PROVE  \/ run' = run
           \/ \E t \in Conclusions : ConcludeRun(t, run.revision)
           \/ \E n \in Ordinals : CreateAttempt(n, run.revision)
           \/ \E n \in Ordinals, r \in RequestIds, c \in Candidates :
                SubmitCandidate(n, session[n].credential, r, c, task.revision)
<1>1. ASSUME NEW n \in Ordinals,
             \/ RekeySession(n, session[n].credential)
             \/ MarkLaunchContact(n, attempt[n].revision, session[n].credential)
      PROVE  run' = run
    BY <1>1 DEF RekeySession, MarkLaunchContact
<1>2. ASSUME NEW n \in Ordinals, NEW o \in Observations,
             \/ ObserveExecution(n, attempt[n].revision, o)
             \/ TerminalizeAttempt(n, attempt[n].revision, o)
      PROVE  run' = run
    BY <1>2 DEF ObserveExecution, TerminalizeAttempt
<1>3. CASE (\E p \in Plans : AttachContextPlan(p)) \/ CancelGoal \/ RotateGeneration
    BY <1>3 DEF AttachContextPlan, CancelGoal, RotateGeneration
<1>4. QED
    BY <1>1, <1>2, <1>3 DEF Next

\* A Run concluded Failed or Cancelled never leaves those phases: T4, T4a,
\* T4b and T6 all need it Active.
THEOREM TerminalRunsStay == Spec => TerminalRunStays
<1>1. RunInv /\ [Next]_vars =>
        [run.phase \in Conclusions => run'.phase \in Conclusions]_vars
  <2> SUFFICES ASSUME RunInv, Next, run.phase \in Conclusions
               PROVE  run'.phase \in Conclusions
    OBVIOUS
  <2>1. run \in RunRows /\ run.phase # "Active"
    BY DEF RunInv, TypeOK, Conclusions
  <2>2. CASE \E t \in Conclusions : ConcludeRun(t, run.revision)
    BY <2>1, <2>2 DEF ConcludeRun, RunRows
  <2>3. CASE run' = run
    BY <2>3
  <2>4. ASSUME NEW n \in Ordinals
        PROVE  /\ ~CreateAttempt(n, run.revision)
               /\ \A r \in RequestIds, c \in Candidates :
                    ~SubmitCandidate(n, session[n].credential, r, c, task.revision)
    BY <2>1 DEF CreateAttempt, SubmitCandidate, CurrentUnderActiveRun
  <2>5. QED
    BY <2>2, <2>3, <2>4, RunMovers
<1>2. QED
    BY <1>1, RunAuthoritySafe, PTL DEF Spec, TerminalRunStays

\* Once cancel_goal has committed, no Candidate is accepted.
THEOREM CancelWins == Spec => CancelFencesSubmission
<1>1. RunInv /\ [Next]_vars =>
        [goal \notin OpenGoalPhases => run'.candidate = run.candidate]_vars
  <2> SUFFICES ASSUME RunInv, Next, goal \notin OpenGoalPhases
               PROVE  run'.candidate = run.candidate
    OBVIOUS
  <2>1. run \in RunRows
    BY DEF RunInv, TypeOK
  <2>2. CASE \E t \in Conclusions : ConcludeRun(t, run.revision)
    BY <2>1, <2>2 DEF ConcludeRun, RunRows
  <2>3. CASE \E n \in Ordinals : CreateAttempt(n, run.revision)
    BY <2>1, <2>3 DEF CreateAttempt, RunRows
  <2>4. CASE run' = run
    BY <2>4
  <2>5. ASSUME NEW n \in Ordinals, NEW r \in RequestIds, NEW c \in Candidates
        PROVE  ~SubmitCandidate(n, session[n].credential, r, c, task.revision)
    BY DEF SubmitCandidate
  <2>6. QED
    BY <2>2, <2>3, <2>4, <2>5, RunMovers
<1>2. QED
    BY <1>1, RunAuthoritySafe, PTL DEF Spec, CancelFencesSubmission

\* The action OldGenerationFenced allows.
OldSessionsIdle ==
    \A n \in Ordinals :
        Created(n) /\ session[n].generation # generation =>
            /\ session'[n].credential = session[n].credential
            /\ attempt'[n].contact = attempt[n].contact
            /\ \A row \in requests' \ requests : row.attempt # n

\* A session of an older RestoreGeneration is not rekeyed, crosses no launch
\* boundary and submits nothing: all three compare the generation.
THEOREM OldGenerationsFenced == Spec => OldGenerationFenced
<1>1. ASSUME RunInv, Next PROVE OldSessionsIdle
  <2>1. /\ attempt \in [Ordinals -> AttemptRows]
        /\ session \in [Ordinals -> SessionRows]
    BY <1>1 DEF RunInv, TypeOK
  <2>2. ASSUME NEW n \in Ordinals, CreateAttempt(n, run.revision)
        PROVE  OldSessionsIdle
    <3>1. n \notin History
      BY <2>2, RunAssumption DEF CreateAttempt, Ordinals
    <3>2. \A m \in Ordinals : m # n => /\ attempt'[m] = attempt[m]
                                      /\ session'[m] = session[m]
      BY <2>1, <2>2 DEF CreateAttempt
    <3>3. requests' = requests
      BY <2>2 DEF CreateAttempt
    <3>4. QED
      BY <3>1, <3>2, <3>3 DEF OldSessionsIdle, History
  <2>3. ASSUME NEW n \in Ordinals, RekeySession(n, session[n].credential)
        PROVE  OldSessionsIdle
    <3>1. /\ session[n].generation = generation
          /\ attempt' = attempt /\ requests' = requests
      BY <2>3 DEF RekeySession, LiveSession
    <3>2. \A m \in Ordinals : m # n => session'[m] = session[m]
      BY <2>1, <2>3 DEF RekeySession
    <3>3. QED
      BY <3>1, <3>2 DEF OldSessionsIdle
  <2>4. ASSUME NEW n \in Ordinals,
               MarkLaunchContact(n, attempt[n].revision, session[n].credential)
        PROVE  OldSessionsIdle
    <3>1. /\ session[n].generation = generation
          /\ session' = session /\ requests' = requests
      BY <2>4 DEF MarkLaunchContact, LiveSession
    <3>2. \A m \in Ordinals : m # n => attempt'[m] = attempt[m]
      BY <2>1, <2>4 DEF MarkLaunchContact
    <3>3. QED
      BY <3>1, <3>2 DEF OldSessionsIdle
  <2>5. ASSUME NEW n \in Ordinals, NEW o \in Observations,
               \/ ObserveExecution(n, attempt[n].revision, o)
               \/ TerminalizeAttempt(n, attempt[n].revision, o)
        PROVE  OldSessionsIdle
    <3>1. \A m \in Ordinals : attempt'[m].contact = attempt[m].contact
      BY <2>1, <2>5 DEF ObserveExecution, TerminalizeAttempt, AttemptRows
    <3>2. \A m \in Ordinals : session'[m].credential = session[m].credential
      BY <2>1, <2>5 DEF ObserveExecution, TerminalizeAttempt, SessionRows
    <3>3. requests' = requests
      BY <2>5 DEF ObserveExecution, TerminalizeAttempt
    <3>4. QED
      BY <3>1, <3>2, <3>3 DEF OldSessionsIdle
  <2>6. ASSUME NEW n \in Ordinals, NEW r \in RequestIds,
               NEW d \in Candidates,
               SubmitCandidate(n, session[n].credential, r, d, task.revision)
        PROVE  OldSessionsIdle
    <3>1. /\ session[n].generation = generation
          /\ attempt' = attempt /\ session' = session
          /\ \A row \in requests' \ requests : row.attempt = n
      BY <2>6 DEF SubmitCandidate, Authenticated, LiveSession
    <3>2. QED
      BY <3>1 DEF OldSessionsIdle
  <2>7. CASE UNCHANGED <<attempt, session, requests>>
    BY <2>7 DEF OldSessionsIdle
  <2>8. QED
    BY <1>1, <2>2, <2>3, <2>4, <2>5, <2>6, <2>7 DEF Next, AttachContextPlan,
        ConcludeRun, CancelGoal, RotateGeneration
<1>2. RunInv /\ [Next]_vars => [OldSessionsIdle]_vars
    BY <1>1
<1>3. QED
    BY <1>2, RunAuthoritySafe, PTL
    DEF Spec, OldGenerationFenced, OldSessionsIdle

----------------------------------------------------------------------------
(* The controller.                                                         *)

\* No Attempt of the Run is nonterminal.
Quiet == \A n \in Ordinals : ~Nonterminal(n)

\* n is the current Attempt of the Active Run.
Holds(n) == n \in Ordinals /\ Nonterminal(n) /\ CurrentUnderActiveRun(n)

Uncontacted(n) == Holds(n) /\ attempt[n].contact = "NOT_CONTACTED"

\* What the pass may rely on at each pc.
PassInv ==
    /\ pc \in {"gates", "attach", "create", "decide", "conclude"} => Quiet
    /\ pc \in {"gates", "attach", "create", "conclude"} =>
        run.revision = view.revision
    /\ pc \in {"gates", "attach", "create"} => run.phase = "Active"
    /\ pc = "create" => History = 1 .. (view.n - 1)
    /\ pc \in {"rekey", "refresh", "mark"} => Uncontacted(view.n)
    /\ pc = "rekey" => session[view.n].credential = view.credential
    /\ pc = "refresh" => bearers[view.n] = session[view.n].credential
    /\ pc = "mark" =>
        /\ attempt[view.n].revision = view.status
        /\ session[view.n].credential = view.credential
        /\ bearers[view.n] = view.credential
    /\ pc = "ensure" =>
        /\ Holds(view.n)
        /\ attempt[view.n].contact = "CONTACT_MAY_HAVE_OCCURRED"
        /\ execution[view.n] = "none"
        /\ bearers[view.n] = session[view.n].credential
    /\ pc \in {"await", "record", "inspect", "settle"} =>
        view.n \in Ordinals /\ Nonterminal(view.n)
    /\ pc = "record" /\ answer = "EXITED" => execution[view.n] = "exited"
    /\ pc = "settle" /\ Definitive(answer) =>
        execution[view.n] \in {"none", "exited"}

ControllerInv ==
    /\ ControllerTypeOK
    /\ RunInv
    /\ LiveExecutionIsCurrent
    /\ LaunchedUnderMarker
    /\ PassInv

----------------------------------------------------------------------------

LEMMA InitControllerInv == ControllerInit => ControllerInv
<1> SUFFICES ASSUME ControllerInit PROVE ControllerInv
    OBVIOUS
<1>1. RunInv
    BY InitRunInv DEF ControllerInit
<1>2. ControllerTypeOK
    BY DEF ControllerInit, ControllerTypeOK, NoView, NoAttempt, Observations
<1>3. LiveExecutionIsCurrent /\ LaunchedUnderMarker /\ PassInv
    BY DEF ControllerInit, LiveExecutionIsCurrent, LaunchedUnderMarker, PassInv
<1>4. QED
    BY <1>1, <1>2, <1>3 DEF ControllerInv

\* A pass that has returned relies on nothing.
LEMMA IdleReliesOnNothing == ASSUME pc' = "idle" PROVE PassInv'
BY DEF PassInv

\* Each step of the controller and of its surroundings is a step of
\* RunAuthority or leaves the durable rows alone.
LEMMA StepRefines ==
    ASSUME ControllerInv, [ControllerNext]_controllerVars
    PROVE  [Next]_vars
<1> USE RunAssumption
<1>1. CASE UNCHANGED vars
    BY <1>1
<1>2. CASE PrepareContext
    BY <1>2 DEF PrepareContext, Next
<1>3. CASE EstablishAttempt
  <2>1. view.n \in Ordinals /\ CreateAttempt(view.n, run.revision)
    BY <1>3 DEF EstablishAttempt, CreateAttempt
  <2>2. QED
    BY <2>1 DEF Next
<1>4. CASE RotateBearer
  <2>1. view.n \in Ordinals /\ RekeySession(view.n, session[view.n].credential)
    BY <1>4 DEF RotateBearer, RekeySession, ControllerInv, PassInv,
                Uncontacted, Holds
  <2>2. QED
    BY <2>1 DEF Next
<1>5. CASE CommitContact
  <2>1. /\ view.n \in Ordinals
        /\ MarkLaunchContact(view.n, attempt[view.n].revision,
                             session[view.n].credential)
    BY <1>5 DEF CommitContact, MarkLaunchContact, ControllerInv, PassInv,
                Uncontacted, Holds
  <2>2. QED
    BY <2>1 DEF Next
<1>6. CASE RecordLaunch \/ RecordLiveness \/ RecordEnd
  <2>1. view.n \in Ordinals /\ answer \in Observations
    BY <1>6 DEF RecordLaunch, RecordLiveness, RecordEnd, ControllerInv, PassInv,
                ControllerTypeOK
  <2>2. \/ ObserveExecution(view.n, attempt[view.n].revision, answer)
        \/ TerminalizeAttempt(view.n, attempt[view.n].revision, answer)
    BY <1>6 DEF RecordLaunch, RecordLiveness, RecordEnd
  <2>3. QED
    BY <2>1, <2>2 DEF Next
<1>7. CASE Conclude
  <2>1. "Failed" \in Conclusions /\ ConcludeRun("Failed", run.revision)
    BY <1>7 DEF Conclude, ConcludeRun, Conclusions
  <2>2. QED
    BY <2>1 DEF Next
<1>8. ASSUME NEW n \in Ordinals, WorkerSubmits(n)
      PROVE  Next
  <2>1. PICK r \in RequestIds, c \in Candidates :
            SubmitCandidate(n, delivered[n], r, c, task.revision)
    BY <1>8 DEF WorkerSubmits
  <2>2. SubmitCandidate(n, session[n].credential, r, c, task.revision)
    BY <2>1 DEF SubmitCandidate, Authenticated
  <2>3. QED
    BY <2>2 DEF Next
<1>9. CASE OperatorCancels
    BY <1>9 DEF OperatorCancels, Next
<1>10. QED
    BY <1>1, <1>2, <1>3, <1>4, <1>5, <1>6, <1>7, <1>8, <1>9
    DEF ControllerNext, Step, controllerVars, ReadView, GatesOpen, GateRefuses,
        RefreshLineage, CallLauncher, LaunchAnswered, InspectionAnswered,
        ArmRetry, ExhaustRetries, Crash, PassFails, Deliver, WorkerExits

\* Facts about the rows that every step below needs.
LEMMA Rows ==
    ASSUME RunInv
    PROVE  /\ run \in RunRows
           /\ attempt \in [Ordinals -> AttemptRows]
           /\ session \in [Ordinals -> SessionRows]
           /\ \A n \in Ordinals : Nonterminal(n) => n = run.current
BY DEF RunInv, TypeOK, OneLineage

\* The lineage a read finds, and what its absence means.
LEMMA LineageRead ==
    ASSUME RunInv
    PROVE  /\ CurrentLineage = NoAttempt => Quiet
           /\ CurrentLineage # NoAttempt =>
                /\ CurrentLineage \in Ordinals
                /\ Nonterminal(CurrentLineage)
                /\ run.current = CurrentLineage
<1> USE RunAssumption
<1>1. run.current \in {NoAttempt} \cup Ordinals
    BY Rows DEF RunRows
<1>2. NoAttempt \notin Ordinals
    BY DEF NoAttempt, Ordinals
<1>3. QED
    BY <1>1, <1>2, Rows DEF CurrentLineage, Quiet

\* A view is well typed.
LEMMA ViewTyped ==
    ASSUME RunInv, NEW n \in {NoAttempt} \cup Ordinals
    PROVE  ViewOf(n) \in [revision: Nat, n: Nat, status: Nat, credential: Nat]
<1> USE RunAssumption
<1>1. n \in Nat /\ run.revision \in Nat
    BY Rows DEF Ordinals, NoAttempt, RunRows
<1>2. (IF n = NoAttempt THEN 0 ELSE attempt[n].revision) \in Nat
    BY Rows DEF AttemptRows
<1>3. (IF n = NoAttempt THEN 0 ELSE session[n].credential) \in Nat
    BY Rows DEF SessionRows
<1>4. QED
    BY <1>1, <1>2, <1>3 DEF ViewOf

\* Reading the view keeps the invariant: each branch of the dispatch starts
\* with what it relies on.
LEMMA ReadKeepsInv ==
    ASSUME ControllerInv, ReadView
    PROVE  ControllerTypeOK' /\ PassInv'
<1> DEFINE n == CurrentLineage
<1>1. RunInv /\ run.phase = "Active" /\ view' = ViewOf(n)
      /\ UNCHANGED <<vars, answer, bearers, backend, budget>>
    BY DEF ReadView, ControllerInv
<1>2. /\ view'.revision = run.revision /\ view'.n = n
      /\ n # NoAttempt => view'.credential = session[n].credential
    BY <1>1 DEF ViewOf
<1>3. CASE n = NoAttempt
  <2>1. pc' = "gates" /\ Quiet
    BY <1>1, <1>3, LineageRead DEF ReadView
  <2>2. Quiet'
    BY <1>1, <2>1 DEF Quiet, Nonterminal, Created, vars
  <2>3. PassInv'
    BY <1>1, <1>2, <2>1, <2>2 DEF PassInv, vars
  <2>4. ControllerTypeOK'
    BY <1>1, <1>3, <2>1, ViewTyped DEF ControllerTypeOK, ControllerInv,
                                       backend, budget
  <2>5. QED
    BY <2>3, <2>4
<1>4. CASE n # NoAttempt
  <2>1. n \in Ordinals /\ Nonterminal(n) /\ run.current = n
    BY <1>1, <1>4, LineageRead
  <2>2. ControllerTypeOK'
    <3>1. pc' \in {"inspect", "refresh", "rekey"}
      BY <1>4 DEF ReadView
    <3>2. QED
      BY <1>1, <2>1, <3>1, ViewTyped DEF ControllerTypeOK, ControllerInv,
                                         backend, budget
  <2>3. CASE attempt[n].contact # "NOT_CONTACTED"
    <3>1. pc' = "inspect"
      BY <1>4, <2>3 DEF ReadView
    <3>2. Nonterminal(view.n)'
      BY <1>1, <1>2, <2>1 DEF Nonterminal, Created, vars
    <3>3. QED
      BY <1>2, <2>1, <2>2, <3>1, <3>2 DEF PassInv
  <2>4. CASE attempt[n].contact = "NOT_CONTACTED"
    <3>1. pc' = IF BearerKnown(n) THEN "refresh" ELSE "rekey"
      BY <1>4, <2>4 DEF ReadView
    <3>2. Uncontacted(view.n)'
      BY <1>1, <1>2, <2>1, <2>4 DEF Uncontacted, Holds, Nonterminal, Created,
                                    CurrentUnderActiveRun, vars
    <3>3. QED
      BY <1>1, <1>2, <1>4, <2>2, <3>1, <3>2 DEF PassInv, BearerKnown, vars
  <2>5. QED
    BY <2>3, <2>4
<1>5. QED
    BY <1>3, <1>4

\* The steps that only move the pass along or end it: the gates, a refusal,
\* an answer of the launcher, the retry decision, a crash, a failed pass.
LEMMA MoveKeepsInv ==
    ASSUME ControllerInv,
           \/ GatesOpen \/ GateRefuses \/ ArmRetry \/ Crash \/ PassFails
           \/ \E o \in LaunchReplies : LaunchAnswered(o)
           \/ \E o \in Observations : InspectionAnswered(o)
    PROVE  ControllerTypeOK' /\ PassInv'
<1> USE ControllerAssumption
<1>1. ControllerTypeOK /\ PassInv
    BY DEF ControllerInv
<1>2. CASE ArmRetry \/ Crash \/ PassFails
  <2>1. pc' = "idle"
    BY <1>2 DEF ArmRetry, Crash, PassFails, Return
  <2>2. ControllerTypeOK'
    BY SMTT(20), <1>1, <1>2 DEF ArmRetry, Crash, PassFails, Return, ControllerTypeOK,
                      NoView, NoAttempt, Observations, backend, budget
  <2>3. QED
    BY <2>1, <2>2, IdleReliesOnNothing
<1>3. CASE GatesOpen \/ GateRefuses
  <2>1. /\ pc \in {"gates", "attach"} /\ pc' \in {"attach", "conclude"}
        /\ UNCHANGED <<vars, view, answer, bearers, backend, budget>>
    BY <1>3 DEF GatesOpen, GateRefuses
  <2>2. Quiet'
    BY <1>1, <2>1 DEF PassInv, Quiet, Nonterminal, Created, vars
  <2>3. QED
    BY <1>1, <2>1, <2>2 DEF PassInv, ControllerTypeOK, vars, backend, budget
<1>4. ASSUME NEW o \in LaunchReplies, LaunchAnswered(o)
      PROVE  ControllerTypeOK' /\ PassInv'
  <2>1. /\ pc = "await" /\ pc' = "record" /\ answer' = o
        /\ UNCHANGED <<vars, view, bearers, backend, budget>>
        /\ o = "EXITED" => execution[view.n] = "exited"
    BY <1>4 DEF LaunchAnswered, Truthful
  <2>2. Nonterminal(view.n)'
    BY <1>1, <2>1 DEF PassInv, Nonterminal, Created, vars
  <2>3. QED
    BY <1>1, <2>1, <2>2 DEF PassInv, ControllerTypeOK, backend, budget
<1>5. ASSUME NEW o \in Observations, InspectionAnswered(o)
      PROVE  ControllerTypeOK' /\ PassInv'
  <2>1. /\ pc = "inspect" /\ pc' = "settle" /\ answer' = o
        /\ UNCHANGED <<vars, view, bearers, backend, faults>>
        /\ Definitive(o) => execution[view.n] \in {"none", "exited"}
        /\ polls' \in {polls, polls + 1}
    BY <1>5 DEF InspectionAnswered, Truthful, Definitive
  <2>2. Nonterminal(view.n)'
    BY <1>1, <2>1 DEF PassInv, Nonterminal, Created, vars
  <2>3. QED
    BY SMTT(20), <1>1, <2>1, <2>2 DEF PassInv, ControllerTypeOK, backend
<1>6. QED
    BY <1>2, <1>3, <1>4, <1>5

\* The remaining reads of the pass: the refreshed lineage before T4b and the
\* Run's revision before a conclusion.
LEMMA RefreshKeepsInv ==
    ASSUME ControllerInv, RefreshLineage \/ ExhaustRetries
    PROVE  ControllerTypeOK' /\ PassInv'
<1>1. ControllerTypeOK /\ PassInv /\ RunInv
    BY DEF ControllerInv
<1>2. CASE RefreshLineage
  <2> DEFINE n == CurrentLineage
  <2>1. /\ pc = "refresh" /\ pc' = "mark" /\ view' = ViewOf(n) /\ n # NoAttempt
        /\ UNCHANGED <<vars, answer, bearers, backend, budget>>
    BY <1>2 DEF RefreshLineage
  <2>2. n = run.current /\ n \in Ordinals
    BY <1>1, <2>1, LineageRead
  <2>3. n = view.n /\ Uncontacted(view.n)
    BY <1>1, <2>1, <2>2 DEF PassInv, Uncontacted, Holds, CurrentUnderActiveRun
  <2>4. /\ view'.n = view.n
        /\ view'.status = attempt[view.n].revision
        /\ view'.credential = session[view.n].credential
    BY <2>1, <2>3 DEF ViewOf
  <2>5. Uncontacted(view.n)'
    BY <2>1, <2>3, <2>4 DEF Uncontacted, Holds, Nonterminal, Created,
                            CurrentUnderActiveRun, vars
  <2>6. ControllerTypeOK'
    BY <1>1, <2>1, <2>2, ViewTyped DEF ControllerTypeOK, backend, budget
  <2>7. QED
    BY <1>1, <2>1, <2>4, <2>5, <2>6 DEF PassInv, vars
<1>3. CASE ExhaustRetries
  <2>1. /\ pc = "decide" /\ pc' = "conclude"
        /\ view' = [view EXCEPT !.revision = run.revision]
        /\ UNCHANGED <<vars, answer, bearers, backend, budget>>
    BY <1>3 DEF ExhaustRetries
  <2>2. run.revision \in Nat
    BY <1>1, Rows DEF RunRows
  <2>3. ControllerTypeOK' /\ view'.revision = run.revision
    BY <1>1, <2>1, <2>2 DEF ControllerTypeOK, backend, budget
  <2>4. Quiet'
    BY <1>1, <2>1 DEF PassInv, Quiet, Nonterminal, Created, vars
  <2>5. QED
    BY <2>1, <2>3, <2>4 DEF PassInv, vars
<1>4. QED
    BY <1>2, <1>3

----------------------------------------------------------------------------
(* The steps of the pass that commit.                                      *)

\* ContextReady: the ordinal read is one past the history.
LEMMA PrepareKeepsInv ==
    ASSUME ControllerInv, PrepareContext
    PROVE  ControllerInv'
<1> USE RunAssumption
<1>1. ControllerTypeOK /\ PassInv /\ RunInv
    BY DEF ControllerInv
<1>2. /\ pc = "attach" /\ pc' = "create"
      /\ view' = [view EXCEPT !.n = Cardinality(History) + 1]
      /\ UNCHANGED <<run, attempt, session, requests>>
      /\ UNCHANGED <<answer, bearers, backend, budget>>
    BY DEF PrepareContext, AttachContextPlan
<1>3. RunInv'
    BY <1>1, OutsideKeepsInv DEF PrepareContext
<1>4. run.current \in Nat /\ History = 1 .. run.current
    BY <1>1, Rows DEF RunInv, OneLineage, RunRows, Ordinals, NoAttempt
<1>5. Cardinality(History) = run.current
    BY <1>4, FS_Interval
<1>6. /\ view'.n = run.current + 1
      /\ view'.revision = view.revision
      /\ ControllerTypeOK'
  <2>1. view' = [view EXCEPT !.n = run.current + 1]
    BY <1>2, <1>5
  <2>2. view \in [revision: Nat, n: Nat, status: Nat, credential: Nat]
    BY <1>1 DEF ControllerTypeOK
  <2>3. /\ view' \in [revision: Nat, n: Nat, status: Nat, credential: Nat]
        /\ view'.n = run.current + 1 /\ view'.revision = view.revision
    BY <1>4, <2>1, <2>2
  <2>4. pc' = "create" /\ UNCHANGED <<answer, bearers, backend, budget>>
    BY <1>2
  <2>5. QED
    BY <1>1, <2>3, <2>4 DEF ControllerTypeOK, backend, budget
<1>7. History' = 1 .. (view'.n - 1)
  <2>1. History' = History
    BY <1>2 DEF History, Created
  <2>2. view'.n - 1 = run.current
    BY <1>4, <1>6
  <2>3. QED
    BY <1>4, <2>1, <2>2
<1>8. Quiet'
    BY <1>1, <1>2 DEF PassInv, Quiet, Nonterminal, Created
<1>9. PassInv'
    BY <1>1, <1>2, <1>6, <1>7, <1>8 DEF PassInv
<1>10. LiveExecutionIsCurrent' /\ LaunchedUnderMarker'
    BY <1>2 DEF ControllerInv, LiveExecutionIsCurrent, LaunchedUnderMarker,
                Nonterminal, Created, backend
<1>11. QED
    BY <1>3, <1>6, <1>9, <1>10 DEF ControllerInv

\* T4: no execution is live when the current Attempt changes.
LEMMA EstablishKeepsInv ==
    ASSUME ControllerInv, EstablishAttempt
    PROVE  ControllerInv'
<1> USE RunAssumption
<1>1. ControllerTypeOK /\ PassInv /\ RunInv
    BY DEF ControllerInv
<1>2. /\ pc = "create" /\ Return /\ view.n \in Ordinals
      /\ CreateAttempt(view.n, view.revision)
      /\ bearers' = [bearers EXCEPT ![view.n] = 1]
      /\ UNCHANGED <<backend, budget>>
    BY DEF EstablishAttempt
<1>3. RunInv'
  <2>1. CreateAttempt(view.n, run.revision)
    BY <1>2 DEF CreateAttempt
  <2>2. QED
    BY <1>1, <1>2, <2>1, CreateKeepsInv
<1>4. ControllerTypeOK' /\ PassInv'
  <2>1. ControllerTypeOK'
    BY <1>1, <1>2 DEF Return, ControllerTypeOK, NoView, NoAttempt, Observations,
                      backend, budget
  <2>2. QED
    BY <1>2, <2>1, IdleReliesOnNothing DEF Return
<1>5. \A n \in Ordinals : execution'[n] = execution[n]
                          /\ execution[n] \notin {"inflight", "live"}
    BY <1>1, <1>2 DEF ControllerInv, LiveExecutionIsCurrent, PassInv, Quiet,
                      backend
<1>6. LaunchedUnderMarker'
  <2>1. \A m \in Ordinals : m # view.n => /\ attempt'[m] = attempt[m]
                                         /\ session'[m] = session[m]
    BY <1>1, <1>2, Rows DEF CreateAttempt
  <2>2. attempt[view.n].contact = NoRow
    BY <1>2 DEF CreateAttempt, History, Created
  <2>3. execution[view.n] = "none"
    BY <1>2, <2>2 DEF ControllerInv, LaunchedUnderMarker, NoRow
  <2>4. QED
    BY <1>2, <1>5, <2>1, <2>3 DEF ControllerInv, LaunchedUnderMarker, backend
<1>7. LiveExecutionIsCurrent'
    BY <1>5 DEF LiveExecutionIsCurrent
<1>8. QED
    BY <1>3, <1>4, <1>6, <1>7 DEF ControllerInv

\* T4a: the rekeyed Attempt was never contacted, so nothing runs under the
\* credential it replaces.
LEMMA RotateKeepsInv ==
    ASSUME ControllerInv, RotateBearer
    PROVE  ControllerInv'
<1>1. ControllerTypeOK /\ PassInv /\ RunInv
    BY DEF ControllerInv
<1>2. /\ pc = "rekey" /\ pc' = "refresh"
      /\ session' = [session EXCEPT ![view.n].credential = @ + 1]
      /\ bearers' = [bearers EXCEPT ![view.n] = view.credential + 1]
      /\ UNCHANGED <<run, attempt, view, answer, backend, budget>>
    BY DEF RotateBearer, RekeySession
<1>3. /\ view.n \in Ordinals /\ Uncontacted(view.n)
      /\ session[view.n].credential = view.credential
    BY <1>1, <1>2 DEF PassInv, Uncontacted, Holds
<1>4. RunInv'
    BY <1>1, <1>3, RekeyKeepsInv DEF RotateBearer
<1>5. ControllerTypeOK'
    BY <1>1, <1>2, <1>3 DEF ControllerTypeOK, backend, budget
<1>6. /\ session'[view.n].credential = view.credential + 1
      /\ bearers'[view.n] = view.credential + 1
      /\ \A n \in Ordinals : n # view.n => session'[n] = session[n]
  <2>1. session'[view.n].credential = session[view.n].credential + 1
        /\ \A n \in Ordinals : n # view.n => session'[n] = session[n]
    BY <1>1, <1>2, <1>3, Rows DEF SessionRows
  <2>2. bearers'[view.n] = view.credential + 1
    BY <1>1, <1>2, <1>3 DEF ControllerTypeOK
  <2>3. QED
    BY <1>3, <2>1, <2>2
<1>7. PassInv'
  <2>1. Uncontacted(view.n)'
    BY <1>2, <1>3 DEF Uncontacted, Holds, Nonterminal, Created,
                      CurrentUnderActiveRun
  <2>2. QED
    BY <1>2, <1>6, <2>1 DEF PassInv
<1>8. LiveExecutionIsCurrent'
    BY <1>2 DEF ControllerInv, LiveExecutionIsCurrent, Nonterminal, Created,
                backend
<1>9. LaunchedUnderMarker'
    BY <1>2, <1>3, <1>6 DEF ControllerInv, LaunchedUnderMarker, Uncontacted,
                            backend
<1>10. QED
    BY <1>4, <1>5, <1>7, <1>8, <1>9 DEF ControllerInv

\* T4b: the marker is set for the credential the pass holds.
LEMMA ContactKeepsInv ==
    ASSUME ControllerInv, CommitContact
    PROVE  ControllerInv'
<1>1. ControllerTypeOK /\ PassInv /\ RunInv
    BY DEF ControllerInv
<1>2. /\ pc = "mark" /\ pc' = "ensure"
      /\ attempt' = [attempt EXCEPT
                        ![view.n].contact = "CONTACT_MAY_HAVE_OCCURRED",
                        ![view.n].revision = @ + 1]
      /\ UNCHANGED <<run, session, view, answer, bearers, backend, budget>>
    BY DEF CommitContact, MarkLaunchContact
<1>3. /\ view.n \in Ordinals /\ Uncontacted(view.n)
      /\ attempt[view.n].revision = view.status
      /\ session[view.n].credential = view.credential
      /\ bearers[view.n] = view.credential
    BY <1>1, <1>2 DEF PassInv, Uncontacted, Holds
<1>4. RunInv'
    BY <1>1, <1>3, MarkKeepsInv DEF CommitContact
<1>5. /\ attempt'[view.n].contact = "CONTACT_MAY_HAVE_OCCURRED"
      /\ attempt'[view.n].terminal = attempt[view.n].terminal
      /\ \A n \in Ordinals : n # view.n => attempt'[n] = attempt[n]
    BY <1>1, <1>2, <1>3, Rows DEF AttemptRows
<1>6. execution[view.n] = "none"
    BY <1>3 DEF ControllerInv, LaunchedUnderMarker, Uncontacted
<1>7. Holds(view.n)'
    BY <1>2, <1>3, <1>5 DEF Uncontacted, Holds, Nonterminal, Created, NoRow,
                            CurrentUnderActiveRun
<1>8. ControllerTypeOK' /\ PassInv'
    BY <1>1, <1>2, <1>3, <1>5, <1>6, <1>7 DEF ControllerTypeOK, PassInv,
                                              backend, budget
<1>9. LiveExecutionIsCurrent' /\ LaunchedUnderMarker'
  <2>1. execution' = execution /\ delivered' = delivered /\ run' = run /\ session' = session
      BY <1>2 DEF backend
  <2>2. ASSUME NEW n \in Ordinals, execution[n] # "none"
        PROVE  n # view.n /\ attempt'[n] = attempt[n]
      BY <2>2, <1>5, <1>6
  <2>3. LiveExecutionIsCurrent'
      BY <2>1, <2>2 DEF ControllerInv, LiveExecutionIsCurrent, Nonterminal, Created
  <2>4. LaunchedUnderMarker'
      BY <2>1, <2>2 DEF ControllerInv, LaunchedUnderMarker
  <2>5. QED
      BY <2>3, <2>4
<1>10. QED
    BY <1>4, <1>8, <1>9 DEF ControllerInv

\* An observation that ends nothing.
LEMMA ObserveKeepsControllerInv ==
    ASSUME ControllerInv, view.n \in Ordinals, Return,
           ObserveExecution(view.n, attempt[view.n].revision, answer),
           UNCHANGED <<bearers, backend, budget>>
    PROVE  ControllerInv'
<1>1. ControllerTypeOK /\ RunInv
    BY DEF ControllerInv
<1>2. attempt' = [attempt EXCEPT ![view.n].observed = answer,
                                 ![view.n].revision = @ + 1]
      /\ UNCHANGED <<run, session>>
    BY DEF ObserveExecution
<1>3. RunInv'
    BY <1>1, ObserveKeepsInv DEF ControllerTypeOK
<1>4. \A n \in Ordinals : /\ attempt'[n].contact = attempt[n].contact
                          /\ attempt'[n].terminal = attempt[n].terminal
    BY <1>1, <1>2, Rows DEF AttemptRows
<1>5. ControllerTypeOK' /\ PassInv'
  <2>1. ControllerTypeOK'
    BY <1>1 DEF Return, ControllerTypeOK, NoView, NoAttempt, Observations,
                backend, budget
  <2>2. QED
    BY <2>1, IdleReliesOnNothing DEF Return
<1>6. execution' = execution /\ delivered' = delivered
    BY DEF backend
<1>7. \A n \in Ordinals : Nonterminal(n)' <=> Nonterminal(n)
    BY <1>4 DEF Nonterminal, Created
<1>8. LiveExecutionIsCurrent' /\ LaunchedUnderMarker'
    BY <1>2, <1>4, <1>6, <1>7 DEF ControllerInv, LiveExecutionIsCurrent,
                                  LaunchedUnderMarker
<1>9. QED
    BY <1>3, <1>5, <1>8 DEF ControllerInv

\* The end of an Attempt whose execution is over: no live execution loses
\* its lineage.
LEMMA EndKeepsInv ==
    ASSUME ControllerInv, view.n \in Ordinals,
           execution[view.n] \in {"none", "exited"},
           TerminalizeAttempt(view.n, attempt[view.n].revision, answer),
           UNCHANGED backend
    PROVE  /\ RunInv' /\ LiveExecutionIsCurrent' /\ LaunchedUnderMarker'
           /\ attempt'[view.n].terminal /\ run' = run
           /\ \A n \in Ordinals : n # view.n => attempt'[n] = attempt[n]
<1>1. ControllerTypeOK /\ RunInv
    BY DEF ControllerInv
<1>2. /\ attempt' = [attempt EXCEPT ![view.n].observed = answer,
                                    ![view.n].terminal = TRUE,
                                    ![view.n].revision = @ + 1]
      /\ session' = [session EXCEPT ![view.n].state = "REVOKED"]
      /\ run' = run
    BY DEF TerminalizeAttempt
<1>3. RunInv'
    BY <1>1, TerminalizeKeepsInv DEF ControllerTypeOK
<1>4. /\ attempt'[view.n].terminal
      /\ \A n \in Ordinals : n # view.n => attempt'[n] = attempt[n]
      /\ \A n \in Ordinals : attempt'[n].contact = attempt[n].contact
    BY SMTT(20), <1>1, <1>2, Rows DEF AttemptRows
<1>5. \A n \in Ordinals : session'[n].credential = session[n].credential
    BY <1>1, <1>2, Rows DEF SessionRows
<1>6. execution' = execution /\ delivered' = delivered
    BY DEF backend
<1>7. LaunchedUnderMarker'
    BY <1>4, <1>5, <1>6 DEF ControllerInv, LaunchedUnderMarker
<1>8. LiveExecutionIsCurrent'
  <2> SUFFICES ASSUME NEW n \in Ordinals, execution[n] \in {"inflight", "live"}
               PROVE  Nonterminal(n)' /\ run'.current = n /\ run'.slot
    BY <1>6 DEF LiveExecutionIsCurrent
  <2>1. n # view.n /\ Nonterminal(n) /\ run.current = n /\ run.slot
    BY DEF ControllerInv, LiveExecutionIsCurrent
  <2>2. QED
    BY <1>2, <1>4, <2>1 DEF Nonterminal, Created
<1>9. QED
    BY <1>2, <1>3, <1>4, <1>7, <1>8

LEMMA RecordKeepsInv ==
    ASSUME ControllerInv, RecordLaunch \/ RecordLiveness \/ RecordEnd
    PROVE  ControllerInv'
<1>1. ControllerTypeOK /\ PassInv /\ RunInv
    BY DEF ControllerInv
<1>2. view.n \in Ordinals
    BY <1>1 DEF PassInv, RecordLaunch, RecordLiveness, RecordEnd
<1>3. CASE RecordLiveness \/ (RecordLaunch /\ answer # "EXITED")
    BY <1>2, <1>3, ObserveKeepsControllerInv DEF RecordLaunch, RecordLiveness
<1>4. CASE RecordLaunch /\ answer = "EXITED"
  <2>1. /\ execution[view.n] = "exited" /\ Return
        /\ TerminalizeAttempt(view.n, attempt[view.n].revision, answer)
        /\ UNCHANGED <<bearers, backend, budget>>
    BY <1>1, <1>4 DEF PassInv, RecordLaunch
  <2>2. RunInv' /\ LiveExecutionIsCurrent' /\ LaunchedUnderMarker'
    BY <1>2, <2>1, EndKeepsInv
  <2>3. ControllerTypeOK'
    BY <1>1, <2>1 DEF Return, ControllerTypeOK, NoView, NoAttempt, Observations,
                      backend, budget
  <2>4. PassInv'
    BY <2>1, IdleReliesOnNothing DEF Return
  <2>5. QED
    BY <2>2, <2>3, <2>4 DEF ControllerInv
<1>5. CASE RecordEnd
  <2>1. /\ execution[view.n] \in {"none", "exited"} /\ pc' = "decide"
        /\ TerminalizeAttempt(view.n, attempt[view.n].revision, answer)
        /\ UNCHANGED <<view, answer, bearers, backend, budget>>
    BY <1>1, <1>5 DEF PassInv, RecordEnd
  <2>2. /\ RunInv' /\ LiveExecutionIsCurrent' /\ LaunchedUnderMarker'
        /\ attempt'[view.n].terminal /\ run' = run
        /\ \A n \in Ordinals : n # view.n => attempt'[n] = attempt[n]
    BY <1>2, <2>1, EndKeepsInv
  <2>3. Quiet'
    <3> SUFFICES ASSUME NEW n \in Ordinals, Nonterminal(n)' PROVE FALSE
      BY DEF Quiet
    <3>1. n # view.n
      BY <2>2 DEF Nonterminal
    <3>2. Nonterminal(n) /\ n = run.current
      BY <1>1, <2>2, <3>1, Rows DEF Nonterminal, Created
    <3>3. view.n = run.current
      BY <1>1, <1>2, <1>5, Rows DEF PassInv, RecordEnd
    <3>4. QED
      BY <3>1, <3>2, <3>3
  <2>4. ControllerTypeOK' /\ PassInv'
    BY <1>1, <2>1, <2>3 DEF ControllerTypeOK, PassInv, backend, budget
  <2>5. QED
    BY <2>2, <2>4 DEF ControllerInv
<1>6. QED
    BY <1>3, <1>4, <1>5

\* The Run is concluded only when no Attempt of it is nonterminal, so the
\* slot is not given up under a live execution.
LEMMA ConcludeKeepsControllerInv ==
    ASSUME ControllerInv, Conclude
    PROVE  ControllerInv'
<1>1. ControllerTypeOK /\ PassInv /\ RunInv
    BY DEF ControllerInv
<1>2. /\ pc = "conclude" /\ Return /\ ConcludeRun("Failed", view.revision)
      /\ UNCHANGED <<attempt, session, bearers, backend, budget>>
    BY DEF Conclude, ConcludeRun
<1>3. RunInv'
  <2>1. "Failed" \in Conclusions /\ ConcludeRun("Failed", run.revision)
    BY <1>2 DEF ConcludeRun, Conclusions
  <2>2. QED
    BY <1>1, <2>1, ConcludeKeepsInv
<1>4. ControllerTypeOK'
    BY <1>1, <1>2 DEF Return, ControllerTypeOK, NoView, NoAttempt, Observations,
                      backend, budget
<1>5. PassInv'
    BY <1>2, IdleReliesOnNothing DEF Return
<1>6. LiveExecutionIsCurrent' /\ LaunchedUnderMarker'
    BY <1>1, <1>2 DEF ControllerInv, LiveExecutionIsCurrent,
                      LaunchedUnderMarker, PassInv, Quiet, backend
<1>7. QED
    BY <1>3, <1>4, <1>5, <1>6 DEF ControllerInv

----------------------------------------------------------------------------
(* The world outside.                                                      *)

\* The launch call leaves after the marker, with the current credential.
LEMMA CallKeepsInv ==
    ASSUME ControllerInv, CallLauncher
    PROVE  ControllerInv'
<1>1. ControllerTypeOK /\ PassInv /\ RunInv
    BY DEF ControllerInv
<1>2. /\ pc = "ensure" /\ pc' = "await"
      /\ execution' = [execution EXCEPT ![view.n] = "inflight"]
      /\ delivered' = [delivered EXCEPT ![view.n] = bearers[view.n]]
      /\ UNCHANGED <<vars, view, answer, bearers, budget>>
    BY DEF CallLauncher
<1>3. /\ view.n \in Ordinals /\ Nonterminal(view.n) /\ run.current = view.n
      /\ run.phase = "Active"
      /\ attempt[view.n].contact = "CONTACT_MAY_HAVE_OCCURRED"
      /\ bearers[view.n] = session[view.n].credential
    BY <1>1, <1>2 DEF PassInv, Holds, CurrentUnderActiveRun
<1>4. run.slot
    BY <1>1, <1>3 DEF RunInv, SlotWhileNonterminal, NonterminalRunPhases
<1>5. UNCHANGED <<run, attempt, session>>
      /\ \A n \in Ordinals : Nonterminal(n)' <=> Nonterminal(n)
    BY <1>2 DEF vars, Nonterminal, Created
<1>6. RunInv'
    BY <1>1, <1>2, OutsideKeepsInv
<1>7. ControllerTypeOK'
    BY <1>1, <1>2, <1>3 DEF ControllerTypeOK, budget
<1>8. PassInv'
    BY <1>2, <1>3, <1>5 DEF PassInv, Nonterminal, Created
<1>9. LiveExecutionIsCurrent' /\ LaunchedUnderMarker'
    BY <1>1, <1>2, <1>3, <1>4, <1>5 DEF ControllerInv, ControllerTypeOK,
        LiveExecutionIsCurrent, LaunchedUnderMarker
<1>10. QED
    BY <1>6, <1>7, <1>8, <1>9 DEF ControllerInv

\* A call delivered or lost, and a worker that exits.
LEMMA ExecutionKeepsInv ==
    ASSUME ControllerInv, NEW n \in Ordinals, Deliver(n) \/ WorkerExits(n)
    PROVE  ControllerInv'
<1>1. ControllerTypeOK /\ PassInv /\ RunInv
    BY DEF ControllerInv
<1>2. PICK e \in {"live", "none", "exited"} :
        /\ execution[n] \in {"inflight", "live"}
        /\ execution' = [execution EXCEPT ![n] = e]
        /\ UNCHANGED <<vars, controller, delivered, budget>>
    BY DEF Deliver, WorkerExits
<1>3. /\ UNCHANGED <<run, attempt, session, pc, view, answer, bearers>>
      /\ \A m \in Ordinals : Nonterminal(m)' <=> Nonterminal(m)
    BY <1>2 DEF vars, controller, Nonterminal, Created
<1>4. \A m \in Ordinals :
        execution'[m] = IF m = n THEN e ELSE execution[m]
    BY <1>1, <1>2 DEF ControllerTypeOK
<1>5. RunInv'
    BY <1>1, <1>2, OutsideKeepsInv
<1>6. ControllerTypeOK'
    BY <1>1, <1>2 DEF ControllerTypeOK, controller, budget
<1>7. LiveExecutionIsCurrent' /\ LaunchedUnderMarker'
    BY <1>2, <1>3, <1>4 DEF ControllerInv, LiveExecutionIsCurrent,
                            LaunchedUnderMarker
<1>8. PassInv'
  <2>1. /\ Quiet' <=> Quiet
        /\ Uncontacted(view.n)' <=> Uncontacted(view.n)
        /\ Holds(view.n)' <=> Holds(view.n)
        /\ Nonterminal(view.n)' <=> Nonterminal(view.n)
        /\ History' = History
    BY <1>3 DEF Quiet, Uncontacted, Holds, Nonterminal, Created, History,
                CurrentUnderActiveRun
  <2>2. view.n \in Ordinals /\ execution[view.n] \in {"none", "exited"} =>
            execution'[view.n] = execution[view.n]
    BY <1>2, <1>4
  <2>3. pc = "ensure" => view.n \in Ordinals
    BY <1>1 DEF PassInv, Holds
  <2>4. QED
    BY <1>1, <1>3, <2>1, <2>2, <2>3 DEF PassInv
<1>9. QED
    BY <1>5, <1>6, <1>7, <1>8 DEF ControllerInv

\* A live worker's submission moves the Run, but never under a pass that
\* relies on the Run: those passes exclude a live execution.
LEMMA SubmitKeepsControllerInv ==
    ASSUME ControllerInv, NEW n \in Ordinals, WorkerSubmits(n)
    PROVE  ControllerInv'
<1>1. ControllerTypeOK /\ PassInv /\ RunInv
    BY DEF ControllerInv
<1>2. PICK r \in RequestIds, c \in Candidates :
        SubmitCandidate(n, delivered[n], r, c, task.revision)
    BY DEF WorkerSubmits
<1>3. /\ execution[n] = "live"
      /\ UNCHANGED <<attempt, session>>
      /\ UNCHANGED <<controller, backend, budget>>
    BY <1>2 DEF WorkerSubmits, SubmitCandidate
<1>4. RunInv'
  <2>1. SubmitCandidate(n, session[n].credential, r, c, task.revision)
    BY <1>2 DEF SubmitCandidate, Authenticated
  <2>2. QED
    BY <1>1, <2>1, SubmitKeepsInv
<1>5. run'.current = run.current /\ run'.slot = run.slot
    BY <1>1, <1>2, Rows DEF SubmitCandidate, RunRows
<1>6. /\ Nonterminal(n) /\ run.current = n
      /\ attempt[n].contact = "CONTACT_MAY_HAVE_OCCURRED"
    BY <1>3 DEF ControllerInv, LiveExecutionIsCurrent, LaunchedUnderMarker
<1>7. pc \in {"idle", "await", "record", "inspect", "settle"}
    BY <1>1, <1>3, <1>6 DEF ControllerTypeOK, PassInv, Quiet, Uncontacted,
                            Holds, CurrentUnderActiveRun
<1>8. PassInv'
    BY <1>1, <1>3, <1>7 DEF PassInv, Nonterminal, Created, controller, backend
<1>9. ControllerTypeOK'
    BY <1>1, <1>3 DEF ControllerTypeOK, controller, backend, budget
<1>10. LiveExecutionIsCurrent' /\ LaunchedUnderMarker'
    BY <1>3, <1>5 DEF ControllerInv, LiveExecutionIsCurrent,
                      LaunchedUnderMarker, Nonterminal, Created, backend
<1>11. QED
    BY <1>4, <1>8, <1>9, <1>10 DEF ControllerInv

\* A cancel, and a stuttering step, touch neither the Run nor the pass.
LEMMA CancelKeepsControllerInv ==
    ASSUME ControllerInv, OperatorCancels \/ UNCHANGED controllerVars
    PROVE  ControllerInv'
<1>1. ControllerTypeOK /\ PassInv /\ RunInv
    BY DEF ControllerInv
<1>2. /\ UNCHANGED <<run, attempt, session, controller, backend, budget>>
      /\ CancelGoal \/ UNCHANGED vars
    BY DEF OperatorCancels, CancelGoal, controllerVars, vars
<1>3. RunInv'
    BY <1>1, <1>2, OutsideKeepsInv
<1>4. ControllerTypeOK'
    BY <1>1, <1>2 DEF ControllerTypeOK, controller, backend, budget
<1>5. LiveExecutionIsCurrent' /\ LaunchedUnderMarker'
    BY <1>2 DEF ControllerInv, LiveExecutionIsCurrent, LaunchedUnderMarker,
                Nonterminal, Created, backend
<1>6. PassInv'
  <2>1. /\ Quiet' <=> Quiet
        /\ Uncontacted(view.n)' <=> Uncontacted(view.n)
        /\ Holds(view.n)' <=> Holds(view.n)
        /\ Nonterminal(view.n)' <=> Nonterminal(view.n)
        /\ History' = History
    BY <1>2 DEF Quiet, Uncontacted, Holds, Nonterminal, Created, History,
                CurrentUnderActiveRun, controller
  <2>2. QED
    BY <1>1, <1>2, <2>1 DEF PassInv, controller, backend
<1>7. QED
    BY <1>3, <1>4, <1>5, <1>6 DEF ControllerInv

\* The steps of the pass that read or decide leave rows and executions alone.
LEMMA ReadsKeepInv ==
    ASSUME ControllerInv,
           \/ ReadView \/ GatesOpen \/ GateRefuses \/ RefreshLineage
           \/ ArmRetry \/ ExhaustRetries \/ Crash \/ PassFails
           \/ \E o \in LaunchReplies : LaunchAnswered(o)
           \/ \E o \in Observations : InspectionAnswered(o)
    PROVE  ControllerInv'
<1>1. ControllerTypeOK' /\ PassInv'
    BY ReadKeepsInv, MoveKeepsInv, RefreshKeepsInv
<1>2. UNCHANGED vars /\ UNCHANGED backend
    BY DEF ReadView, GatesOpen, GateRefuses, RefreshLineage, ArmRetry,
           ExhaustRetries, Crash, PassFails, LaunchAnswered, InspectionAnswered
<1>3. RunInv'
    BY <1>2, OutsideKeepsInv DEF ControllerInv
<1>4. LiveExecutionIsCurrent' /\ LaunchedUnderMarker'
    BY <1>2 DEF ControllerInv, LiveExecutionIsCurrent, LaunchedUnderMarker,
                Nonterminal, Created, vars, backend
<1>5. QED
    BY <1>1, <1>3, <1>4 DEF ControllerInv

----------------------------------------------------------------------------

\* The controller, its workers and every crash between two of its steps keep
\* the invariant, whatever the bounds, the retry policy and the replies.
THEOREM ControllerSafe == ControllerSpec => []ControllerInv
<1>1. ControllerInit => ControllerInv
    BY InitControllerInv
<1>2. ControllerInv /\ [ControllerNext]_controllerVars => ControllerInv'
  <2> SUFFICES ASSUME ControllerInv, [ControllerNext]_controllerVars
               PROVE  ControllerInv'
    OBVIOUS
  <2>1. CASE \/ ReadView \/ GatesOpen \/ GateRefuses \/ RefreshLineage
             \/ ArmRetry \/ ExhaustRetries \/ Crash \/ PassFails
             \/ \E o \in LaunchReplies : LaunchAnswered(o)
             \/ \E o \in Observations : InspectionAnswered(o)
    BY <2>1, ReadsKeepInv
  <2>2. CASE PrepareContext
    BY <2>2, PrepareKeepsInv
  <2>3. CASE EstablishAttempt
    BY <2>3, EstablishKeepsInv
  <2>4. CASE RotateBearer
    BY <2>4, RotateKeepsInv
  <2>5. CASE CommitContact
    BY <2>5, ContactKeepsInv
  <2>6. CASE CallLauncher
    BY <2>6, CallKeepsInv
  <2>7. CASE RecordLaunch \/ RecordLiveness \/ RecordEnd
    BY <2>7, RecordKeepsInv
  <2>8. CASE Conclude
    BY <2>8, ConcludeKeepsControllerInv
  <2>9. CASE \E n \in Ordinals : Deliver(n) \/ WorkerExits(n)
    BY <2>9, ExecutionKeepsInv
  <2>10. CASE \E n \in Ordinals : WorkerSubmits(n)
    BY <2>10, SubmitKeepsControllerInv
  <2>11. CASE OperatorCancels \/ UNCHANGED controllerVars
    BY <2>11, CancelKeepsControllerInv
  <2>12. QED
    BY <2>1, <2>2, <2>3, <2>4, <2>5, <2>6, <2>7, <2>8, <2>9, <2>10, <2>11
    DEF ControllerNext, Step
<1>3. QED
    BY <1>1, <1>2, PTL DEF ControllerSpec

\* "UNKNOWN external execution never creates replacement execution": an
\* execution that may run is the current Attempt's, for any number of
\* Attempts, crashes, failed passes and indefinite answers.
THEOREM NoReplacementWhileLive == ControllerSpec => []LiveExecutionIsCurrent
<1>1. ControllerInv => LiveExecutionIsCurrent
    BY DEF ControllerInv
<1>2. QED
    BY <1>1, ControllerSafe, PTL

\* Every execution was started after its durable marker and holds the
\* credential its session is frozen at.
THEOREM MarkerBeforeLaunch == ControllerSpec => []LaunchedUnderMarker
<1>1. ControllerInv => LaunchedUnderMarker
    BY DEF ControllerInv
<1>2. QED
    BY <1>1, ControllerSafe, PTL

\* No transaction of a pass is refused for a stale revision.
THEOREM TokensStayCurrent == ControllerSpec => []TokensCurrent
<1>1. ControllerInv => TokensCurrent
  <2> SUFFICES ASSUME ControllerInv PROVE TokensCurrent
    OBVIOUS
  <2>1. PassInv /\ RunInv
    BY DEF ControllerInv
  <2>2. Quiet => CurrentLineage = NoAttempt
    BY <2>1, LineageRead DEF Quiet
  <2>3. QED
    BY <2>1, <2>2 DEF PassInv, TokensCurrent, Uncontacted, Holds
<1>2. QED
    BY <1>1, ControllerSafe, PTL

\* The controller implements RunAuthority: with the theorems about that
\* module, what holds of its rows whatever a caller does holds here.
THEOREM ControllerImplements == ControllerSpec => ImplementsRunAuthority
<1>1. ControllerInit => Init
    BY DEF ControllerInit
<1>2. ControllerInv /\ [ControllerNext]_controllerVars => [Next]_vars
    BY StepRefines
<1>3. QED
    BY <1>1, <1>2, ControllerSafe, PTL
    DEF ControllerSpec, Spec, ImplementsRunAuthority

============================================================================
