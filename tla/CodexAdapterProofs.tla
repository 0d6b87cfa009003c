------------------------- MODULE CodexAdapterProofs -------------------------
(***************************************************************************)
(* What a turn of CodexAdapter guarantees, whatever its child writes and   *)
(* whenever it is cancelled, for any set of thread ids and any amount of   *)
(* output; and that the adapter implements CodexTurn.                      *)
(***************************************************************************)
EXTENDS CodexAdapter, FiniteSetTheorems, WellFoundedInduction, TLAPS

\* A child runs only while the coroutine starts it or waits for it.
ChildInv == child = "running" => pc \in {"spawn", "wait"}

\* The history of the turn: before its first suspension nobody has cancelled
\* it, between turns no cancellation is pending, and where one is thrown it is
\* still pending.
CancelInv ==
    /\ pc = "begin" => ~cancelSeen
    /\ pc \in {"idle", "begin"} => ~cancelReq
    /\ pc \in {"spawn", "wait", "drain", "sleep"} => (cancelReq <=> cancelSeen)
    /\ pc = "reap" => cancelSeen

\* Where the coroutine stands tells whether time ran out and what was lost.
OutputInv ==
    /\ mode = "fake" => child = "none" /\ pc \in {"idle", "sleep"}
    /\ pc \in {"begin", "sleep"} => child = "none"
    /\ pc \in {"begin", "spawn", "wait", "sleep"} => ~timedOut
    /\ ~timedOut => lost = 0
    /\ child = "none" => ~helper

\* Every thread id in the output was announced by a child.
AnnouncedInv == \A i \in DOMAIN out : out[i] \in Thread => out[i] \in announced

\* The inductive invariant.
AdapterIInv ==
    AdapterTypeOK /\ ChildInv /\ CancelInv /\ OutputInv /\ AnnouncedInv /\ AnswerAtEnd

-----------------------------------------------------------------------------
(* The parser                                                              *)

\* What is left of the output is a sequence of its lines.
LEMMA OutputLines ==
    ASSUME AdapterTypeOK
    PROVE  /\ Output \in Seq(Line)
           /\ \A i \in DOMAIN Output : \E j \in DOMAIN out : Output[i] = out[j]
           /\ lost = 0 => Output = out
BY DEF AdapterTypeOK, Output

\* The parser returns a thread id of one of the lines, or none.
LEMMA ThreadFound ==
    ASSUME NEW lines \in Seq(Line), ThreadIn(lines) # NULL
    PROVE  \E i \in DOMAIN lines : lines[i] \in Thread /\ ThreadIn(lines) = lines[i]
<1> DEFINE At == {i \in DOMAIN lines : lines[i] \in Thread}
<1>1. At # {}
  BY DEF ThreadIn
<1>2. At \subseteq Nat
  OBVIOUS
<1> DEFINE Less == {p \in Nat \X Nat : p[1] < p[2]}
<1>3. IsWellFoundedOn(Less, Nat)
  BY NatLessThanWellFounded, Zenon DEF OpToRel
<1>4. PICK i \in At : \A j \in At : ~(<<j, i>> \in Less)
  BY <1>1, <1>2, <1>3, WFMin
<1>5. ASSUME NEW j \in At PROVE i <= j
  <2>1. i \in Nat /\ j \in Nat
    BY <1>2
  <2>2. <<j, i>> \notin Less
    BY <1>4
  <2> HIDE DEF At
  <2>3. ~(j < i)
    BY <2>1, <2>2
  <2> QED
    BY <2>1, <2>3
<1> DEFINE k == CHOOSE m \in At : \A j \in At : m <= j
<1>6. k \in At
  BY <1>5
<1>7. ThreadIn(lines) = lines[k]
  BY <1>1 DEF ThreadIn
<1> QED
  BY <1>6, <1>7

\* It counts the messages.
LEMMA MessagesType ==
    ASSUME NEW lines \in Seq(Line)
    PROVE  MessagesIn(lines) \in Nat
<1> DEFINE M == {i \in DOMAIN lines : lines[i] = "message"}
<1>1. IsFiniteSet(1 .. Len(lines))
  BY FS_Interval
<1>2. IsFiniteSet(M)
  BY <1>1, FS_Subset
<1> QED
  BY <1>2, FS_CardinalityType DEF MessagesIn

-----------------------------------------------------------------------------
(* The invariant                                                           *)

USE DEF ChildVars, Kill, ChildMoves, Continues, EndsTurn, EndsWithout, Collected

\* An adapter that has not run a turn satisfies it.
LEMMA AdapterInitInv == AdapterInit => AdapterIInv
<1> SUFFICES ASSUME AdapterInit PROVE AdapterIInv
  OBVIOUS
<1>1. AdapterTypeOK
  <2>1. out \in Seq(Line) /\ lost \in 0..Len(out)
    BY DEF AdapterInit
  <2>2. code \in ExitCode /\ messages \in Nat /\ announced \in SUBSET Thread
    BY DEF AdapterInit, ExitCode
  <2>3. /\ cancelReq \in BOOLEAN /\ cancelSeen \in BOOLEAN /\ timedOut \in BOOLEAN
        /\ helper \in BOOLEAN
    BY DEF AdapterInit
  <2> QED
    BY <2>1, <2>2, <2>3 DEF AdapterInit, AdapterTypeOK, Suspended
<1> QED
  BY <1>1 DEF AdapterInit, AdapterIInv, ChildInv, CancelInv, OutputInv, AnnouncedInv,
              AnswerAtEnd, TurnCode

\* Every step keeps the control of the turn and of its child consistent.
LEMMA AdapterControlStep ==
    ASSUME AdapterIInv, [AdapterNext]_adapterVars
    PROVE  ChildInv' /\ CancelInv' /\ OutputInv'
<1> DEFINE Goal == ChildInv /\ CancelInv /\ OutputInv
<1> SUFFICES Goal'
  OBVIOUS
<1> USE DEF AdapterIInv, AdapterTypeOK, ChildInv, CancelInv, OutputInv, Suspended
<1>1. CASE UNCHANGED adapterVars
  BY <1>1 DEF adapterVars
<1>2. CASE BeginTurn
  BY <1>2 DEF BeginTurn
<1>3. CASE Cancel
  BY <1>3 DEF Cancel
<1>4. CASE Spawn
  BY <1>4 DEF Spawn
<1>5. CASE SpawnFails
  BY <1>5 DEF SpawnFails
<1>6. CASE SpawnDone
  BY <1>6 DEF SpawnDone
<1>7. CASE SpawnCancelled
  BY <1>7 DEF SpawnCancelled
<1>8. CASE TimeOut
  BY <1>8 DEF TimeOut
<1>9. CASE WaitCancelled
  BY <1>9 DEF WaitCancelled
<1>10. CASE WaitCancelledRaises
  BY <1>10 DEF WaitCancelledRaises
<1>11. CASE DrainCancelled
  BY <1>11 DEF DrainCancelled
<1>12. CASE Reaped
  BY <1>12 DEF Reaped
<1>13. CASE Answer
  BY <1>13 DEF Answer
<1>14. CASE AnswerRaises
  BY <1>14 DEF AnswerRaises
<1>15. CASE FakeCancelled
  BY <1>15 DEF FakeCancelled
<1>16. ASSUME NEW c \in TurnCode, FakeAnswers(c) PROVE Goal'
  BY <1>16 DEF FakeAnswers
<1>17. CASE ChildForks
  BY <1>17 DEF ChildForks
<1>18. ASSUME NEW l \in Line, Writes(l) PROVE Goal'
  BY <1>18 DEF Writes
<1>19. ASSUME NEW c \in {0, 1}, ChildExits(c) PROVE Goal'
  BY <1>19 DEF ChildExits
<1>20. CASE HelperEnds
  BY <1>20 DEF HelperEnds
<1> QED
  BY <1>1, <1>2, <1>3, <1>4, <1>5, <1>6, <1>7, <1>8, <1>9, <1>10, <1>11, <1>12, <1>13,
     <1>14, <1>15, <1>16, <1>17, <1>18, <1>19, <1>20
     DEF AdapterNext, AdapterStep, ChildStep

\* What the supervisor stores of an answer is a session.
LEMMA RememberType ==
    ASSUME AdapterTypeOK, NEW s \in Thread \cup {MADE_UP, NULL}, Remember(s)
    PROVE  session' \in Thread \cup {MADE_UP, NULL}
BY DEF AdapterTypeOK, Remember

\* What the parser finds is a thread id or nothing.
LEMMA ThreadType ==
    ASSUME AdapterTypeOK
    PROVE  ThreadIn(Output) \in Thread \cup {NULL}
BY OutputLines, ThreadFound

\* Every step keeps the types.
LEMMA AdapterTypeStep ==
    ASSUME AdapterIInv, [AdapterNext]_adapterVars
    PROVE  AdapterTypeOK'
<1> SUFFICES AdapterTypeOK'
  OBVIOUS
<1>0. AdapterTypeOK
  BY DEF AdapterIInv
<1> USE <1>0, AdapterAssumption DEF AdapterTypeOK, Suspended, TurnCode, ExitCode
<1>1. CASE UNCHANGED adapterVars
  BY <1>1 DEF adapterVars
<1>2. CASE BeginTurn
  <2>1. out' \in Seq(Line) /\ lost' \in 0..Len(out')
    BY <1>2 DEF BeginTurn
  <2>2. code' \in ExitCode /\ messages' \in Nat /\ pc' \in Suspended \cup {"idle", "begin"}
    BY <1>2 DEF BeginTurn
  <2>3. /\ cancelReq' \in BOOLEAN /\ cancelSeen' \in BOOLEAN /\ timedOut' \in BOOLEAN
        /\ helper' \in BOOLEAN
    BY <1>2 DEF BeginTurn
  <2> QED
    BY <1>2, <2>1, <2>2, <2>3 DEF BeginTurn
<1>3. CASE Cancel
  BY <1>3 DEF Cancel
<1>4. CASE Spawn
  BY <1>4 DEF Spawn
<1>5. CASE SpawnFails
  BY <1>5, RememberType DEF SpawnFails
<1>6. CASE SpawnDone
  BY <1>6 DEF SpawnDone
<1>7. CASE SpawnCancelled
  BY <1>7 DEF SpawnCancelled
<1>8. CASE TimeOut
  BY <1>8 DEF TimeOut
<1>9. CASE WaitCancelled
  BY <1>9 DEF WaitCancelled
<1>10. CASE WaitCancelledRaises
  BY <1>10 DEF WaitCancelledRaises
<1>11. CASE DrainCancelled
  BY <1>11 DEF DrainCancelled
<1>12. CASE Reaped
  BY <1>12 DEF Reaped
<1>13. CASE Answer
  BY <1>13, RememberType, ThreadType, OutputLines, MessagesType DEF Answer
<1>14. CASE AnswerRaises
  BY <1>14 DEF AnswerRaises
<1>15. CASE FakeCancelled
  BY <1>15 DEF FakeCancelled
<1>16. ASSUME NEW c \in TurnCode, FakeAnswers(c) PROVE AdapterTypeOK'
  BY <1>16, RememberType DEF FakeAnswers
<1>17. CASE ChildForks
  BY <1>17 DEF ChildForks
<1>18. ASSUME NEW l \in Line, Writes(l) PROVE AdapterTypeOK'
  BY <1>18 DEF Writes
<1>19. ASSUME NEW c \in {0, 1}, ChildExits(c) PROVE AdapterTypeOK'
  BY <1>19 DEF ChildExits
<1>20. CASE HelperEnds
  <2>1. helper' \in BOOLEAN
    BY <1>20 DEF HelperEnds
  <2> QED
    BY <1>20, <2>1 DEF HelperEnds
<1> QED
  BY <1>1, <1>2, <1>3, <1>4, <1>5, <1>6, <1>7, <1>8, <1>9, <1>10, <1>11, <1>12, <1>13,
     <1>14, <1>15, <1>16, <1>17, <1>18, <1>19, <1>20
     DEF AdapterNext, AdapterStep, ChildStep

\* The output only grows, by lines that are announced with their writing.
LEMMA AdapterAnnouncedStep ==
    ASSUME AdapterIInv, [AdapterNext]_adapterVars
    PROVE  AnnouncedInv'
<1> SUFFICES AnnouncedInv'
  OBVIOUS
<1>0. AdapterTypeOK /\ AnnouncedInv
  BY DEF AdapterIInv
<1> USE <1>0 DEF AdapterTypeOK, AnnouncedInv
<1>1. CASE UNCHANGED adapterVars
  BY <1>1 DEF adapterVars
<1>2. CASE BeginTurn
  BY <1>2 DEF BeginTurn
<1>3. CASE Cancel
  BY <1>3 DEF Cancel
<1>4. CASE Spawn
  BY <1>4 DEF Spawn
<1>5. CASE SpawnFails
  BY <1>5 DEF SpawnFails
<1>6. CASE SpawnDone
  BY <1>6 DEF SpawnDone
<1>7. CASE SpawnCancelled
  BY <1>7 DEF SpawnCancelled
<1>8. CASE TimeOut
  BY <1>8 DEF TimeOut
<1>9. CASE WaitCancelled
  BY <1>9 DEF WaitCancelled
<1>10. CASE WaitCancelledRaises
  BY <1>10 DEF WaitCancelledRaises
<1>11. CASE DrainCancelled
  BY <1>11 DEF DrainCancelled
<1>12. CASE Reaped
  BY <1>12 DEF Reaped
<1>13. CASE Answer
  BY <1>13 DEF Answer
<1>14. CASE AnswerRaises
  BY <1>14 DEF AnswerRaises
<1>15. CASE FakeCancelled
  BY <1>15 DEF FakeCancelled
<1>16. ASSUME NEW c \in TurnCode, FakeAnswers(c) PROVE AnnouncedInv'
  BY <1>16 DEF FakeAnswers
<1>17. CASE ChildForks
  BY <1>17 DEF ChildForks
<1>18. ASSUME NEW l \in Line, Writes(l) PROVE AnnouncedInv'
  BY <1>18 DEF Writes
<1>19. ASSUME NEW c \in {0, 1}, ChildExits(c) PROVE AnnouncedInv'
  BY <1>19 DEF ChildExits
<1>20. CASE HelperEnds
  BY <1>20 DEF HelperEnds
<1> QED
  BY <1>1, <1>2, <1>3, <1>4, <1>5, <1>6, <1>7, <1>8, <1>9, <1>10, <1>11, <1>12, <1>13,
     <1>14, <1>15, <1>16, <1>17, <1>18, <1>19, <1>20
     DEF AdapterNext, AdapterStep, ChildStep

\* Every step keeps true what was said of an answer: after the turn nobody holds
\* the pipe, unless time ran out.
LEMMA AdapterEndStep ==
    ASSUME AdapterIInv, [AdapterNext]_adapterVars
    PROVE  AnswerAtEnd'
<1> SUFFICES AnswerAtEnd'
  OBVIOUS
<1>0. AdapterTypeOK /\ ChildInv /\ OutputInv /\ AnswerAtEnd
  BY DEF AdapterIInv
<1> USE <1>0 DEF ChildInv, OutputInv, AnswerAtEnd, TurnCode
<1>1. CASE UNCHANGED adapterVars
  BY <1>1 DEF adapterVars
<1>2. CASE BeginTurn
  BY <1>2 DEF BeginTurn
<1>3. CASE Cancel
  BY <1>3 DEF Cancel
<1>4. CASE Spawn
  BY <1>4 DEF Spawn
<1>5. CASE SpawnFails
  BY <1>5 DEF SpawnFails
<1>6. CASE SpawnDone
  BY <1>6 DEF SpawnDone
<1>7. CASE SpawnCancelled
  BY <1>7 DEF SpawnCancelled
<1>8. CASE TimeOut
  BY <1>8 DEF TimeOut
<1>9. CASE WaitCancelled
  BY <1>9 DEF WaitCancelled
<1>10. CASE WaitCancelledRaises
  BY <1>10 DEF WaitCancelledRaises
<1>11. CASE DrainCancelled
  BY <1>11 DEF DrainCancelled
<1>12. CASE Reaped
  BY <1>12 DEF Reaped
<1>13. CASE Answer
  BY <1>13, OutputLines DEF Answer
<1>14. CASE AnswerRaises
  BY <1>14 DEF AnswerRaises
<1>15. CASE FakeCancelled
  BY <1>15 DEF FakeCancelled
<1>16. ASSUME NEW c \in TurnCode, FakeAnswers(c) PROVE AnswerAtEnd'
  BY <1>16 DEF FakeAnswers
<1>17. CASE ChildForks
  BY <1>17 DEF ChildForks
<1>18. ASSUME NEW l \in Line, Writes(l) PROVE AnswerAtEnd'
  BY <1>18 DEF Writes
<1>19. ASSUME NEW c \in {0, 1}, ChildExits(c) PROVE AnswerAtEnd'
  BY <1>19 DEF ChildExits
<1>20. CASE HelperEnds
  BY <1>20 DEF HelperEnds
<1> QED
  BY <1>1, <1>2, <1>3, <1>4, <1>5, <1>6, <1>7, <1>8, <1>9, <1>10, <1>11, <1>12, <1>13,
     <1>14, <1>15, <1>16, <1>17, <1>18, <1>19, <1>20
     DEF AdapterNext, AdapterStep, ChildStep

\* So it holds always.
LEMMA AdapterInvariant == AdapterSpec => []AdapterIInv
<1>1. AdapterIInv /\ [AdapterNext]_adapterVars => AdapterIInv'
  BY AdapterTypeStep, AdapterControlStep, AdapterAnnouncedStep, AdapterEndStep
     DEF AdapterIInv
<1> QED
  BY AdapterInitInv, <1>1, PTL DEF AdapterSpec

-----------------------------------------------------------------------------
(* The theorems                                                            *)

\* The state of a turn and of its child keeps its types.
THEOREM AdapterTypes == AdapterSpec => []AdapterTypeOK
<1>1. AdapterIInv => AdapterTypeOK
  BY DEF AdapterIInv
<1> QED
  BY AdapterInvariant, <1>1, PTL

\* No codex process outlives its turn, wherever a cancellation or the timeout
\* meets it.
THEOREM NoChildLeft == AdapterSpec => []NoOrphan
<1>1. AdapterIInv => NoOrphan
  BY DEF AdapterIInv, ChildInv, NoOrphan
<1> QED
  BY AdapterInvariant, <1>1, PTL

\* An answer is given when the child is gone and, unless time ran out, its output
\* has ended and was read from its first line; and it is a success if and only
\* if the child's own exit was.
THEOREM AnswersComeAtEnd == AdapterSpec => []AnswerAtEnd
<1>1. AdapterIInv => AnswerAtEnd
  BY DEF AdapterIInv
<1> QED
  BY AdapterInvariant, <1>1, PTL

\* A session that a child announced is given up only for another one that a
\* child announced.
THEOREM RealSessionsStay == AdapterSpec => RealSessionStays
<1>1. ASSUME AdapterIInv, [AdapterNext]_adapterVars
      PROVE  session \in announced => session' \in announced'
  <2> SUFFICES ASSUME session \in announced
               PROVE  session' \in announced'
    OBVIOUS
  <2>1. session \in Thread /\ session # NULL
    BY <1>1, AdapterAssumption DEF AdapterIInv, AdapterTypeOK
  <2>2. CASE UNCHANGED adapterVars
    BY <2>2 DEF adapterVars
  <2>3. ASSUME SpawnFails \/ \E c \in TurnCode : FakeAnswers(c)
        PROVE  session' \in announced'
    BY <2>1, <2>3 DEF SpawnFails, FakeAnswers, Remember
  <2>4. CASE Answer
    <3>1. ThreadIn(Output) # NULL => ThreadIn(Output) \in announced
      BY <1>1, OutputLines, ThreadFound DEF AdapterIInv, AnnouncedInv
    <3> QED
      BY <2>1, <2>4, <3>1 DEF Answer, Remember
  <2>5. ASSUME NEW l \in Line, Writes(l) PROVE session' \in announced'
    BY <2>5 DEF Writes
  <2>6. ASSUME BeginTurn \/ Cancel \/ Spawn \/ SpawnDone \/ SpawnCancelled \/ TimeOut
               \/ WaitCancelled \/ WaitCancelledRaises \/ DrainCancelled \/ Reaped
               \/ AnswerRaises \/ FakeCancelled \/ ChildForks \/ HelperEnds
               \/ \E c \in {0, 1} : ChildExits(c)
        PROVE  UNCHANGED <<session, announced>>
    BY <2>6 DEF BeginTurn, Cancel, Spawn, SpawnDone, SpawnCancelled, TimeOut, WaitCancelled,
                WaitCancelledRaises, DrainCancelled, Reaped, AnswerRaises, FakeCancelled,
                ChildForks, HelperEnds, ChildExits
  <2> QED
    BY <1>1, <2>2, <2>3, <2>4, <2>5, <2>6 DEF AdapterNext, AdapterStep, ChildStep
<1> QED
  BY AdapterInvariant, <1>1, PTL DEF AdapterSpec, RealSessionStays

\* The adapter implements CodexTurn: it never answers a turn it was asked to
\* stop, and stops none it was not.
THEOREM TurnImplemented == AdapterSpec => ImplementsTurn
<1>1. AdapterInit => Turn!Init
  BY DEF AdapterInit, Turn!Init
<1>2. ASSUME AdapterIInv, [AdapterNext]_adapterVars
      PROVE  [Turn!Next]_<<pc # "idle", cancelSeen, outcome>>
  <2> USE DEF Turn!Next, Turn!Begin, Turn!Ask, Turn!Answers, Turn!Stops, Turn!Raises, Turn!Ends
  <2>0. CancelInv /\ pc \in Suspended \cup {"idle", "begin"}
    BY <1>2 DEF AdapterIInv, AdapterTypeOK
  <2>1. CASE UNCHANGED adapterVars
    BY <2>1 DEF adapterVars
  <2>2. CASE BeginTurn
    BY <2>2 DEF BeginTurn
  <2>3. CASE Cancel
    BY <2>3 DEF Cancel, Suspended
  <2>4. CASE Spawn \/ SpawnDone \/ TimeOut \/ WaitCancelled
    BY <2>4 DEF Spawn, SpawnDone, TimeOut, WaitCancelled
  <2>5. CASE SpawnCancelled \/ WaitCancelledRaises \/ AnswerRaises
    BY <2>5 DEF SpawnCancelled, WaitCancelledRaises, AnswerRaises
  <2>6. CASE DrainCancelled \/ Reaped \/ FakeCancelled
    BY <2>0, <2>6 DEF DrainCancelled, Reaped, FakeCancelled, CancelInv
  <2>7. ASSUME SpawnFails \/ Answer \/ \E c \in TurnCode : FakeAnswers(c)
        PROVE  Turn!Answers
    BY <2>0, <2>7 DEF SpawnFails, Answer, FakeAnswers, CancelInv, TurnCode
  <2>8. ASSUME ChildStep \/ HelperEnds PROVE UNCHANGED <<pc, cancelSeen, outcome>>
    BY <2>8 DEF ChildStep, HelperEnds, ChildForks, Writes, ChildExits
  <2> QED
    BY <1>2, <2>1, <2>2, <2>3, <2>4, <2>5, <2>6, <2>7, <2>8 DEF AdapterNext, AdapterStep
<1> QED
  BY AdapterInvariant, <1>1, <1>2, PTL DEF AdapterSpec, ImplementsTurn, Turn!Spec
=============================================================================
