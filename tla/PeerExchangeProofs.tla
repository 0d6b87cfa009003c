------------------------- MODULE PeerExchangeProofs -------------------------
(***************************************************************************)
(* What a caller of PeerClient can rely on, for any number of callers,     *)
(* bodies, requests and repetitions, whatever the network loses or delays. *)
(***************************************************************************)
EXTENDS PeerExchange, TLAPS

\* Every answer on its way, and every request a caller has, was inserted with
\* the very body the caller sends; and a row that is not there has no body.
RowInv ==
    /\ OneRowPerKey
    /\ \A c \in Caller : answer[c] # NULL => body[answer[c]] = wants[c]
    /\ \A r \in RequestId : phase[r] = "absent" => body[r] = NULL

\* A caller that waits, or has waited, has a request; a status on its way and
\* a result exist only where they are waited for and returned; both stand.
WaitInv ==
    \A c \in Caller :
        /\ Waiting(c) \/ pc[c] = "done" => request[c] # NULL
        /\ pc[c] # "polling" => view[c] = "none"
        /\ pc[c] # "done" => result[c] = "none"
        /\ view[c] = "finished" => phase[request[c]] \in Over \cup {"asked"}
        /\ view[c] = "cancelled" => phase[request[c]] \in {"cancelled", "asked"}
        /\ result[c] = "finished" => phase[request[c]] \in Over \cup {"asked"}
        /\ result[c] = "cancelled" => phase[request[c]] \in {"cancelled", "asked"}

\* The inductive invariant.
ExchangeIInv == ExchangeTypeOK /\ RowInv /\ WaitInv

USE ExchangeAssumption DEF Server!TypeOK, Server!Phase, Goes, CallerMoves, serverVars

\* An empty store and idle callers satisfy it.
LEMMA ExchangeInitInv == ExchangeInit => ExchangeIInv
BY DEF ExchangeInit, Server!Init, ExchangeIInv, ExchangeTypeOK, RowInv, OneRowPerKey, WaitInv,
       Waiting, LooksUp, Over

\* What the server may do to the phase of one request.
LEMMA ServerMoves ==
    ASSUME ExchangeTypeOK, ServerWorks
    PROVE  /\ phase' \in [RequestId -> Server!Phase] /\ hand' \in RequestId \cup {NULL}
           /\ \A r \in RequestId :
                  /\ phase'[r] = "absent" => phase[r] = "absent"
                  /\ phase[r] \in Over \cup {"asked"} => phase'[r] \in Over \cup {"asked"}
                  /\ phase[r] \in {"cancelled", "asked"} => phase'[r] \in {"cancelled", "asked"}
<1> USE DEF ExchangeTypeOK, Over
<1> DEFINE Moves ==
        /\ phase' \in [RequestId -> Server!Phase] /\ hand' \in RequestId \cup {NULL}
        /\ \A r \in RequestId :
              /\ phase'[r] = "absent" => phase[r] = "absent"
              /\ phase[r] \in Over \cup {"asked"} => phase'[r] \in Over \cup {"asked"}
              /\ phase[r] \in {"cancelled", "asked"} => phase'[r] \in {"cancelled", "asked"}
<1>1. ASSUME NEW r \in RequestId,
             \/ Server!Withdraw(r) \/ Server!Take(r) \/ Server!PutBack(r)
             \/ Server!Finish(r) \/ Server!Ask(r) \/ Server!Settle(r)
      PROVE  Moves
  BY <1>1 DEF Server!Withdraw, Server!Take, Server!PutBack, Server!Finish, Server!Ask,
              Server!Settle, Server!Goes
<1>2. ASSUME NEW rs \in SUBSET RequestId, Server!Return(rs) PROVE Moves
  BY <1>2 DEF Server!Return
<1>3. ASSUME Server!LetGo PROVE Moves
  BY <1>3 DEF Server!LetGo
<1> QED
  BY <1>1, <1>2, <1>3 DEF ServerWorks

\* Every step keeps the types.
LEMMA ExchangeTypeStep ==
    ASSUME ExchangeIInv, [ExchangeNext]_exchangeVars
    PROVE  ExchangeTypeOK'
<1> SUFFICES ExchangeTypeOK'
  OBVIOUS
<1>0. ExchangeTypeOK /\ WaitInv
  BY DEF ExchangeIInv
<1> USE <1>0 DEF ExchangeTypeOK, Replies, Ends, Waiting, Over
<1>1. CASE UNCHANGED exchangeVars
  BY <1>1 DEF exchangeVars, serverVars, callerVars
<1>2. ASSUME NEW c \in Caller, Send(c)
      PROVE  ExchangeTypeOK'
  BY <1>2 DEF Send
<1>3. ASSUME NEW c \in Caller, Accepted(c)
      PROVE  ExchangeTypeOK'
  BY <1>3 DEF Accepted
<1>4. ASSUME NEW c \in Caller, SendFails(c)
      PROVE  ExchangeTypeOK'
  BY <1>4 DEF SendFails
<1>5. ASSUME NEW c \in Caller, TimesOut(c)
      PROVE  ExchangeTypeOK'
  BY <1>5 DEF TimesOut
<1>6. ASSUME NEW c \in Caller, Polls(c)
      PROVE  ExchangeTypeOK'
  BY <1>6 DEF Polls
<1>7. ASSUME NEW c \in Caller, ServerTellsStatus(c)
      PROVE  ExchangeTypeOK'
  BY <1>7, <1>0 DEF ServerTellsStatus, WaitInv
<1>8. ASSUME NEW c \in Caller, SeesEnd(c)
      PROVE  ExchangeTypeOK'
  BY <1>8 DEF SeesEnd, WaitInv
<1>9. ASSUME NEW c \in Caller, SeesNoEnd(c)
      PROVE  ExchangeTypeOK'
  BY <1>9 DEF SeesNoEnd
<1>10. ASSUME NEW c \in Caller, Wakes(c)
      PROVE  ExchangeTypeOK'
  BY <1>10 DEF Wakes
<1>11. ASSUME NEW c \in Caller, PollFails(c)
      PROVE  ExchangeTypeOK'
  BY <1>11 DEF PollFails
<1>12. ASSUME NEW c \in Caller, DeadlinePasses(c)
      PROVE  ExchangeTypeOK'
  BY <1>12 DEF DeadlinePasses
<1>13. ASSUME NEW c \in Caller, NEW to \in {"head", "idle"}, CallsAgain(c, to)
      PROVE  ExchangeTypeOK'
  BY <1>13 DEF CallsAgain
<1>14. ASSUME NEW m \in posts, NEW r \in RequestId, InsertNew(m, r)
      PROVE  ExchangeTypeOK'
  BY <1>14 DEF InsertNew, Server!Accept, Server!Goes
<1>15. ASSUME NEW m \in posts, NEW r \in RequestId, InsertRepeat(m, r)
      PROVE  ExchangeTypeOK'
  BY <1>15 DEF InsertRepeat
<1>16. ASSUME NEW m \in posts, InsertRefused(m)
      PROVE  ExchangeTypeOK'
  BY <1>16 DEF InsertRefused
<1>17. ASSUME NEW m \in posts, LosePost(m)
      PROVE  ExchangeTypeOK'
  BY <1>17 DEF LosePost, callerVars
<1>18. CASE ServerWorks
  BY <1>18, ServerMoves DEF ServerWorks, callerVars
<1> QED
  BY <1>1, <1>2, <1>3, <1>4, <1>5, <1>6, <1>7, <1>8, <1>9, <1>10, <1>11, <1>12, <1>13,
     <1>14, <1>15, <1>16, <1>17, <1>18
     DEF ExchangeNext, ServerStep, CallerStep, WaitStep

\* Every step keeps one row per key and the callers' bodies in their rows.
LEMMA ExchangeRowStep ==
    ASSUME ExchangeIInv, [ExchangeNext]_exchangeVars
    PROVE  RowInv'
<1> SUFFICES RowInv'
  OBVIOUS
<1>0. ExchangeTypeOK /\ RowInv
  BY DEF ExchangeIInv
<1> USE <1>0 DEF ExchangeTypeOK, RowInv, OneRowPerKey, LooksUp, Replies, Ends
<1>1. CASE UNCHANGED exchangeVars
  BY <1>1 DEF exchangeVars, serverVars, callerVars
<1>2. ASSUME NEW c \in Caller, Send(c)
      PROVE  RowInv'
  BY <1>2 DEF Send
<1>3. ASSUME NEW c \in Caller, Accepted(c)
      PROVE  RowInv'
  BY <1>3 DEF Accepted
<1>4. ASSUME NEW c \in Caller, SendFails(c)
      PROVE  RowInv'
  BY <1>4 DEF SendFails
<1>5. ASSUME NEW c \in Caller, TimesOut(c)
      PROVE  RowInv'
  BY <1>5 DEF TimesOut
<1>6. ASSUME NEW c \in Caller, Polls(c)
      PROVE  RowInv'
  BY <1>6 DEF Polls
<1>7. ASSUME NEW c \in Caller, ServerTellsStatus(c)
      PROVE  RowInv'
  BY <1>7 DEF ServerTellsStatus
<1>8. ASSUME NEW c \in Caller, SeesEnd(c)
      PROVE  RowInv'
  BY <1>8 DEF SeesEnd
<1>9. ASSUME NEW c \in Caller, SeesNoEnd(c)
      PROVE  RowInv'
  BY <1>9 DEF SeesNoEnd
<1>10. ASSUME NEW c \in Caller, Wakes(c)
      PROVE  RowInv'
  BY <1>10 DEF Wakes
<1>11. ASSUME NEW c \in Caller, PollFails(c)
      PROVE  RowInv'
  BY <1>11 DEF PollFails
<1>12. ASSUME NEW c \in Caller, DeadlinePasses(c)
      PROVE  RowInv'
  BY <1>12 DEF DeadlinePasses
<1>13. ASSUME NEW c \in Caller, NEW to \in {"head", "idle"}, CallsAgain(c, to)
      PROVE  RowInv'
  BY <1>13 DEF CallsAgain
<1>14. ASSUME NEW m \in posts, NEW r \in RequestId, InsertNew(m, r)
      PROVE  RowInv'
  BY <1>14 DEF InsertNew, Server!Accept, Server!Goes, HoldersOf
<1>15. ASSUME NEW m \in posts, NEW r \in RequestId, InsertRepeat(m, r)
      PROVE  RowInv'
  BY <1>15 DEF InsertRepeat
<1>16. ASSUME NEW m \in posts, InsertRefused(m)
      PROVE  RowInv'
  BY <1>16 DEF InsertRefused
<1>17. ASSUME NEW m \in posts, LosePost(m)
      PROVE  RowInv'
  BY <1>17 DEF LosePost, callerVars
<1>18. CASE ServerWorks
  BY <1>18, ServerMoves DEF ServerWorks, callerVars
<1> QED
  BY <1>1, <1>2, <1>3, <1>4, <1>5, <1>6, <1>7, <1>8, <1>9, <1>10, <1>11, <1>12, <1>13,
     <1>14, <1>15, <1>16, <1>17, <1>18
     DEF ExchangeNext, ServerStep, CallerStep, WaitStep

\* Every step keeps what the callers were told true of their requests.
LEMMA ExchangeWaitStep ==
    ASSUME ExchangeIInv, [ExchangeNext]_exchangeVars
    PROVE  WaitInv'
<1> SUFFICES WaitInv'
  OBVIOUS
<1>0. ExchangeTypeOK /\ WaitInv
  BY DEF ExchangeIInv
<1> USE <1>0 DEF ExchangeTypeOK, WaitInv, Waiting, Replies, Ends, Over
<1>1. CASE UNCHANGED exchangeVars
  BY <1>1 DEF exchangeVars, serverVars, callerVars
<1>2. ASSUME NEW c \in Caller, Send(c)
      PROVE  WaitInv'
  BY <1>2 DEF Send
<1>3. ASSUME NEW c \in Caller, Accepted(c)
      PROVE  WaitInv'
  BY <1>3 DEF Accepted
<1>4. ASSUME NEW c \in Caller, SendFails(c)
      PROVE  WaitInv'
  BY <1>4 DEF SendFails
<1>5. ASSUME NEW c \in Caller, TimesOut(c)
      PROVE  WaitInv'
  BY <1>5 DEF TimesOut
<1>6. ASSUME NEW c \in Caller, Polls(c)
      PROVE  WaitInv'
  BY <1>6 DEF Polls
<1>7. ASSUME NEW c \in Caller, ServerTellsStatus(c)
      PROVE  WaitInv'
  BY <1>7 DEF ServerTellsStatus
<1>8. ASSUME NEW c \in Caller, SeesEnd(c)
      PROVE  WaitInv'
  BY <1>8 DEF SeesEnd
<1>9. ASSUME NEW c \in Caller, SeesNoEnd(c)
      PROVE  WaitInv'
  BY <1>9 DEF SeesNoEnd
<1>10. ASSUME NEW c \in Caller, Wakes(c)
      PROVE  WaitInv'
  BY <1>10 DEF Wakes
<1>11. ASSUME NEW c \in Caller, PollFails(c)
      PROVE  WaitInv'
  BY <1>11 DEF PollFails
<1>12. ASSUME NEW c \in Caller, DeadlinePasses(c)
      PROVE  WaitInv'
  BY <1>12 DEF DeadlinePasses
<1>13. ASSUME NEW c \in Caller, NEW to \in {"head", "idle"}, CallsAgain(c, to)
      PROVE  WaitInv'
  BY <1>13 DEF CallsAgain
<1>14. ASSUME NEW m \in posts, NEW r \in RequestId, InsertNew(m, r)
      PROVE  WaitInv'
  BY <1>14 DEF InsertNew, Server!Accept, Server!Goes
<1>15. ASSUME NEW m \in posts, NEW r \in RequestId, InsertRepeat(m, r)
      PROVE  WaitInv'
  BY <1>15 DEF InsertRepeat
<1>16. ASSUME NEW m \in posts, InsertRefused(m)
      PROVE  WaitInv'
  BY <1>16 DEF InsertRefused
<1>17. ASSUME NEW m \in posts, LosePost(m)
      PROVE  WaitInv'
  BY <1>17 DEF LosePost, callerVars
<1>18. CASE ServerWorks
  BY <1>18, ServerMoves DEF ServerWorks, callerVars
<1> QED
  BY <1>1, <1>2, <1>3, <1>4, <1>5, <1>6, <1>7, <1>8, <1>9, <1>10, <1>11, <1>12, <1>13,
     <1>14, <1>15, <1>16, <1>17, <1>18
     DEF ExchangeNext, ServerStep, CallerStep, WaitStep

\* So it holds always.
LEMMA ExchangeInvariant == ExchangeSpec => []ExchangeIInv
<1>1. ExchangeIInv /\ [ExchangeNext]_exchangeVars => ExchangeIInv'
  BY ExchangeTypeStep, ExchangeRowStep, ExchangeWaitStep DEF ExchangeIInv
<1> QED
  BY ExchangeInitInv, <1>1, PTL DEF ExchangeSpec

\* Server and callers keep the types of their state.
THEOREM ExchangeTypes == ExchangeSpec => []ExchangeTypeOK
<1>1. ExchangeIInv => ExchangeTypeOK
  BY DEF ExchangeIInv
<1> QED
  BY ExchangeInvariant, <1>1, PTL

\* There is one row per key, everyone who was given it had sent its body, and
\* what wait_for_completion returned stands.
THEOREM AnswersStand == ExchangeSpec => []AnswersHold
<1>1. ExchangeIInv => AnswersHold
  BY DEF ExchangeIInv, RowInv, WaitInv, AnswersHold, ResultStands
<1> QED
  BY ExchangeInvariant, <1>1, PTL
=============================================================================
