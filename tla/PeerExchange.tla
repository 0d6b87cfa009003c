---------------------------- MODULE PeerExchange ----------------------------
(***************************************************************************)
(* Agents that hand work to a peer (peer_client.py): send_request and      *)
(* wait_for_completion over a network that delays and loses, against one   *)
(* server.  The server is the promise its runtime keeps, RequestLifecycle, *)
(* plus insert_request's treatment of idempotency keys.                    *)
(*                                                                         *)
(* PeerClient repeats nothing by itself; its callers may call again.  An   *)
(* HTTP error, a timeout of httpx and an answer of status 4xx or 5xx are   *)
(* all the same to them: an exception.                                     *)
(***************************************************************************)
EXTENDS Naturals, FiniteSets

CONSTANTS
    Caller,      \* tasks that use PeerClient
    RequestId,
    Body,        \* what a caller may submit: a key and the task
    Wants,       \* who may submit what: functions from Caller to Body
    NULL,        \* no key, no row
    EMPTY,       \* the key ""
    MaxTries     \* bound: submissions of a caller

ASSUME ExchangeAssumption ==
    /\ NULL \notin RequestId
    /\ NULL \notin Body
    /\ Wants \subseteq [Caller -> Body]
    /\ MaxTries \in Nat \ {0}

VARIABLES
    phase, hand,  \* the server's requests, as RequestLifecycle has them
    body,         \* what each row was inserted with
    posts,        \* submissions on their way
    wants,        \* the body each caller submits
    pc,           \* where each caller stands
    tries,        \* submissions it has made
    answer,       \* the server's answer to the last one, on its way
    request,      \* the id the caller was given
    expired,      \* the deadline of wait_for_completion is over
    view,         \* the status in a poll's answer, on its way
    result        \* what wait_for_completion returned or raised

serverVars == <<phase, hand>>
callerVars == <<pc, tries, answer, request, expired, view, result>>
exchangeVars == <<serverVars, body, posts, wants, callerVars>>

Server == INSTANCE RequestLifecycle

Over == {"finished", "cancelled"}

ExchangeTypeOK ==
    /\ Server!TypeOK
    /\ body \in [RequestId -> Body \cup {NULL}]
    /\ wants \in Wants
    /\ posts \subseteq [from : Caller, try : 1..MaxTries]
    /\ pc \in [Caller -> {"idle", "posting", "head", "polling", "sleeping", "done"}]
    /\ tries \in [Caller -> 0..MaxTries]
    /\ answer \in [Caller -> RequestId \cup {NULL}]
    /\ request \in [Caller -> RequestId \cup {NULL}]
    /\ expired \in [Caller -> BOOLEAN]
    /\ view \in [Caller -> Server!Phase \cup {"none"}]
    /\ result \in [Caller -> Over \cup {"none", "timeout", "error"}]

ExchangeInit ==
    /\ Server!Init
    /\ body = [r \in RequestId |-> NULL]
    /\ posts = {}
    /\ wants \in Wants
    /\ pc = [c \in Caller |-> "idle"]
    /\ tries = [c \in Caller |-> 0]
    /\ answer = [c \in Caller |-> NULL]
    /\ request = [c \in Caller |-> NULL]
    /\ expired = [c \in Caller |-> FALSE]
    /\ view = [c \in Caller |-> "none"]
    /\ result = [c \in Caller |-> "none"]

Goes(c, from, to) == pc[c] \in from /\ pc' = [pc EXCEPT ![c] = to]

-----------------------------------------------------------------------------
(* The server                                                              *)

HoldersOf(key) == {r \in RequestId : body[r] # NULL /\ body[r].key = key}

\* A key that is there is looked up; the empty one is not.
LooksUp(b) == b.key \notin {NULL, EMPTY}

\* The answer to m reaches its caller if that still waits for it.
Replies(m, r) ==
    /\ posts' = posts \ {m}
    /\ answer' = IF pc[m.from] = "posting" /\ tries[m.from] = m.try
                 THEN [answer EXCEPT ![m.from] = r] ELSE answer
    /\ UNCHANGED <<wants, pc, tries, request, expired, view, result>>

InsertNew(m, r) ==
    /\ wants[m.from].key # NULL => HoldersOf(wants[m.from].key) = {}
    /\ Server!Accept(r)
    /\ body' = [body EXCEPT ![r] = wants[m.from]]
    /\ Replies(m, r)

\* Deviation: the fingerprints are not compared.
InsertRepeat_AnyBody(m, r) ==
    /\ LooksUp(wants[m.from])
    /\ r \in HoldersOf(wants[m.from].key)
    /\ UNCHANGED <<serverVars, body>>
    /\ Replies(m, r)

\* Deviation: the stored body is answered instead of its id.
InsertRepeat_Body(m, r) ==
    /\ LooksUp(wants[m.from])
    /\ r \in HoldersOf(wants[m.from].key)
    /\ body[r] = wants[m.from]
    /\ UNCHANGED <<serverVars, body>>
    /\ Replies(m, body[r])

InsertRepeat(m, r) ==
    /\ LooksUp(wants[m.from])
    /\ r \in HoldersOf(wants[m.from].key)
    /\ body[r] = wants[m.from]
    /\ UNCHANGED <<serverVars, body>>
    /\ Replies(m, r)

\* A key that another body has (409), or a second empty one (IntegrityError).
InsertRefused(m) ==
    /\ \E r \in HoldersOf(wants[m.from].key) :
          IF LooksUp(wants[m.from]) THEN body[r] # wants[m.from]
                                     ELSE wants[m.from].key = EMPTY
    /\ UNCHANGED <<serverVars, body>>
    /\ Replies(m, NULL)

\* Whatever else happens to its requests: its scheduler, restarts, and others
\* that cancel.
ServerWorks ==
    /\ \/ \E r \in RequestId :
             \/ Server!Withdraw(r) \/ Server!Take(r) \/ Server!PutBack(r)
             \/ Server!Finish(r) \/ Server!Ask(r) \/ Server!Settle(r)
       \/ \E rs \in SUBSET RequestId : Server!Return(rs)
       \/ Server!LetGo
    /\ UNCHANGED <<body, posts, wants, callerVars>>

LosePost(m) ==
    /\ posts' = posts \ {m}
    /\ UNCHANGED <<serverVars, body, wants, callerVars>>

-----------------------------------------------------------------------------
(* send_request                                                            *)

CallerMoves == UNCHANGED <<serverVars, body, wants>>

Send(c) ==
    /\ tries[c] < MaxTries
    /\ Goes(c, {"idle"}, "posting")
    /\ tries' = [tries EXCEPT ![c] = @ + 1]
    /\ posts' = posts \cup {[from |-> c, try |-> tries[c] + 1]}
    /\ CallerMoves
    /\ UNCHANGED <<answer, request, expired, view, result>>

\* The caller goes on to wait for the request it was given.
Accepted(c) ==
    /\ answer[c] # NULL
    /\ Goes(c, {"posting"}, "head")
    /\ request' = [request EXCEPT ![c] = answer[c]]
    /\ answer' = [answer EXCEPT ![c] = NULL]
    /\ CallerMoves
    /\ UNCHANGED <<posts, tries, expired, view, result>>

\* The answer is an error, lost, or too late: the submission may still arrive.
SendFails(c) ==
    /\ Goes(c, {"posting"}, "idle")
    /\ answer' = [answer EXCEPT ![c] = NULL]
    /\ CallerMoves
    /\ UNCHANGED <<posts, tries, request, expired, view, result>>

-----------------------------------------------------------------------------
(* wait_for_completion                                                     *)

Waiting(c) == pc[c] \in {"head", "polling", "sleeping"}

DeadlinePasses(c) ==
    /\ Waiting(c) /\ ~expired[c]
    /\ expired' = [expired EXCEPT ![c] = TRUE]
    /\ CallerMoves
    /\ UNCHANGED <<posts, pc, tries, answer, request, view, result>>

Ends(c, from, how) ==
    /\ Goes(c, from, "done")
    /\ result' = [result EXCEPT ![c] = how]
    /\ view' = [view EXCEPT ![c] = "none"]
    /\ CallerMoves
    /\ UNCHANGED <<posts, tries, answer, request, expired>>

TimesOut(c) == expired[c] /\ Ends(c, {"head"}, "timeout")

\* Deviation: the deadline is not looked at.
Polls_Forever(c) ==
    /\ Goes(c, {"head"}, "polling")
    /\ CallerMoves
    /\ UNCHANGED <<posts, tries, answer, request, expired, view, result>>

Polls(c) ==
    /\ ~expired[c]
    /\ Goes(c, {"head"}, "polling")
    /\ CallerMoves
    /\ UNCHANGED <<posts, tries, answer, request, expired, view, result>>

ServerTellsStatus(c) ==
    /\ pc[c] = "polling" /\ view[c] = "none"
    /\ view' = [view EXCEPT ![c] = phase[request[c]]]
    /\ CallerMoves
    /\ UNCHANGED <<posts, pc, tries, answer, request, expired, result>>

SeesEnd(c) == view[c] \in Over /\ Ends(c, {"polling"}, view[c])

SeesNoEnd(c) ==
    /\ view[c] \notin Over \cup {"none"}
    /\ Goes(c, {"polling"}, "sleeping")
    /\ view' = [view EXCEPT ![c] = "none"]
    /\ CallerMoves
    /\ UNCHANGED <<posts, tries, answer, request, expired, result>>

Wakes(c) ==
    /\ Goes(c, {"sleeping"}, "head")
    /\ CallerMoves
    /\ UNCHANGED <<posts, tries, answer, request, expired, view, result>>

\* One failed poll ends the wait.
PollFails(c) == Ends(c, {"polling"}, "error")

\* The caller may wait for the same request again, or submit again.
CallsAgain(c, to) ==
    /\ result[c] \in {"timeout", "error"}
    /\ to = "idle" => tries[c] < MaxTries
    /\ Goes(c, {"done"}, to)
    /\ expired' = [expired EXCEPT ![c] = FALSE]
    /\ result' = [result EXCEPT ![c] = "none"]
    /\ CallerMoves
    /\ UNCHANGED <<posts, tries, answer, request, view>>

-----------------------------------------------------------------------------
ServerStep ==
    \/ \E m \in posts : \/ \E r \in RequestId : InsertNew(m, r) \/ InsertRepeat(m, r)
                        \/ InsertRefused(m) \/ LosePost(m)
    \/ ServerWorks

WaitStep(c) ==
    \/ TimesOut(c) \/ Polls(c) \/ ServerTellsStatus(c) \/ SeesEnd(c) \/ SeesNoEnd(c)
    \/ Wakes(c) \/ PollFails(c)

CallerStep(c) ==
    \/ Send(c) \/ Accepted(c) \/ SendFails(c) \/ WaitStep(c) \/ DeadlinePasses(c)
    \/ \E to \in {"head", "idle"} : CallsAgain(c, to)

ExchangeNext == ServerStep \/ \E c \in Caller : CallerStep(c)

ExchangeSpec == ExchangeInit /\ [][ExchangeNext]_exchangeVars

\* Time passes, and a poll is answered or fails (httpx gives up in the end);
\* nothing is asked of the server, of submissions or of the callers.
ExchangeFairSpec ==
    /\ ExchangeSpec
    /\ \A c \in Caller : WF_exchangeVars(WaitStep(c)) /\ WF_exchangeVars(DeadlinePasses(c))

-----------------------------------------------------------------------------
(* What a caller can rely on                                               *)

\* With a key, however often it was sent, repeated, delayed or lost, there is
\* one row at most, and everyone who was given it had sent the very same body.
OneRowPerKey ==
    /\ \A r, s \in RequestId :
          /\ r # s /\ body[r] # NULL /\ body[s] # NULL
          /\ LooksUp(body[r])
          => body[r].key # body[s].key
    /\ \A c \in Caller : request[c] # NULL => body[request[c]] = wants[c]

\* What wait_for_completion returned stands: the request is never waiting or
\* worked on again.  A finished one may still be asked to be cancelled, and
\* then become cancelled, but nothing makes a cancelled one finished.
ResultStands ==
    \A c \in Caller :
        /\ result[c] = "finished" => phase[request[c]] \in Over \cup {"asked"}
        /\ result[c] = "cancelled" => phase[request[c]] \in {"cancelled", "asked"}

AnswersHold == OneRowPerKey /\ ResultStands

\* A wait ends: with a status, with an error or by its deadline.
WaitEnds == \A c \in Caller : Waiting(c) ~> pc[c] = "done"
=============================================================================
