---------------------------- MODULE LoginDialog -----------------------------
(***************************************************************************)
(* web/app.js: the dialog that adds an account.  startLogin opens a login  *)
(* session at the server, pollLogin asks for it by a chain of requests and *)
(* timers until it is authorized or lost.  The user may close the dialog   *)
(* and open it again while requests of an earlier opening are under way;   *)
(* every one of them remembers the generation it was started in.           *)
(* The server is kept to what handleLoginStart and handleLoginPoll answer. *)
(***************************************************************************)
EXTENDS Naturals, FiniteSets

CONSTANT MaxStarts  \* bound: how often the dialog is started

ASSUME StartsAssumption == MaxStarts \in Nat

Starts == 1 .. MaxStarts  \* a start, its chain of polls and its session
NoLogin == 0              \* app.loginId is empty

Answers == {"pending", "retry", "fatal", "complete"}

VARIABLES generation, \* app.loginPollGeneration
          open,       \* loginDialog.open
          stage,      \* what setLoginStage shows
          status,     \* loginPollStatus
          loginId,    \* app.loginId
          starts,     \* how often startLogin was called
          gen,        \* the generation that each start remembers
          start,      \* the request of each start
          chain,      \* what each chain of polls waits for
          remote      \* the session of each start at the server

dialog     == <<generation, open, stage, status, loginId>>
dialogVars == <<dialog, starts, gen, start, chain, remote>>

DialogTypeOK ==
  /\ generation \in 0 .. 3 * MaxStarts
  /\ open \in BOOLEAN
  /\ stage \in {"starting", "ready", "error"}
  /\ status \in {"waiting", "failing", "success"}
  /\ loginId \in Starts \cup {NoLogin}
  /\ starts \in 0 .. MaxStarts
  /\ gen \in [Starts -> 0 .. 3 * MaxStarts]
  /\ start \in [Starts -> {"none", "sent", "opened", "refused", "done"}]
  /\ chain \in [Starts -> {"none", "timer", "sent", "loading"} \cup Answers]
  /\ remote \in [Starts -> {"none", "waiting", "authorized", "added", "gone"}]

DialogInit ==
  /\ generation = 0 /\ open = FALSE
  /\ stage = "starting" /\ status = "waiting" /\ loginId = NoLogin
  /\ starts = 0
  /\ gen = [c \in Starts |-> 0]
  /\ start = [c \in Starts |-> "none"]
  /\ chain = [c \in Starts |-> "none"]
  /\ remote = [c \in Starts |-> "none"]

Current(c) == gen[c] = generation

-----------------------------------------------------------------------------
(* Mutated StopLoginPolling: only the timer is stopped.                    *)
StopTimerOnly(times) ==
  /\ generation' = generation
  /\ chain' = [c \in Starts |-> IF chain[c] = "timer" THEN "none" ELSE chain[c]]

(* stopLoginPolling, called so many times in a row.                        *)
StopLoginPolling(times) ==
  /\ generation' = generation + times
  /\ chain' = [c \in Starts |-> IF chain[c] = "timer" THEN "none" ELSE chain[c]]

(* startLogin: the dialog is closed, or shows an error with a retry.       *)
StartLogin ==
  /\ starts < MaxStarts
  /\ open => stage = "error"
  /\ StopLoginPolling(1)
  /\ starts' = starts + 1
  /\ gen' = [gen EXCEPT ![starts + 1] = generation']
  /\ start' = [start EXCEPT ![starts + 1] = "sent"]
  /\ open' = TRUE /\ stage' = "starting" /\ loginId' = NoLogin
  /\ UNCHANGED <<status, remote>>

(* The user closes the dialog: the event of the button or of the Escape    *)
(* key and the close event both stop the polling.                          *)
CloseDialog ==
  /\ open
  /\ open' = FALSE
  /\ StopLoginPolling(2)
  /\ UNCHANGED <<stage, status, loginId, starts, gen, start, remote>>

(* handleLoginStart opens a session; its answer may get lost.              *)
ServeStart(c) ==
  /\ start[c] = "sent"
  /\ \E answer \in {"opened", "refused"} : start' = [start EXCEPT ![c] = answer]
  /\ remote' = [remote EXCEPT ![c] = "waiting"]
  /\ UNCHANGED <<dialog, starts, gen, chain>>

(* The limit is reached, the service fails, or nothing answers.            *)
RefuseStart(c) ==
  /\ start[c] = "sent"
  /\ start' = [start EXCEPT ![c] = "refused"]
  /\ UNCHANGED <<dialog, starts, gen, chain, remote>>

(* The answer of an earlier opening is not looked at.                      *)
DropStart(c) ==
  /\ start[c] \in {"opened", "refused"}
  /\ ~(Current(c) /\ open)
  /\ start' = [start EXCEPT ![c] = "done"]
  /\ UNCHANGED <<dialog, starts, gen, chain, remote>>

(* The session is there: show its link and poll at once.                   *)
StartAnswered(c) ==
  /\ start[c] = "opened" /\ Current(c) /\ open
  /\ start' = [start EXCEPT ![c] = "done"]
  /\ loginId' = c
  /\ stage' = "ready" /\ status' = "waiting"
  /\ chain' = [chain EXCEPT ![c] = "sent"]
  /\ UNCHANGED <<generation, open, starts, gen, remote>>

StartFailed(c) ==
  /\ start[c] = "refused" /\ Current(c) /\ open
  /\ start' = [start EXCEPT ![c] = "done"]
  /\ stage' = "error"
  /\ UNCHANGED <<generation, open, status, loginId, starts, gen, chain, remote>>

-----------------------------------------------------------------------------
Hear(c, answer) == chain' = [chain EXCEPT ![c] = answer]

(* handleLoginPoll while the user has not authorized, or when a request to *)
(* the service or the commit of the account fails.                         *)
ServePoll(c) ==
  /\ chain[c] = "sent"
  /\ remote[c] \in {"waiting", "authorized"}
  /\ \E answer \in {"pending", "retry", "fatal"} : Hear(c, answer)
  /\ UNCHANGED <<dialog, starts, gen, start, remote>>

(* PollLogin adds the account and gives the session up; when the answer is *)
(* lost the page will ask again.                                           *)
ServeComplete(c) ==
  /\ chain[c] = "sent" /\ remote[c] = "authorized"
  /\ remote' = [remote EXCEPT ![c] = "added"]
  /\ \E answer \in {"complete", "retry"} : Hear(c, answer)
  /\ UNCHANGED <<dialog, starts, gen, start>>

(* ErrLoginSessionExpired is 410, a page of an earlier process gets 403.   *)
ServeGone(c) ==
  /\ chain[c] = "sent" /\ remote[c] \in {"added", "gone"}
  /\ Hear(c, "fatal")
  /\ UNCHANGED <<dialog, starts, gen, start, remote>>

(* fetch is rejected: there is no status.                                  *)
LosePoll(c) ==
  /\ chain[c] = "sent"
  /\ Hear(c, "retry")
  /\ UNCHANGED <<dialog, starts, gen, start, remote>>

(* The answer to a poll of an earlier opening is not looked at.            *)
DropPoll(c) ==
  /\ chain[c] \in Answers /\ ~Current(c)
  /\ Hear(c, "none")
  /\ UNCHANGED <<dialog, starts, gen, start, remote>>

Waits(c) ==
  /\ chain[c] \in {"pending", "retry"} /\ Current(c)
  /\ status' = IF chain[c] = "pending" THEN "waiting" ELSE "failing"
  /\ Hear(c, "timer")
  /\ UNCHANGED <<generation, open, stage, loginId, starts, gen, start, remote>>

(* 400, 401, 403, 404, 409 and 410 end the chain.                          *)
GivesUp(c) ==
  /\ chain[c] = "fatal" /\ Current(c)
  /\ stage' = "error"
  /\ Hear(c, "none")
  /\ UNCHANGED <<generation, open, status, loginId, starts, gen, start, remote>>

(* Mutated Looks: the answer is shown whatever was started since.          *)
LooksAlways(c) == TRUE

Looks(c) == Current(c)

(* The account is there: the page loads the state again.                   *)
Succeeds(c) ==
  /\ chain[c] = "complete" /\ Looks(c)
  /\ status' = "success"
  /\ Hear(c, "loading")
  /\ UNCHANGED <<generation, open, stage, loginId, starts, gen, start, remote>>

(* 0.7 seconds after the state was loaded the dialog closes itself.        *)
Synced(c) ==
  /\ chain[c] = "loading" /\ Looks(c) /\ open
  /\ open' = FALSE
  /\ generation' = generation + 1
  /\ chain' = [k \in Starts |-> IF k = c \/ chain[k] = "timer" THEN "none" ELSE chain[k]]
  /\ UNCHANGED <<stage, status, loginId, starts, gen, start, remote>>

SyncedLate(c) ==
  /\ chain[c] = "loading" /\ ~(Looks(c) /\ open)
  /\ Hear(c, "none")
  /\ UNCHANGED <<dialog, starts, gen, start, remote>>

(* Mutated Poll: a poll that has to be repeated is not.                    *)
PollUnlessFailing(c) ==
  /\ chain[c] = "timer" /\ status # "failing"
  /\ loginId # NoLogin /\ Current(c) /\ open
  /\ Hear(c, "sent")
  /\ UNCHANGED <<dialog, starts, gen, start, remote>>

(* The timer of a chain runs out.                                          *)
Poll(c) ==
  /\ chain[c] = "timer"
  /\ loginId # NoLogin /\ Current(c) /\ open
  /\ Hear(c, "sent")
  /\ UNCHANGED <<dialog, starts, gen, start, remote>>

(* The user authorizes the session; it expires or the server is restarted. *)
AuthorizeLogin(c) ==
  /\ remote[c] = "waiting"
  /\ remote' = [remote EXCEPT ![c] = "authorized"]
  /\ UNCHANGED <<dialog, starts, gen, start, chain>>

LoseLogin(c) ==
  /\ remote[c] \in {"waiting", "authorized"}
  /\ remote' = [remote EXCEPT ![c] = "gone"]
  /\ UNCHANGED <<dialog, starts, gen, start, chain>>

Served(c) == ServePoll(c) \/ ServeComplete(c) \/ ServeGone(c)

(* What the page does by itself once an answer or a timer is there.        *)
Reacts(c) ==
  \/ DropStart(c) \/ StartAnswered(c) \/ StartFailed(c)
  \/ DropPoll(c) \/ Waits(c) \/ GivesUp(c) \/ Succeeds(c)
  \/ Synced(c) \/ SyncedLate(c) \/ Poll(c)

DialogNext ==
  \/ StartLogin \/ CloseDialog
  \/ \E c \in Starts :
       \/ ServeStart(c) \/ RefuseStart(c) \/ Served(c) \/ LosePoll(c)
       \/ Reacts(c) \/ AuthorizeLogin(c) \/ LoseLogin(c)

DialogSpec == DialogInit /\ [][DialogNext]_dialogVars

(* Callbacks and timers of the page run, a request is answered in the end  *)
(* if it is sent again and again, and a session does not live for ever     *)
(* (loginSessionTTL).                                                      *)
DialogFairness ==
  \A c \in Starts :
    /\ WF_dialogVars(Reacts(c))
    /\ WF_dialogVars(ServeStart(c) \/ RefuseStart(c))
    /\ SF_dialogVars(Served(c))
    /\ WF_dialogVars(LoseLogin(c))

-----------------------------------------------------------------------------
(* However often the dialog is closed and opened, at most one chain polls  *)
(* on behalf of the dialog that is open: no answer to an earlier opening   *)
(* starts a second one (pollLogin, stopLoginPolling).                      *)
Waiting(c) == chain[c] # "none" \/ start[c] \in {"sent", "opened", "refused"}
OneChain   == Cardinality({c \in Starts : Waiting(c) /\ Current(c)}) <= 1

(* The dialog shows a success, and closes itself, only for the session it  *)
(* opened, and only when that session's account was added.                 *)
OwnResult ==
  /\ open /\ stage = "ready" /\ status = "success" =>
       loginId # NoLogin /\ remote[loginId] = "added" /\ Current(loginId)
  /\ \A c \in Starts : chain[c] = "loading" /\ Looks(c) /\ open => c = loginId

(* A dialog that is opened is closed again or shows an error: the polling  *)
(* neither stops without a word nor goes on for ever.                      *)
DialogSettles == open /\ stage # "error" ~> ~open \/ stage = "error"
=============================================================================
