----------------------------- MODULE AnalysisPage -----------------------------
(***************************************************************************)
(* The page of a message in one browser tab, next to everything Analysis   *)
(* does with the message.  The server renders the banner once; while the   *)
(* message is unfinished the page carries a poller (analysis-poll.js),     *)
(* which asks for the status, reloads the page when it hears COMPLETED or  *)
(* FAILED, and gives up after MaxPolls questions.                          *)
(*                                                                         *)
(* Between the answer and the reload the row, and with it what the reload  *)
(* shows, may change.  The same message may be handled in other tabs;      *)
(* those are the requests of Analysis.                                     *)
(***************************************************************************)
EXTENDS Analysis

CONSTANTS
    Paged,     \* the messages whose page is opened
    MaxPolls,  \* MAX_ATTEMPTS
    NoPage     \* the tab shows something else

ASSUME PageConstantsOK == Paged \subseteq Messages /\ MaxPolls \in Nat \ {0}
ASSUME NoPageIsNoMessage == NoPage \notin Messages

VARIABLES
    viewed,  \* the message in the tab
    shows,   \* which banner it shows
    claim,   \* the failed banner says the analysis used a slot
    poller,  \* off, waiting for its timer, or about to reload the page
    polls    \* its attempts

tab     == <<viewed, shows, claim, poller, polls>>
allVars == <<vars, tab>>

-----------------------------------------------------------------------------
(* show_message and message_status                                         *)

\* analysis_status_banner: which of its branches the row selects.  A message
\* that completed or was archived has no banner.
Banner(m) == IF status[m] \in NonTerminal THEN "waiting"
             ELSE IF status[m] = "failed" THEN "failed"
             ELSE IF Exists(m) THEN "none" ELSE "missing"

MutClaims(m) == ~refunded[m]
\* The sentence about the slot belongs to the failed banner.
Claims(m) == Banner(m) = "failed" /\ ~refunded[m]

\* show_message renders the row as it is; the poller comes with the waiting
\* banner only.
Render(m) ==
    /\ viewed' = m
    /\ shows' = Banner(m)
    /\ claim' = Claims(m)
    /\ poller' = IF Banner(m) = "waiting" THEN "armed" ELSE "off"
    /\ polls' = 0

\* message_status answers with the exact status, or 404; or the network fails.
Answers(m) == {"error"} \cup {status[x] : x \in {y \in {m} : Exists(y)}}

-----------------------------------------------------------------------------
(* The tab                                                                 *)

\* The user follows a link to the page, or refreshes it.
Visit(m) ==
    /\ status[m] # "absent"
    /\ Render(m)

Over(answer) == answer \in {"completed", "failed"}

\* The timer fires and the answer is COMPLETED or FAILED: reload.
Finish ==
    /\ poller = "armed"
    /\ \E answer \in Answers(viewed) : Over(answer)
    /\ poller' = "reload"
    /\ polls' = polls + 1
    /\ UNCHANGED <<viewed, shows, claim>>

MutAskAgain ==
    /\ poller = "armed" /\ polls + 1 < MaxPolls
    /\ \E answer \in Answers(viewed) : ~Over(answer)
    /\ poller' = "off"
    /\ polls' = polls + 1
    /\ UNCHANGED <<viewed, shows, claim>>
\* Any other answer, an error too: the timer is set again ...
AskAgain ==
    /\ poller = "armed" /\ polls + 1 < MaxPolls
    /\ \E answer \in Answers(viewed) : ~Over(answer)
    /\ polls' = polls + 1
    /\ UNCHANGED <<viewed, shows, claim, poller>>

\* ... or the poller gives up: "Still analyzing... refresh the page".
GiveUp ==
    /\ poller = "armed" /\ polls + 1 = MaxPolls
    /\ \E answer \in Answers(viewed) : ~Over(answer)
    /\ shows' = "gaveUp"
    /\ poller' = "off"
    /\ polls' = MaxPolls
    /\ UNCHANGED <<viewed, claim>>

\* The row, and with it what the page shows, may have changed since.
Reload ==
    /\ poller = "reload"
    /\ Render(viewed)

Tab == Finish \/ AskAgain \/ GiveUp \/ Reload

PageInit ==
    /\ Init
    /\ viewed = NoPage /\ shows = "none" /\ claim = FALSE
    /\ poller = "off" /\ polls = 0

PageNext == \/ Next /\ UNCHANGED tab
            \/ (Tab \/ \E m \in Paged : Visit(m)) /\ UNCHANGED vars

PageSpec == PageInit /\ [][PageNext]_allVars

\* Next to the fairness of Analysis: as long as the tab is open its timer
\* fires, and every question and every reload gets an answer.
PageFairness ==
    /\ \A m \in Messages : /\ WF_allVars(Web(m) /\ UNCHANGED tab)
                           /\ WF_allVars(EditCommit(m) /\ UNCHANGED tab)
                           /\ WF_allVars(Age(m) /\ UNCHANGED tab)
    /\ \A w \in Workers : WF_allVars(Work(w) /\ UNCHANGED tab)
    /\ WF_allVars(Sweep /\ UNCHANGED tab)
    /\ WF_allVars(Tab /\ UNCHANGED vars)

FairPageSpec == PageSpec /\ PageFairness

-----------------------------------------------------------------------------
(* Properties                                                              *)

\* The banner and the poller fit together: only a waiting page polls, a page
\* that waits has a poller at work, and a slot is claimed by a failure only.
PageTypeOK ==
    /\ viewed \in Paged \cup {NoPage}
    /\ shows \in {"none", "waiting", "failed", "missing", "gaveUp"}
    /\ claim \in BOOLEAN
    /\ poller \in {"off", "armed", "reload"}
    /\ polls \in 0..MaxPolls
    /\ shows = "waiting" <=> poller # "off"
    /\ claim => shows = "failed"

\* "On COMPLETED or FAILED, a single full navigation renders the finished page
\* (or the FAILED banner)" (analysis-poll.js): the reload never brings the
\* spinner back, so no later attempt, reaper or restore has reopened the
\* analysis between the answer and the reload.
OneNavigation == [][poller = "reload" /\ poller' # "reload" /\ viewed' = viewed
                       => shows' # "waiting"]_allVars

\* A page the user leaves open stops waiting: it shows how the analysis ended,
\* or says that it gave up (ADR 0009, "stops a stuck page from polling
\* forever").
WaitingEnds == shows = "waiting" ~> shows # "waiting"

\* The sentence about the slot "reports what actually happened"
\* (_analysis.html): when nothing is left to touch the message, an open page
\* that says the failure used an analysis is right.
SlotSentenceTrue ==
    viewed # NoPage /\ claim /\ Dormant(viewed) => ~refunded[viewed]

\* "Still analyzing..." is not said of a message that is over.
StillAnalyzingTrue ==
    [][shows' = "gaveUp" /\ shows # "gaveUp" => status[viewed] # "archived"]_allVars
=============================================================================
