------------------------------ MODULE AlertFeed ------------------------------
(***************************************************************************)
(* The cluster's own alerts as logs: CohesityClient.alerts, new_alerts and *)
(* ExtensionImpl._report_alerts, polling a cluster whose two alert         *)
(* endpoints come and go and which lists, in every answer, whatever alerts *)
(* are in the lookback window at that moment.                              *)
(*                                                                         *)
(* It extends RunLedger: new_alerts claims dedup keys in a second instance *)
(* of that class, so an Id here is one occurrence of an alert (its id with *)
(* its latest timestamp), and one claim is the action Offer.               *)
(*                                                                         *)
(* `handed`, `repeated` and `listed` are history, read by no guard.        *)
(***************************************************************************)
EXTENDS RunLedger

CONSTANTS
    SeverityOf,     \* the severity of each occurrence, "unknown" when it did not map
    Floor,          \* alertSeverityFloor as configured
    MaxAlerts,      \* maxAlerts, 1 to 1000
    Filters         \* the sources whose endpoint honours alertSeverityList

ASSUME MaxAlertsAssumption == MaxAlerts \in Nat \ {0}
\* The limits of the configuration: the ledger holds two answers with one entry to spare.
ASSUME AnswersFitAssumption == 2 * MaxAlerts - 2 < Capacity

VARIABLES
    alertSource,    \* _alert_source, "" until one has answered
    toAsk,          \* the sources this poll has not asked yet, in order
    answer,         \* what the last answered poll goes through the ledger with, in order
    position,       \* how many of them have been claimed
    fresh,          \* the claimed ones, to be sent by this poll
    phase,          \* "idle", "ask", "claim" or "send"
    handed,         \* history: occurrences report_log_events was called with
    repeated,       \* history: those of the answer that the answer before it held too
    listed          \* history: what the cluster listed when this poll was answered

memory == <<seen, counted, recounted, since>>
history == <<handed, repeated, listed>>
alertVars == <<memory, alertSource, toAsk, answer, position, fresh, phase, history>>

AlertSources == <<"v2", "v1">>

Sources == {"v1", "v2"}

SeverityOrder == <<"info", "warning", "critical">>

MappedSeverities == Held(SeverityOrder)

\* alert_floor: an unreadable floor opens the gate.
AlertFloor(configured) ==
    IF configured \in MappedSeverities THEN configured ELSE "info"

\* alert_severities_at_or_above: the severities the floor admits.
AtOrAbove(floor) ==
    LET rank == CHOOSE i \in DOMAIN SeverityOrder : SeverityOrder[i] = AlertFloor(floor)
    IN  {SeverityOrder[i] : i \in rank..Len(SeverityOrder)}

\* alert_meets_floor: what did not map is always kept.
MeetsFloor(occurrence) ==
    SeverityOf[occurrence] = "unknown" \/ SeverityOf[occurrence] \in AtOrAbove(Floor)

\* A mistake: the floor is applied to the answer only.
AsksForSeveritiesNever == FALSE

\* alertSeverityList is sent unless the floor admits every severity.
AsksForSeverities == AtOrAbove(Floor) # MappedSeverities

\* What an endpoint has to choose from: an honoured filter keeps the wanted severities only.
Eligible(source, open) ==
    IF AsksForSeverities /\ source \in Filters
    THEN {o \in open : SeverityOf[o] \in AtOrAbove(Floor)}
    ELSE open

\* What it may return of that: no more than maxAlerts.
Returned(eligible) ==
    {page \in SUBSET eligible :
        \/ Cardinality(page) = MaxAlerts
        \/ page = eligible /\ Cardinality(page) <= MaxAlerts}

\* alerts_at_or_above: what the local floor leaves of a page, in whichever order it came.
Kept(page) == {o \in page : MeetsFloor(o)}

Orderings(set) == {list \in [1..Cardinality(set) -> set] : Distinct(list)}

\* A mistake: a source that has answered once is the only one asked.
SourcesOnlyWinner == IF alertSource = "" THEN AlertSources ELSE <<alertSource>>

\* _alert_sources: the remembered winner first, then the others in their order.
SourcesFromWinner ==
    IF alertSource = "v1" THEN <<"v1", "v2">> ELSE AlertSources

SourcesOK ==
    /\ alertSource \in {""} \cup Sources
    /\ toAsk \in Seq(Sources)

AnswerOK ==
    /\ answer \in Seq(Ids) /\ Distinct(answer) /\ Len(answer) <= MaxAlerts
    /\ position \in 0..Len(answer)

\* Types, and that fresh and handed occurrences are counted ones.
AlertTypeOK ==
    /\ TypeOK
    /\ SourcesOK
    /\ AnswerOK
    /\ fresh \subseteq counted
    /\ phase \in {"idle", "ask", "claim", "send"}
    /\ handed \subseteq counted
    /\ repeated \subseteq listed /\ listed \subseteq Ids

AlertInit ==
    /\ Init
    /\ alertSource = ""
    /\ toAsk = <<>> /\ answer = <<>> /\ position = 0 /\ fresh = {}
    /\ phase = "idle"
    /\ handed = {} /\ repeated = {} /\ listed = {}

------------------------------------------------------------------------------
BeginPoll ==
    /\ phase = "idle"
    /\ phase' = "ask"
    /\ toAsk' = SourcesFromWinner
    /\ position' = 0
    /\ repeated' = {} /\ listed' = {}
    /\ UNCHANGED <<memory, alertSource, answer, fresh, handed>>

\* The source answers; alerts() ends here with what the floor keeps.
SourceAnswers ==
    /\ phase = "ask" /\ toAsk # <<>>
    /\ \E open \in SUBSET Ids :
          /\ listed' = open
          /\ \E page \in Returned(Eligible(Head(toAsk), open)) :
                /\ answer' \in Orderings(Kept(page))
                /\ repeated' = Held(answer) \cap Kept(page)
    /\ alertSource' = Head(toAsk)
    /\ toAsk' = <<>>
    /\ phase' = "claim"
    /\ UNCHANGED <<memory, position, fresh, handed>>

\* It refuses: the other one is asked, and after the last one the error is raised, which ends
\* the section.
SourceRefuses ==
    /\ phase = "ask" /\ toAsk # <<>>
    /\ toAsk' = Tail(toAsk)
    /\ phase' = IF Tail(toAsk) = <<>> THEN "idle" ELSE "ask"
    /\ UNCHANGED <<memory, alertSource, answer, position, fresh, history>>

\* A mistake: the floor is applied once more after the claim, and takes what did not map.
ClaimNextThenFilter ==
    /\ phase = "claim" /\ position < Len(answer)
    /\ LET next == answer[position + 1]
       IN  /\ Offer(next)
           /\ fresh' = IF IsFresh(seen, next) /\ SeverityOf[next] \in AtOrAbove(Floor)
                     THEN fresh \cup {next} ELSE fresh
    /\ position' = position + 1
    /\ UNCHANGED <<alertSource, toAsk, answer, phase, history>>

\* new_alerts: the next occurrence of the answer is claimed.
ClaimNext ==
    /\ phase = "claim" /\ position < Len(answer)
    /\ LET next == answer[position + 1]
       IN  /\ Offer(next)
           /\ fresh' = IF IsFresh(seen, next) THEN fresh \cup {next} ELSE fresh
    /\ position' = position + 1
    /\ UNCHANGED <<alertSource, toAsk, answer, phase, history>>

\* With nothing new the section returns before it sends.
ClaimedAll ==
    /\ phase = "claim" /\ position = Len(answer)
    /\ phase' = IF fresh = {} THEN "idle" ELSE "send"
    /\ UNCHANGED <<memory, alertSource, toAsk, answer, position, fresh, history>>

\* A mistake: everything the cluster lists is sent, not what was claimed.
SendEventsOfListed ==
    /\ phase = "send"
    /\ handed' = handed \cup listed
    /\ fresh' = {}
    /\ phase' = "idle"
    /\ UNCHANGED <<memory, alertSource, toAsk, answer, position, repeated, listed>>

\* The section hands its events to report_log_events, and is over whether or not that raises:
\* the occurrences stay claimed.
SendEvents ==
    /\ phase = "send"
    /\ handed' = handed \cup fresh
    /\ fresh' = {}
    /\ phase' = "idle"
    /\ UNCHANGED <<memory, alertSource, toAsk, answer, position, repeated, listed>>

\* The process is restarted, and with it the client: nothing it knew is kept.
Restart ==
    /\ seen' = <<>> /\ counted' = {} /\ recounted' = {}
    /\ since' = [id \in Ids |-> {}]
    /\ alertSource' = ""
    /\ toAsk' = <<>> /\ answer' = <<>> /\ position' = 0 /\ fresh' = {}
    /\ phase' = "idle"
    /\ handed' = {} /\ repeated' = {} /\ listed' = {}

Poll ==
    \/ BeginPoll
    \/ SourceAnswers
    \/ SourceRefuses
    \/ ClaimNext
    \/ ClaimedAll
    \/ SendEvents

AlertNext ==
    \/ Poll
    \/ Restart

AlertSpec == AlertInit /\ [][AlertNext]_alertVars

\* query() runs again and again, and every poll that is under way goes on.
FairAlertSpec == AlertSpec /\ WF_alertVars(Poll)

------------------------------------------------------------------------------

Wanted == {o \in listed : SeverityOf[o] \in AtOrAbove(Floor)}

\* An alert that stays open is sent once: what was in the answer before is not new in this one.
\* All answers go through one ledger, so this rests on its capacity against twice maxAlerts
\* (2000 against at most 1000) and on a claim counting as use.
NotResentWhileListed ==
    phase = "claim" =>
        \A i \in (position + 1)..Len(answer) : answer[i] \in repeated => ~IsFresh(seen, answer[i])

\* What the floor is for: on an endpoint that honours the filter, as many alerts below the
\* floor as there may be, an answered poll has handed over every alert at or above it, as long
\* as those alone fit into maxAlerts.
SevereNotCrowdedOut ==
    phase = "idle" /\ alertSource \in Filters /\ AlertFloor(Floor) # "info"
        /\ Cardinality(Wanted) <= MaxAlerts
        => Wanted \subseteq handed

\* Claiming is a promise to send: between polls every claimed occurrence has been handed to
\* report_log_events.  Nothing is claimed and then dropped.
ClaimedIsHanded == phase = "idle" => counted \subseteq handed

\* What makes these inductive: between answers, every occurrence of the last answer has been
\* claimed, and the ones behind it are all that was offered since.
AnswerBehindIt ==
    phase # "claim" =>
        \A i \in 1..Len(answer) :
            answer[i] \in counted /\ since[answer[i]] \subseteq After(answer, i)

\* The same of the part of an answer that has been claimed so far.
ClaimedSoFar ==
    phase = "claim" =>
        \A i \in 1..position :
            /\ answer[i] \in counted
            /\ since[answer[i]] \subseteq {answer[j] : j \in (i + 1)..position}

\* What is to be claimed again has at most the rest of the answer before behind it, and what
\* this answer has offered so far.
RepeatedIsRecent ==
    phase = "claim" =>
        \A i \in (position + 1)..Len(answer) :
            answer[i] \in repeated =>
                /\ answer[i] \in counted
                /\ Cardinality(since[answer[i]]) <= (MaxAlerts - 1) + position

\* The inductive invariant of the feed, beside LedgerInv.
FeedInv ==
    /\ AlertTypeOK
    /\ phase = "ask" => position = 0
    /\ phase \in {"idle", "ask"} => fresh = {}
    /\ counted \subseteq handed \cup fresh
    /\ AnswerBehindIt
    /\ ClaimedSoFar
    /\ RepeatedIsRecent

\* README: an alert whose severity could not be mapped is never filtered out, whatever the
\* floor.  With all that is listed fitting into one answer, an answered poll has handed it over.
UnmappedNeverFiltered ==
    phase = "idle" /\ Cardinality(listed) <= MaxAlerts
        => {o \in listed : SeverityOf[o] = "unknown"} \subseteq handed

\* The remembered source is not trusted for good: while one of the two answers whenever it is
\* asked, the feed is answered again and again, whatever the other one does; unless the process
\* is restarted for ever.
FeedComesBack ==
    \A source \in Sources :
        /\ <>[][~(SourceRefuses /\ Head(toAsk) = source)]_alertVars
        /\ <>[][~Restart]_alertVars
        => []<>(phase = "claim")

==============================================================================
