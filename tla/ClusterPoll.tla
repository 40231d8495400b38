----------------------------- MODULE ClusterPoll -----------------------------
(***************************************************************************)
(* One cluster's poll from its status to its diagnostics                   *)
(* (src/cohesity_storage/__main__.py: _poll, _fail, _section,              *)
(* _report_diagnostics) and the part of the client it leans on: the cached *)
(* cluster status and the facts that are recorded once and drained once    *)
(* (src/cohesity_storage/client.py: cluster_status, _diagnose,             *)
(* note_failure, take_diagnostics).                                        *)
(*                                                                         *)
(* A section asks for its parts in order and reports each as it arrives;   *)
(* the cluster goes down and comes back between any two requests.          *)
(***************************************************************************)
EXTENDS Naturals, Sequences, FiniteSets

CONSTANTS
    Sections,   \* the enabled sections, in the order _poll lists them
    Parts,      \* how many requests each section reports on
    Refusing,   \* sections the cluster may refuse while it is up
    Faults      \* what else may go wrong, a subset of FaultKinds

FaultKinds == {"send", "restart"}

SectionNames == {Sections[i] : i \in 1..Len(Sections)}

\* The label _fail notes a missing cluster status under, and the first fact a client learns.
StatusLabel == "cluster status"
VersionFact == "version"

Facts == SectionNames \cup {StatusLabel, VersionFact}

ASSUME SectionsAssumption ==
    /\ Sections \in Seq(SectionNames)
    /\ \A i, j \in 1..Len(Sections) : Sections[i] = Sections[j] => i = j
    /\ SectionNames \cap {StatusLabel, VersionFact} = {}
    /\ Parts \in [SectionNames -> Nat \ {0}]
    /\ Refusing \subseteq SectionNames
    /\ Faults \subseteq FaultKinds

VARIABLES
    up,         \* does the cluster answer, and state its id?
    phase,      \* "idle", "status", "sections" or "diagnostics"
    todo,       \* sections this poll has still to collect
    part,       \* how many parts of the first of them have been reported
    cached,     \* _cluster_status is not None
    diagnosed,  \* _diagnosed: facts this client has recorded
    pending,    \* _diagnostics: the ones nobody has taken yet
    \* History, read by no guard.
    success,    \* the collection_success this poll emitted, "none" before it did
    answered,   \* did the cluster answer any request of this poll?
    reported,   \* parts of each section reported in this poll
    failed,     \* sections that failed in this poll
    everFailed, \* failure facts of this client's life
    sent,       \* how often each fact of this client has left, saturated at 2
    lost        \* facts of this client whose event could not be sent

pollVars == <<phase, todo, part>>
factVars == <<diagnosed, pending>>
seenVars == <<success, answered, reported, failed>>
lifeVars == <<everFailed, sent, lost>>
vars == <<up, pollVars, cached, factVars, seenVars, lifeVars>>

Init ==
    /\ up \in BOOLEAN
    /\ phase = "idle"
    /\ todo = <<>>
    /\ part = 0
    /\ cached = FALSE
    /\ diagnosed = {}
    /\ pending = {}
    /\ success = "none"
    /\ answered = FALSE
    /\ reported = [s \in SectionNames |-> 0]
    /\ failed = {}
    /\ everFailed = {}
    /\ sent = [f \in Facts |-> 0]
    /\ lost = {}

------------------------------------------------------------------------------
ClusterTurns ==
    /\ up' = ~up
    /\ UNCHANGED <<pollVars, cached, factVars, seenVars, lifeVars>>

\* A mistake: a fact is queued every time it is learned.
LearnAgain(fact) ==
    /\ diagnosed' = diagnosed \cup {fact}
    /\ pending' = pending \cup {fact}

\* _diagnose: a fact is recorded the first time it is learned and never again.
Learn(fact) ==
    /\ diagnosed' = diagnosed \cup {fact}
    /\ pending' = IF fact \in diagnosed THEN pending ELSE pending \cup {fact}

BeginPoll ==
    /\ phase = "idle"
    /\ phase' = "status"
    /\ success' = "none"
    /\ answered' = FALSE
    /\ reported' = [s \in SectionNames |-> 0]
    /\ failed' = {}
    /\ UNCHANGED <<up, todo, part, cached, factVars, lifeVars>>

\* The cluster is known to have answered: emit 1 and line the enabled sections up.
GoOn ==
    /\ success' = "1"
    /\ phase' = "sections"
    /\ todo' = Sections
    /\ part' = 0
    /\ UNCHANGED <<reported, failed>>

\* cluster_status() is asked of the cluster once; after that the cached one is returned.
StatusFromCache ==
    /\ phase = "status"
    /\ cached
    /\ GoOn
    /\ UNCHANGED <<up, cached, factVars, answered, lifeVars>>

StatusAnswers ==
    /\ phase = "status"
    /\ ~cached
    /\ up
    /\ cached' = TRUE
    /\ Learn(VersionFact)
    /\ answered' = TRUE
    /\ GoOn
    /\ UNCHANGED <<up, lifeVars>>

\* A mistake: the early return skips the diagnostics.
StatusFailsSilently ==
    /\ phase = "status"
    /\ ~cached
    /\ ~up
    /\ Learn(StatusLabel)
    /\ everFailed' = everFailed \cup {StatusLabel}
    /\ success' = "0"
    /\ phase' = "idle"
    /\ UNCHANGED <<up, todo, part, cached, answered, reported, failed, sent, lost>>

\* No answer, a refusal or an answer without a cluster id: _fail notes it, emits 0 and goes
\* straight to the diagnostics.
StatusFails ==
    /\ phase = "status"
    /\ ~cached
    /\ ~up
    /\ Learn(StatusLabel)
    /\ everFailed' = everFailed \cup {StatusLabel}
    /\ success' = "0"
    /\ phase' = "diagnostics"
    /\ UNCHANGED <<up, todo, part, cached, answered, reported, failed, sent, lost>>

\* A mistake: the next section starts where this one stopped.
NextSectionMidway ==
    /\ todo' = Tail(todo)
    /\ UNCHANGED part

NextSection ==
    /\ todo' = Tail(todo)
    /\ part' = 0

\* One request of the section answers and its samples are reported.
PartReported ==
    /\ phase = "sections"
    /\ todo # <<>>
    /\ up
    /\ answered' = TRUE
    /\ reported' = [reported EXCEPT ![Head(todo)] = @ + 1]
    /\ IF part + 1 < Parts[Head(todo)]
       THEN part' = part + 1 /\ UNCHANGED todo
       ELSE NextSection
    /\ UNCHANGED <<up, phase, cached, factVars, success, failed, lifeVars>>

\* A mistake: the exception leaves the loop over the sections.
SectionFailsThePoll ==
    /\ phase = "sections"
    /\ todo # <<>>
    /\ up => Head(todo) \in Refusing
    /\ Learn(Head(todo))
    /\ failed' = failed \cup {Head(todo)}
    /\ everFailed' = everFailed \cup {Head(todo)}
    /\ answered' = (answered \/ up)
    /\ todo' = <<>>
    /\ part' = 0
    /\ UNCHANGED <<up, phase, cached, success, reported, sent, lost>>

\* A request of the section fails, with a CohesityError or anything else: the parts behind it
\* are lost, the fact is noted and the next section runs.
SectionFails ==
    /\ phase = "sections"
    /\ todo # <<>>
    /\ up => Head(todo) \in Refusing
    /\ Learn(Head(todo))
    /\ failed' = failed \cup {Head(todo)}
    /\ everFailed' = everFailed \cup {Head(todo)}
    /\ answered' = (answered \/ up)
    /\ NextSection
    /\ UNCHANGED <<up, phase, cached, success, reported, sent, lost>>

SectionsDone ==
    /\ phase = "sections"
    /\ todo = <<>>
    /\ phase' = "diagnostics"
    /\ UNCHANGED <<up, todo, part, cached, factVars, seenVars, lifeVars>>

\* take_diagnostics() drains the client before the events are built and sent; an exception out
\* of either is logged and the poll ends as if they had left.
ReportDiagnostics(leaves) ==
    /\ phase = "diagnostics"
    /\ leaves \/ "send" \in Faults
    /\ pending' = {}
    /\ sent' = [f \in Facts |-> IF leaves /\ f \in pending /\ sent[f] < 2
                                THEN sent[f] + 1 ELSE sent[f]]
    /\ lost' = IF leaves THEN lost ELSE lost \cup pending
    /\ phase' = "idle"
    /\ UNCHANGED <<up, todo, part, cached, diagnosed, seenVars, everFailed>>

\* A new process, or a cluster that was forgotten and came back: a new client.
Restart ==
    /\ "restart" \in Faults
    /\ phase' = "idle"
    /\ todo' = <<>>
    /\ part' = 0
    /\ cached' = FALSE
    /\ diagnosed' = {}
    /\ pending' = {}
    /\ everFailed' = {}
    /\ sent' = [f \in Facts |-> 0]
    /\ lost' = {}
    /\ UNCHANGED <<up, seenVars>>

Poll ==
    \/ BeginPoll
    \/ StatusFromCache
    \/ StatusAnswers
    \/ StatusFails
    \/ PartReported
    \/ SectionFails
    \/ SectionsDone
    \/ \E leaves \in BOOLEAN : ReportDiagnostics(leaves)

Next ==
    \/ ClusterTurns
    \/ Poll
    \/ Restart

Spec == Init /\ [][Next]_vars

\* query() is called every minute and every request has a timeout.
FairSpec == Spec /\ WF_vars(Poll)

------------------------------------------------------------------------------
\* Types.
TypeOK ==
    /\ up \in BOOLEAN
    /\ phase \in {"idle", "status", "sections", "diagnostics"}
    /\ todo \in Seq(SectionNames)
    /\ part \in Nat /\ (todo # <<>> => part < Parts[Head(todo)])
    /\ cached \in BOOLEAN
    /\ diagnosed \subseteq Facts
    /\ pending \subseteq Facts
    /\ success \in {"none", "0", "1"}
    /\ answered \in BOOLEAN
    /\ reported \in [SectionNames -> Nat]
    /\ failed \subseteq SectionNames
    /\ everFailed \subseteq Facts
    /\ sent \in [Facts -> 0..2]
    /\ lost \subseteq Facts

\* Sections are independent: when a poll whose cluster was known gets to its diagnostics, every
\* enabled section was collected to its last part or failed on its own account.
EverySectionHeard ==
    phase = "diagnostics" /\ success = "1" =>
        \A s \in SectionNames : reported[s] = Parts[s] \/ s \in failed

\* A fact leaves at most once in a client's life, however often it is learned again, and not after
\* an attempt to send it has failed.
FactsLeaveOnce == \A f \in Facts : sent[f] + (IF f \in lost THEN 1 ELSE 0) <= 1

\* Between polls every failure this client ever had has been handed to the SDK: also the one of
\* the poll that ended early because the cluster did not answer at all.
FailuresLeave == phase = "idle" => \A f \in everFailed : sent[f] > 0 \/ f \in lost

\* An outage silences nothing for good: once the cluster stays up and the client lives, every
\* section it does not refuse is reported in full, again and again.  A status that was missed is
\* asked for again, and no failure of one section keeps the next poll from trying it.
Recovers ==
    \A s \in SectionNames \ Refusing :
        <>[]up /\ <>[][~Restart]_vars => []<>(reported[s] = Parts[s])

------------------------------------------------------------------------------
\* What the documentation says and the code does not do.

\* e2e/README.md, of collection_success: "the extension reached the cluster over verified TLS
\* with the key, this interval".
SuccessMeansAnswered ==
    phase = "diagnostics" /\ success = "1" => answered

==============================================================================
