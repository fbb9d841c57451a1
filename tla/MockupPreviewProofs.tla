-------------------------- MODULE MockupPreviewProofs --------------------------
(***************************************************************************)
(* Proofs about MockupPreview, for any files and bounds.  The plugin        *)
(* forgets no change: a generated list that is wrong about a file is one    *)
(* that a scan, a queued call or an event of the watcher is still to        *)
(* correct.  And the page shows what the load of its own list said, or has  *)
(* that load under way.                                                     *)
(***************************************************************************)
EXTENDS MockupPreview, FiniteSetTheorems, TLAPS

\* The watcher is to report the file.
EventDue(f) == ready /\ (f \in disk <=> f \notin watched)

\* Every scan that could now end finds of the file what is true of it.
ScanSees(f) == (f \in disk => f \in sure) /\ (f \in maybe => f \in disk)

\* What the plugin has under way for a file that its module is wrong about.
InHand(f) ==
    \/ EventDue(f)
    \/ refreshInFlight /\ (refreshQueued \/ ScanSees(f))

\* Of a running server, every file that has not changed unnoticed is listed exactly
\* if it is on disk, or is in hand.  What was written last is what is on disk.
PluginInv ==
    /\ stage = "down" => ~ ready /\ ~ refreshInFlight /\ ~ refreshQueued /\ currentSource = {}
    /\ refreshQueued => refreshInFlight
    /\ refreshInFlight => sure \subseteq disk /\ disk \subseteq maybe
    /\ ~ refreshInFlight => sure = {} /\ maybe = {}
    /\ currentSource \subseteq {generated}
    /\ stage # "down" /\ currentSource = {} => refreshInFlight
    /\ stage # "down" =>
           \A f \in Files \ doubt :
               InHand(f) \/ (~ refreshInFlight /\ (f \in generated <=> f \in disk))

\* When the watcher has reported all it is to report and no scan is under way, the
\* module is right, but for the files that changed unnoticed.
QuietIsRight ==
    stage # "down" /\ ready /\ watched = disk /\ ~ refreshInFlight =>
        \A f \in Files \ doubt : f \in generated <=> f \in disk

\* What the page shows is of the list it has: that the file is not in it, what the
\* one load that is not cancelled said, or nothing while that load is under way.
PageFollows ==
    /\ \A l \in loads : IsHeard(l) => l.of = effect /\ Path \in modules
    /\ view # Blank => view.by = effect /\ (view.shows = "missing" <=> Path \notin modules)
    /\ view = Blank => effect = 0 \/ \E l \in loads : IsHeard(l)

PreviewInv == TypeOK /\ PluginInv /\ PageFollows

-----------------------------------------------------------------------------
\* The server is down and the page has no list.
LEMMA InitInv == Init => PreviewInv
<1> SUFFICES ASSUME Init PROVE PreviewInv
    OBVIOUS
<1>1. TypeOK
    <2>1. view \in [shows : {"nothing", "missing", "component", "failure"}, by : Nat]
        BY DEF Init, Blank
    <2>2. changes \in 0..MaxChanges /\ starts \in 0..MaxStarts
        BY BoundsAssumption DEF Init
    <2>3. disk \subseteq Files /\ generated \subseteq Files
        BY DEF Init
    <2> QED BY <2>1, <2>2, <2>3 DEF Init, TypeOK
<1>2. PluginInv
    BY DEF Init, PluginInv
<1>3. PageFollows
    BY DEF Init, PageFollows
<1> QED BY <1>1, <1>2, <1>3 DEF PreviewInv

\* The steps that leave the page alone, and those of the page.
PluginStep ==
    \/ \E f \in Files : ChangeFile(f) \/ onFileAddedOrRemoved(f)
    \/ FinishScan \/ Start \/ MakeWatcher \/ buildStart \/ WatcherReady \/ Rescan \/ Crash

PageStep == UpdatePage \/ EndLoad

\* Next is made of the two kinds of steps.
LEMMA Steps == Next <=> PluginStep \/ PageStep
BY Zenon DEF Next, Progress, PluginStep, PageStep

\* A call of refresh() either finds a scan, and queues one, or begins one.
LEMMA Refreshed ==
    ASSUME TypeOK, PluginInv, refresh
    PROVE  /\ currentSource' = currentSource /\ refreshInFlight' = TRUE
           /\ refreshQueued' \in BOOLEAN /\ sure' \subseteq Files /\ maybe' \subseteq Files
           /\ doubt' \subseteq doubt
           /\ sure' \subseteq disk /\ disk \subseteq maybe'
           /\ refreshQueued' \/ (sure' = disk /\ maybe' = disk)
BY DEF refresh, BeginScan, TypeOK, PluginInv

\* Types, of what the plugin keeps.
LEMMA PluginTypes == ASSUME TypeOK, PluginInv, PluginStep PROVE TypeOK'
<1> USE DEF TypeOK
<1>1. ASSUME NEW f \in Files, ChangeFile(f) PROVE TypeOK'
    BY <1>1, BoundsAssumption DEF ChangeFile, page
<1>2. ASSUME NEW f \in Files, onFileAddedOrRemoved(f) PROVE TypeOK'
    <2>1. refresh
        BY <1>2 DEF onFileAddedOrRemoved
    <2> QED BY <1>2, <2>1, Refreshed DEF onFileAddedOrRemoved, page
<1>3. CASE FinishScan
    <2>1. PICK found \in SUBSET maybe :
              currentSource' = {found}
              /\ generated' = IF {found} # currentSource THEN found ELSE generated
        BY <1>3 DEF FinishScan
    <2>2. found \in SUBSET Files
        OBVIOUS
    <2>3. currentSource' \in {{}} \cup {{g} : g \in SUBSET Files} /\ generated' \subseteq Files
        BY <2>1, <2>2
    <2> QED BY <1>3, <2>3 DEF FinishScan, BeginScan, page
<1>4. CASE Start
    <2>1. refresh
        BY <1>4 DEF Start
    <2>2. starts' \in 0..MaxStarts
        BY <1>4, BoundsAssumption DEF Start
    <2> QED BY <1>4, <2>1, <2>2, Refreshed DEF Start, page
<1>5. CASE MakeWatcher
    BY <1>5 DEF MakeWatcher, server, page
<1>6. CASE buildStart
    <2>1. refresh
        BY <1>6 DEF buildStart
    <2> QED BY <1>6, <2>1, Refreshed DEF buildStart, page
<1>7. CASE WatcherReady
    BY <1>7 DEF WatcherReady, server, page
<1>8. CASE Rescan
    <2>1. refresh
        BY <1>8 DEF Rescan
    <2> QED BY <1>8, <2>1, Refreshed DEF Rescan, page
<1>9. CASE Crash
    BY <1>9 DEF Crash, page
<1> QED BY <1>1, <1>2, <1>3, <1>4, <1>5, <1>6, <1>7, <1>8, <1>9 DEF PluginStep

\* Whatever comes between two scans, or during one, is in hand until it is listed.
LEMMA PluginKept == ASSUME TypeOK, PluginInv, PluginStep PROVE PluginInv'
<1> USE DEF TypeOK, InHand, EventDue, ScanSees
<1>1. ASSUME NEW f \in Files, ChangeFile(f) PROVE PluginInv'
    BY <1>1 DEF ChangeFile, PluginInv
<1>2. ASSUME NEW f \in Files, onFileAddedOrRemoved(f) PROVE PluginInv'
    <2>1. refresh
        BY <1>2 DEF onFileAddedOrRemoved
    <2>2. stage # "down"
        BY <1>2 DEF onFileAddedOrRemoved, PluginInv
    <2> QED BY <1>2, <2>1, <2>2, Refreshed DEF onFileAddedOrRemoved, PluginInv
<1>3. CASE FinishScan
    <2>1. PICK found \in SUBSET maybe :
              /\ sure \subseteq found
              /\ currentSource' = {found}
              /\ generated' = IF {found} # currentSource THEN found ELSE generated
        BY <1>3 DEF FinishScan
    <2>2. generated' = found
        BY <2>1 DEF PluginInv
    <2>3. CASE refreshQueued
        BY <1>3, <2>1, <2>2, <2>3 DEF FinishScan, BeginScan, PluginInv
    <2>4. CASE ~ refreshQueued
        BY <1>3, <2>1, <2>2, <2>4 DEF FinishScan, PluginInv
    <2> QED BY <2>3, <2>4
<1>4. CASE Start
    <2>1. refresh
        BY <1>4 DEF Start
    <2> QED BY <1>4, <2>1, Refreshed DEF Start, PluginInv
<1>5. CASE MakeWatcher
    BY <1>5 DEF MakeWatcher, server, PluginInv
<1>6. CASE buildStart
    <2>1. refresh
        BY <1>6 DEF buildStart
    <2> QED BY <1>6, <2>1, Refreshed DEF buildStart, PluginInv
<1>7. CASE WatcherReady
    BY <1>7 DEF WatcherReady, server, PluginInv
<1>8. CASE Rescan
    <2>1. refresh
        BY <1>8 DEF Rescan
    <2> QED BY <1>8, <2>1, Refreshed DEF Rescan, PluginInv
<1>9. CASE Crash
    BY <1>9 DEF Crash, PluginInv
<1> QED BY <1>1, <1>2, <1>3, <1>4, <1>5, <1>6, <1>7, <1>8, <1>9 DEF PluginStep

\* The plugin's steps do not move the page, nor those of the page the plugin.
LEMMA PageAlone == PluginStep => UNCHANGED page
BY DEF PluginStep, ChangeFile, onFileAddedOrRemoved, FinishScan, Start, MakeWatcher, buildStart,
       WatcherReady, Rescan, Crash

\* The page asks for nothing on disk or of the plugin.
LEMMA PluginAlone ==
    PageStep => UNCHANGED <<disk, generated, server, stage, watched, ready, changes, starts>>
BY DEF PageStep, UpdatePage, EndLoad

\* The clean-up cancels every load before the next begins.
LEMMA PageKept ==
    ASSUME TypeOK, PageFollows, PageStep
    PROVE  /\ modules' \subseteq Files /\ loads' \subseteq [of : Nat, cancelled : BOOLEAN]
           /\ effect' \in Nat
           /\ view' \in [shows : {"nothing", "missing", "component", "failure"}, by : Nat]
           /\ PageFollows'
<1> USE DEF TypeOK, IsHeard, Blank
<1>1. CASE UpdatePage
    <2> DEFINE cleanedUp == {[l EXCEPT !.cancelled = TRUE] : l \in loads}
               mine == [of |-> effect', cancelled |-> FALSE]
    <2>1. cleanedUp \subseteq [of : Nat, cancelled : BOOLEAN] /\ \A l \in cleanedUp : l.cancelled
        OBVIOUS
    <2>2. modules' = generated /\ effect' = effect + 1
        BY <1>1 DEF UpdatePage
    <2>3. CASE Path \in generated
        <3>1. loads' = cleanedUp \cup {mine} /\ view' = Blank
            BY <1>1, <2>3 DEF UpdatePage
        <3>2. mine \in [of : Nat, cancelled : BOOLEAN] /\ mine.of = effect' /\ ~ mine.cancelled
            BY <2>2
        <3> HIDE DEF cleanedUp, mine
        <3>3. \A l \in loads' : ~ l.cancelled => l = mine
            BY <2>1, <3>1
        <3>4. PageFollows'
            BY <2>2, <2>3, <3>1, <3>2, <3>3 DEF PageFollows
        <3>5. view' \in [shows : {"nothing", "missing", "component", "failure"}, by : Nat]
            BY <3>1
        <3> QED BY <2>1, <2>2, <3>1, <3>2, <3>4, <3>5
    <2>4. CASE Path \notin generated
        <3>1. loads' = cleanedUp /\ view' = [shows |-> "missing", by |-> effect']
            BY <1>1, <2>4 DEF UpdatePage
        <3> HIDE DEF cleanedUp
        <3> QED BY <2>1, <2>2, <2>4, <3>1 DEF PageFollows
    <2> QED BY <2>3, <2>4
<1>2. CASE EndLoad
    <2>1. PICK l \in loads :
              /\ loads' = loads \ {l}
              /\ view' \in IF IsHeard(l)
                           THEN {[shows |-> s, by |-> l.of] : s \in {"component", "failure"}}
                           ELSE {view}
        BY <1>2 DEF EndLoad
    <2>2. modules' = modules /\ effect' = effect
        BY <1>2 DEF EndLoad
    <2>3. CASE IsHeard(l)
        <3>1. PICK s \in {"component", "failure"} : view' = [shows |-> s, by |-> l.of]
            BY <2>1, <2>3
        <3>2. l.of = effect /\ Path \in modules
            BY <2>3 DEF PageFollows
        <3> QED BY <2>1, <2>2, <3>1, <3>2 DEF PageFollows
    <2>4. CASE ~ IsHeard(l)
        BY <2>1, <2>2, <2>4 DEF PageFollows
    <2> QED BY <2>3, <2>4
<1> QED BY <1>1, <1>2 DEF PageStep

\* Every step keeps the invariant.
LEMMA InvStep == PreviewInv /\ [Next]_vars => PreviewInv'
<1> SUFFICES ASSUME PreviewInv, [Next]_vars PROVE PreviewInv'
    OBVIOUS
<1> USE DEF PreviewInv
<1>1. CASE UNCHANGED vars
    BY <1>1 DEF vars, server, page, TypeOK, PluginInv, InHand, EventDue, ScanSees, PageFollows, IsHeard
<1>2. CASE PluginStep
    <2>1. PageFollows'
        BY <1>2, PageAlone DEF page, PageFollows, IsHeard
    <2> QED BY <1>2, <2>1, PluginTypes, PluginKept
<1>3. CASE PageStep
    <2>1. UNCHANGED <<disk, generated, server, stage, watched, ready, changes, starts>>
        BY <1>3, PluginAlone
    <2>2. PluginInv'
        BY <2>1 DEF server, PluginInv, InHand, EventDue, ScanSees
    <2>3. TypeOK'
        BY <1>3, <2>1, PageKept DEF server, TypeOK
    <2> QED BY <1>3, <2>2, <2>3, PageKept
<1> QED BY <1>1, <1>2, <1>3, Steps

\* The invariant holds throughout, for any files and bounds.
THEOREM InvariantHolds == Spec => []PreviewInv
<1> QED BY InitInv, InvStep, PTL DEF Spec

\* However calls of refresh() are folded into one that follows, and whatever changes
\* during a scan: when nothing is under way the module lists what is on disk.
THEOREM QuietAlwaysRight == Spec => []QuietIsRight
<1>1. PreviewInv => QuietIsRight
    BY DEF PreviewInv, PluginInv, InHand, EventDue, QuietIsRight, TypeOK
<1> QED BY <1>1, InvariantHolds, PTL

\* The effect's clean-up sets the flag of every load before its own, so that no
\* answer of an earlier load is shown.
THEOREM ViewAlwaysCurrent == Spec => []ViewIsCurrent
<1>1. PreviewInv => ViewIsCurrent
    BY DEF PreviewInv, PageFollows, ViewIsCurrent
<1> QED BY <1>1, InvariantHolds, PTL

-----------------------------------------------------------------------------
\* What the server does by itself.
Work ==
    \/ FinishScan \/ MakeWatcher \/ buildStart \/ WatcherReady
    \/ \E f \in Files : onFileAddedOrRemoved(f)

Due == {f \in Files : EventDue(f)}
One(holds) == IF holds THEN 1 ELSE 0

\* How many steps of its work are left at most: every event and the end of the start
\* may call refresh(), and a call costs one scan.
Budget ==
    2 * Cardinality(Due)
        + (IF stage = "configuring" THEN 3 ELSE IF stage = "listening" THEN 2 ELSE 0)
        + One(~ ready) + One(refreshInFlight) + One(refreshQueued)

\* The work comes to an end, and then the module is right.
WorkEnds == Work => Budget' < Budget

SettledIsRight ==
    stage # "down" /\ Budget = 0 => \A f \in Files \ doubt : f \in generated <=> f \in disk

\* The watcher has finitely many events to report, so that Budget is a number.
LEMMA BudgetOf ==
    /\ IsFiniteSet(Due) /\ Cardinality(Due) \in Nat
    /\ \A holds : One(holds) \in {0, 1}
    /\ Budget \in Nat
<1>1. Due \in SUBSET Files
    BY DEF Due
<1>2. IsFiniteSet(Due) /\ Cardinality(Due) \in Nat
    BY <1>1, FilesAssumption, FS_Subset, FS_CardinalityType
<1>3. \A holds : One(holds) \in {0, 1}
    BY DEF One
<1> QED BY <1>2, <1>3 DEF Budget

\* A call of refresh() is one scan more at most.
LEMMA RefreshCosts ==
    ASSUME TypeOK, PluginInv, refresh
    PROVE  One(refreshInFlight)' + One(refreshQueued)'
               <= One(refreshInFlight) + One(refreshQueued) + 1
BY DEF refresh, BeginScan, TypeOK, PluginInv, One

\* An event, the end of a scan and each step of the start lower Budget.
LEMMA WorkSpends == ASSUME PreviewInv, Work PROVE WorkEnds
<1> SUFFICES Budget' < Budget
    BY DEF WorkEnds
<1> USE DEF PreviewInv
<1>b. Cardinality(Due) \in Nat /\ Cardinality(Due') \in Nat
    BY BudgetOf, FilesAssumption, FS_Subset, FS_CardinalityType DEF Due
<1>1. CASE FinishScan
    <2>1. Due' = Due /\ stage' = stage /\ ready' = ready
        BY <1>1 DEF FinishScan, Due, EventDue
    <2>2. One(refreshInFlight)' + One(refreshQueued)' < One(refreshInFlight) + One(refreshQueued)
        BY <1>1 DEF FinishScan, BeginScan, One
    <2> QED BY <1>b, <2>1, <2>2 DEF Budget, One
<1>2. CASE MakeWatcher
    <2>1. Due' = Due /\ UNCHANGED <<ready, refreshInFlight, refreshQueued>>
        BY <1>2 DEF MakeWatcher, server, Due, EventDue
    <2> QED BY <1>2, <1>b, <2>1 DEF MakeWatcher, Budget, One
<1>3. CASE buildStart
    <2>1. Due' = Due /\ ready' = ready /\ refresh
        BY <1>3 DEF buildStart, Due, EventDue
    <2> QED BY <1>3, <1>b, <2>1, RefreshCosts DEF buildStart, Budget, One
<1>4. CASE WatcherReady
    <2>1. Due' = {} /\ Due = {}
        BY <1>4 DEF WatcherReady, Due, EventDue
    <2>2. UNCHANGED <<stage, refreshInFlight, refreshQueued>> /\ ~ ready /\ ready'
        BY <1>4 DEF WatcherReady, server
    <2> QED BY <1>b, <2>1, <2>2 DEF Budget, One
<1>5. ASSUME NEW f \in Files, onFileAddedOrRemoved(f) PROVE Budget' < Budget
    <2>1. f \in Due /\ Due' = Due \ {f}
        BY <1>5 DEF onFileAddedOrRemoved, Due, EventDue
    <2>2. Cardinality(Due') = Cardinality(Due) - 1
        BY <2>1, BudgetOf, FS_RemoveElement
    <2>3. stage' = stage /\ ready' = ready /\ refresh
        BY <1>5 DEF onFileAddedOrRemoved
    <2> QED BY <1>b, <2>2, <2>3, RefreshCosts DEF Budget, One
<1> QED BY <1>1, <1>2, <1>3, <1>4, <1>5 DEF Work

\* A server that is left alone, with no file changed, no mockup asked for in vain and
\* no crash, has at most Budget steps to go.
THEOREM WorkAlwaysEnds == Spec => [](Budget \in Nat) /\ [][WorkEnds]_vars
<1>1. Budget \in Nat
    BY BudgetOf
<1>2. PreviewInv => WorkEnds
    BY WorkSpends DEF WorkEnds
<1> QED BY <1>1, <1>2, InvariantHolds, PTL

\* Once its work is done the module is right, but for files that changed unnoticed.
THEOREM SettledAlwaysRight == Spec => []SettledIsRight
<1>1. ASSUME PreviewInv, QuietIsRight PROVE SettledIsRight
    <2> SUFFICES ASSUME stage # "down", Budget = 0
                 PROVE  \A f \in Files \ doubt : f \in generated <=> f \in disk
        BY DEF SettledIsRight
    <2>1. Cardinality(Due) = 0 /\ ready /\ ~ refreshInFlight
        BY BudgetOf DEF Budget, One
    <2>2. Due = {}
        BY <2>1, BudgetOf, FS_EmptySet
    <2>3. watched = disk
        BY <1>1, <2>1, <2>2 DEF Due, EventDue, PreviewInv, TypeOK
    <2> QED BY <1>1, <2>1, <2>3 DEF QuietIsRight
<1> QED BY <1>1, QuietAlwaysRight, InvariantHolds, PTL
================================================================================
