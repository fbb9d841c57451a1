----------------------------- MODULE MockupPreview -----------------------------
(***************************************************************************)
(* The preview server of mockup-sandbox: mockupPreviewPlugin keeps the      *)
(* generated module the list of the mockup files on disk, and the page's    *)
(* PreviewRenderer shows one of them.                                       *)
(*                                                                         *)
(* A scan of the disk takes its time, and files come and go meanwhile; the  *)
(* calls of refresh() that arrive while one is in flight are folded into one *)
(* that follows it.  The watcher says nothing of the files it finds when it *)
(* starts.  The page gets the new list when the module is written (Vite),   *)
(* and what an import of an older list gives may still arrive after that.   *)
(***************************************************************************)
EXTENDS Naturals, FiniteSets

CONSTANTS
    Files,      \* mockup files with no segment that begins with an underscore
    Path,       \* the one the page is to show
    MaxChanges, \* bound: files added or removed
    MaxStarts   \* bound: starts of the server

ASSUME FilesAssumption == IsFiniteSet(Files)
ASSUME PathAssumption == Path \in Files
ASSUME BoundsAssumption == MaxChanges \in Nat /\ MaxStarts \in Nat

VARIABLES
    disk,           \* the files there are
    generated,      \* the files the generated module on disk lists
    currentSource,  \* those of the source the plugin wrote last, as a set of
                    \* sets: none before the first write
    refreshInFlight,
    refreshQueued,
    sure, maybe,    \* files there throughout the scan, and at some time in it
    stage,          \* of the server: where createServer() and listen() are
    watched,        \* files the watcher knows of, once it is ready
    ready,          \* the watcher has read the directory
    doubt,          \* files that changed with nobody told, and no scan begun since
    modules,        \* the list the page has
    loads,          \* its imports under way: the effect and its cancelled flag
    effect,         \* the number of the effect that has run last
    view,           \* what the page shows, and which effect's load said so
    changes, starts \* counters of the bounds

server == <<currentSource, refreshInFlight, refreshQueued, sure, maybe, doubt>>
page == <<modules, loads, effect, view>>
vars == <<disk, generated, server, stage, watched, ready, page, changes, starts>>

Blank == [shows |-> "nothing", by |-> 0]

TypeOK ==
    /\ disk \subseteq Files /\ generated \subseteq Files
    /\ currentSource \in {{}} \cup {{g} : g \in SUBSET Files}
    /\ refreshInFlight \in BOOLEAN /\ refreshQueued \in BOOLEAN
    /\ sure \subseteq Files /\ maybe \subseteq Files
    /\ stage \in {"down", "configuring", "listening", "up"}
    /\ watched \subseteq Files /\ ready \in BOOLEAN /\ doubt \subseteq Files
    /\ modules \subseteq Files
    /\ loads \subseteq [of : Nat, cancelled : BOOLEAN]
    /\ effect \in Nat
    /\ view \in [shows : {"nothing", "missing", "component", "failure"}, by : Nat]
    /\ changes \in 0..MaxChanges /\ starts \in 0..MaxStarts

Init ==
    /\ disk \in SUBSET Files
    /\ generated \in SUBSET Files
    /\ currentSource = {}
    /\ refreshInFlight = FALSE /\ refreshQueued = FALSE
    /\ sure = {} /\ maybe = {}
    /\ stage = "down"
    /\ watched = {} /\ ready = FALSE /\ doubt = {}
    /\ modules = {} /\ loads = {} /\ effect = 0 /\ view = Blank
    /\ changes = 0 /\ starts = 0

-----------------------------------------------------------------------------
\* A file is added or removed, during a scan or not.  Nobody is told before the
\* watcher is ready, nor of a file that is gone, or back, before its event was due.
ChangeFile(f) ==
    /\ changes < MaxChanges
    /\ changes' = changes + 1
    /\ \/ f \notin disk /\ disk' = disk \cup {f}
       \/ f \in disk /\ disk' = disk \ {f}
    /\ sure' = sure \cap disk'
    /\ maybe' = IF refreshInFlight THEN maybe \cup disk' ELSE maybe
    /\ doubt' = IF ready /\ (f \in disk <=> f \in watched) THEN doubt
                                                         ELSE doubt \cup {f}
    /\ UNCHANGED <<generated, currentSource, refreshInFlight, refreshQueued, stage,
                   watched, ready, page, starts>>

\* The glob begins to read the directories.
BeginScan ==
    /\ refreshInFlight' = TRUE
    /\ sure' = disk /\ maybe' = disk
    /\ doubt' = {}

\* Mutant: a call that finds one in flight returns.
refreshUnqueued ==
    /\ UNCHANGED <<currentSource, refreshQueued>>
    /\ IF refreshInFlight THEN UNCHANGED <<refreshInFlight, sure, maybe, doubt>>
                          ELSE BeginScan

\* A call of refresh().
refresh ==
    /\ UNCHANGED currentSource
    /\ \/ /\ refreshInFlight
          /\ refreshQueued' = TRUE
          /\ UNCHANGED <<refreshInFlight, sure, maybe, doubt>>
       \/ /\ ~ refreshInFlight
          /\ BeginScan
          /\ UNCHANGED refreshQueued

\* The scan's result is written if it differs from what was written last, and the
\* call that was queued meanwhile is made up for.
FinishScan ==
    /\ refreshInFlight
    /\ \E found \in SUBSET maybe :
        /\ sure \subseteq found
        /\ currentSource' = {found}
        /\ generated' = IF {found} # currentSource THEN found ELSE generated
    /\ refreshQueued' = FALSE
    /\ IF refreshQueued THEN BeginScan
       ELSE refreshInFlight' = FALSE /\ sure' = {} /\ maybe' = {} /\ UNCHANGED doubt
    /\ UNCHANGED <<disk, stage, watched, ready, page, changes, starts>>

-----------------------------------------------------------------------------
\* configureServer() begins with a refresh.
Start ==
    /\ stage = "down" /\ starts < MaxStarts
    /\ starts' = starts + 1
    /\ stage' = "configuring"
    /\ refresh
    /\ UNCHANGED <<disk, generated, watched, ready, page, changes>>

\* It goes on when that is done: the watcher is made.
MakeWatcher ==
    /\ stage = "configuring" /\ ~ refreshInFlight
    /\ stage' = "listening"
    /\ UNCHANGED <<disk, generated, server, watched, ready, page, changes, starts>>

\* buildStart(), when the server listens.
buildStart ==
    /\ stage = "listening"
    /\ stage' = "up"
    /\ refresh
    /\ UNCHANGED <<disk, generated, watched, ready, page, changes, starts>>

\* The watcher has read the directory: ignoreInitial, it tells nobody.
WatcherReady ==
    /\ stage \in {"listening", "up"} /\ ~ ready
    /\ ready' = TRUE
    /\ watched' = disk
    /\ UNCHANGED <<disk, generated, server, stage, page, changes, starts>>

\* An "add" or an "unlink".
onFileAddedOrRemoved(f) ==
    /\ ready
    /\ \/ f \in disk \ watched /\ watched' = watched \cup {f}
       \/ f \in watched \ disk /\ watched' = watched \ {f}
    /\ refresh
    /\ UNCHANGED <<disk, generated, stage, ready, page, changes, starts>>

\* A request for a mockup that answers 404.
Rescan ==
    /\ stage = "up"
    /\ refresh
    /\ UNCHANGED <<disk, generated, stage, watched, ready, page, changes, starts>>

\* The server stops, or a refresh() that nobody awaits is rejected.
Crash ==
    /\ stage # "down"
    /\ stage' = "down"
    /\ currentSource' = {}
    /\ refreshInFlight' = FALSE /\ refreshQueued' = FALSE
    /\ sure' = {} /\ maybe' = {}
    /\ watched' = {} /\ ready' = FALSE /\ doubt' = {}
    /\ UNCHANGED <<disk, generated, page, changes, starts>>

-----------------------------------------------------------------------------
\* The page gets another list: the effect cleans up after the one before it, and
\* its own load begins if the list has the file.
UpdatePage ==
    /\ stage = "up" /\ modules # generated
    /\ modules' = generated
    /\ effect' = effect + 1
    /\ LET cleanedUp == {[l EXCEPT !.cancelled = TRUE] : l \in loads}
       IN  IF Path \in generated
           THEN /\ loads' = cleanedUp \cup {[of |-> effect', cancelled |-> FALSE]}
                /\ view' = Blank
           ELSE /\ loads' = cleanedUp
                /\ view' = [shows |-> "missing", by |-> effect']
    /\ UNCHANGED <<disk, generated, server, stage, watched, ready, changes, starts>>

\* Mutant: what a load says is shown, whichever it is.
IsHeardAlways(l) == TRUE

IsHeard(l) == ~ l.cancelled

\* An import ends, in the order the network likes.
EndLoad ==
    /\ \E l \in loads :
        /\ loads' = loads \ {l}
        /\ view' \in IF IsHeard(l)
                     THEN {[shows |-> s, by |-> l.of] : s \in {"component", "failure"}}
                     ELSE {view}
    /\ UNCHANGED <<disk, generated, server, stage, watched, ready, modules, effect,
                   changes, starts>>

\* What happens by itself in the process and the browser.
Progress ==
    \/ FinishScan
    \/ MakeWatcher
    \/ buildStart
    \/ WatcherReady
    \/ \E f \in Files : onFileAddedOrRemoved(f)
    \/ UpdatePage
    \/ EndLoad

Next ==
    \/ \E f \in Files : ChangeFile(f)
    \/ Start
    \/ Rescan
    \/ Crash
    \/ Progress

\* Scans end, the watcher's events arrive and the start of a server goes on.
Spec ==
    /\ Init /\ [][Next]_vars
    /\ WF_vars(FinishScan) /\ WF_vars(MakeWatcher) /\ WF_vars(buildStart)
    /\ WF_vars(WatcherReady) /\ WF_vars(\E f \in Files : onFileAddedOrRemoved(f))

-----------------------------------------------------------------------------
\* However files and scans overlap, and however calls of refresh() are folded: in
\* the end, also after a crash, the generated module lists a file exactly if it is
\* on disk.  The exception are files that changed with nobody told, before the
\* watcher was ready or too briefly for an event, and that no scan has made up for.
Converges ==
    <>[](stage # "down" => \A f \in Files \ doubt : f \in generated <=> f \in disk)

\* What the page shows is what the load of the list it has said, or the lack of
\* one, never the answer of a load that was started for an earlier list.
ViewIsCurrent == view = Blank \/ view.by = effect
===============================================================================
