----------------------------- MODULE ConfigWatch -----------------------------
(***************************************************************************)
(* The configuration follows its file: Watcher waits for a change, lets it *)
(* settle, has Base read the file again, and watches anew.  The API writes *)
(* the file as well.  Others edit, remove and replace the file while this  *)
(* goes on.  Contents are numbered in the order they were written; a file  *)
(* may be half written or have no pool (not ok), and tells whether it is   *)
(* to be watched.                                                          *)
(***************************************************************************)
EXTENDS Integers

CONSTANT MaxContents  \* bound: contents of the file

VARIABLES
    file,      \* what is in the file, or Missing
    config,    \* number of the configuration in use
    watcher,   \* whether there is one: made by Base::start
    watch,     \* what the watch is on: "file", "gone" (a removed one) or "nothing"
    event,     \* an event for the loop to deliver
    settling,  \* the timer runs
    step,      \* "idle", or "loaded": inside reload, between reading and watching anew
    contents,  \* contents written so far
    missed,    \* a change that no event tells of (history)
    unsaved    \* the API's configuration could not be written (history)

configVars == <<file, config, watcher, watch, event, settling, step, contents,
                missed, unsaved>>

Missing == [number |-> 0, ok |-> FALSE, watched |-> FALSE]

Content(ok, watched) == [number |-> contents + 1, ok |-> ok, watched |-> watched]

ConfigInit ==
    /\ file = [number |-> 1, ok |-> TRUE, watched |-> TRUE]
    /\ config = 1 /\ watcher \in BOOLEAN
    /\ watch = IF watcher THEN "file" ELSE "nothing"
    /\ event = FALSE /\ settling = FALSE /\ step = "idle"
    /\ contents = 1 /\ missed = FALSE /\ unsaved = FALSE

-----------------------------------------------------------------------------
\* Others write to the file, whenever they like.
Edit ==
    /\ contents < MaxContents /\ contents' = contents + 1
    /\ \E ok, watched \in BOOLEAN : file' = Content(ok, watched)
    /\ event' = (event \/ (watch = "file" /\ file # Missing))
    /\ missed' = (missed \/ step = "loaded")
    /\ UNCHANGED <<config, watcher, watch, settling, step, unsaved>>

\* Or remove it, to put another in its place.
Remove ==
    /\ file # Missing /\ file' = Missing
    /\ event' = (event \/ watch = "file")
    /\ watch' = IF watch = "file" THEN "gone" ELSE watch
    /\ missed' = (missed \/ step = "loaded")
    /\ UNCHANGED <<config, watcher, settling, step, contents, unsaved>>

-----------------------------------------------------------------------------
\* onFsEvent and queueUpdate: the timer begins anew.
QueueUpdate ==
    /\ event /\ step = "idle"
    /\ event' = FALSE /\ settling' = TRUE
    /\ UNCHANGED <<file, config, watcher, watch, step, contents, missed, unsaved>>

\* The timer's reload, and Base::onFileChanged: a file that can not be read leaves the
\* configuration as it is.
Load ==
    /\ settling /\ step = "idle"
    /\ settling' = FALSE /\ step' = "loaded"
    /\ config' = IF file.ok THEN file.number ELSE config
    /\ missed' = FALSE /\ unsaved' = FALSE
    /\ UNCHANGED <<file, watcher, watch, event, contents>>

\* Mutation of WatchAnew: the watch stays on the file that was removed.
WatchOnce ==
    /\ step = "loaded" /\ step' = "idle"
    /\ event' = FALSE
    /\ missed' = (missed \/ file = Missing)
    /\ UNCHANGED <<file, config, watcher, watch, settling, contents, unsaved>>

\* Then it stops to watch, which forgets the events that were not delivered, and starts
\* again, which fails without a file.
WatchAnew ==
    /\ step = "loaded" /\ step' = "idle"
    /\ event' = FALSE
    /\ watch' = IF file = Missing THEN "nothing" ELSE "file"
    /\ missed' = (missed \/ file = Missing)
    /\ UNCHANGED <<file, config, watcher, settling, contents, unsaved>>

\* Base::reload of a configuration from the API: if it was written to a file that is
\* watched, it is left to the watcher to apply it.
Put ==
    /\ step = "idle" /\ contents < MaxContents /\ contents' = contents + 1
    /\ \E watched, saved \in BOOLEAN :
        /\ file' = IF saved THEN Content(TRUE, watched) ELSE file
        /\ event' = (event \/ (saved /\ watch = "file"))
        /\ config' = IF watched /\ watcher /\ saved THEN config ELSE contents + 1
        /\ unsaved' = IF saved THEN (unsaved /\ watched /\ watcher) ELSE TRUE
    /\ UNCHANGED <<watcher, watch, settling, step, missed>>

ConfigNext == Edit \/ Remove \/ QueueUpdate \/ Load \/ WatchAnew \/ Put

ConfigSpec == ConfigInit /\ [][ConfigNext]_configVars

-----------------------------------------------------------------------------
\* When nothing is left to do the configuration is the one in the file, whoever wrote it
\* and however often: unless the file can not be read, or a change fell between reading
\* and watching, where it is lost (Watcher::reload), or there was no file to watch.
ConfigFollows ==
    watcher /\ file.ok /\ ~event /\ ~settling /\ step = "idle" /\ ~missed
      => config = file.number \/ unsaved

=============================================================================
