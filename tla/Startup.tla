------------------------------- MODULE Startup -------------------------------
(* From the command line to the tracker threads and back: parse_opt and main *)
(* (main.c), torrent_init_from_file with prepare_trackers and                *)
(* prepare_info_section (torrent.c), client_init_trackers, _start_trackers   *)
(* and _stop_trackers (client.c).  The torrent file is a record of the       *)
(* fields the code asks the parsed dictionaries for; torrent_t and client_t  *)
(* lie unassigned on main's stack.  Once an unassigned word or pointer is    *)
(* used, anything may follow: pc = "undef".                                  *)
EXTENDS Integers, Sequences, SequencesExt

CONSTANTS Docs,     \* torrent files, see Doc in MCStartup
          Options,  \* command lines, sequences of "t" and "m"
          Urls,     \* the tracker URLs in them
          None,     \* a missing key
          Unset     \* a word nobody has assigned

ASSUME StartupAssumption ==
    /\ Options \subseteq Seq({"t", "m"})
    /\ Unset \notin Nat \cup {None, "single", "multi"}
    /\ \A d \in Docs :
           /\ d.tiers = None \/ d.tiers \in Seq(Seq(Urls))
           /\ d.announce \in Urls \cup {None}
           /\ d.info # None =>
                  /\ d.info.name # Unset
                  /\ \/ d.info.files = None
                     \/ d.info.files \in Seq([length : Nat \cup {None}, path : Nat \cup {None}])

VARIABLES doc, opts, pc,
          urls,     \* tracker_urls, one entry for each slot of its block
          idx,      \* the loop variable of whatever loop runs
          torrent,  \* torrent_t, the fields anybody reads
          trackers, \* the tracker_t of the client's list
          running   \* continueRunning

vars == <<doc, opts, pc, urls, idx, torrent, trackers, running>>

Ended == {"exited", "aborted", "usage", "undef"}

Goto(label) == pc' = label /\ UNCHANGED <<doc, opts, running>>

-----------------------------------------------------------------------------
(* main up to the torrent file.                                              *)

\* argp calls parse_opt for each option: none, or a second one, is an error.
ParseOptions ==
    /\ pc = "options"
    /\ Goto(IF Len(opts) # 1 THEN "usage" ELSE IF opts[1] = "t" THEN "load" ELSE "print")
    /\ UNCHANGED <<urls, idx, torrent, trackers>>

\* A file that cannot be read or parsed, or without an info section.
LoadFails ==
    /\ pc = "load"
    /\ \/ doc.form \in {"unreadable", "bad"}
       \/ doc.form = "dict" /\ doc.info = None
    /\ Goto("aborted")
    /\ UNCHANGED <<urls, idx, torrent, trackers>>

\* A value that is not a dictionary is used as one.
LoadOther ==
    /\ pc = "load" /\ doc.form = "other"
    /\ Goto("undef")
    /\ UNCHANGED <<urls, idx, torrent, trackers>>

TierCount == IF doc.tiers = None THEN 0 ELSE Len(doc.tiers)

\* The block for tracker_urls has one slot more than there are tiers.
Slots == [i \in 1..(TierCount + 1) |-> IF doc.tiers # None /\ i > TierCount THEN None ELSE Unset]

Load ==
    /\ pc = "load" /\ doc.form = "dict" /\ doc.info # None
    /\ urls' = Slots
    /\ idx' = 1
    /\ Goto("tiers")
    /\ UNCHANGED <<torrent, trackers>>

-----------------------------------------------------------------------------
(* prepare_trackers.                                                         *)

\* Mutant: the last URL of the tier is taken.
TierUrlLast(tier) == tier[Len(tier)]

TierUrl(tier) == tier[1]

\* The first URL of a tier; of an empty one, what the pointer 3 points to.
Tier ==
    /\ pc = "tiers" /\ idx <= TierCount
    /\ IF doc.tiers[idx] = <<>>
       THEN Goto("undef") /\ UNCHANGED <<urls, idx>>
       ELSE /\ urls' = [urls EXCEPT ![idx] = TierUrl(doc.tiers[idx])]
            /\ idx' = idx + 1
            /\ Goto("tiers")
    /\ UNCHANGED <<torrent, trackers>>

\* "announce" goes into the slot after the tiers.
Announce ==
    /\ pc = "tiers" /\ idx > TierCount
    /\ urls' = IF doc.announce = None THEN urls ELSE [urls EXCEPT ![idx] = doc.announce]
    /\ torrent' = [torrent EXCEPT !.tracker_count =
                       IF doc.announce = None THEN idx - 1 ELSE idx]
    /\ Goto("info")
    /\ UNCHANGED <<idx, trackers>>

-----------------------------------------------------------------------------
(* prepare_info_section, whose result nobody looks at.                       *)

\* The test is upside down: a piece length in the file is not stored, and a
\* missing one is read through an unassigned pointer.
PieceLength ==
    /\ pc = "info"
    /\ Goto(IF doc.info.piece_length = None THEN "undef" ELSE "name")
    /\ UNCHANGED <<urls, idx, torrent, trackers>>

SingleFile ==
    /\ pc = "name" /\ doc.info.files = None
    /\ torrent' = [torrent EXCEPT !.file_name = doc.info.name, !.mode = "single",
                                  !.file_length = IF doc.info.length = None THEN @ ELSE doc.info.length]
    /\ Goto("print")
    /\ UNCHANGED <<urls, idx, trackers>>

MultiFile ==
    /\ pc = "name" /\ doc.info.files # None
    /\ torrent' = [torrent EXCEPT !.file_name = doc.info.name, !.mode = "multi",
                                  !.files = [i \in DOMAIN doc.info.files |-> Unset]]
    /\ idx' = 1
    /\ Goto("files")
    /\ UNCHANGED <<urls, trackers>>

\* An entry without length, or without a path of at least one segment, ends the
\* function; the entries after it stay as malloc left them.
File ==
    /\ pc = "files" /\ idx <= Len(doc.info.files)
    /\ LET f == doc.info.files[idx]
       IN  IF f.length = None \/ f.path \in {None, 0}
           THEN Goto("print") /\ UNCHANGED <<idx, torrent>>
           ELSE /\ torrent' = [torrent EXCEPT !.files[idx] = f.path]
                /\ idx' = idx + 1
                /\ Goto("files")
    /\ UNCHANGED <<urls, trackers>>

FilesDone ==
    /\ pc = "files" /\ idx > Len(doc.info.files)
    /\ Goto("print")
    /\ UNCHANGED <<urls, idx, torrent, trackers>>

-----------------------------------------------------------------------------
(* main, from the listing of the torrent on.                                 *)

\* Mutant: the listing prints the piece length.
ListsPieceLength == torrent.tracker_count = Unset \/ torrent.piece_length = Unset

\* The listing meets something unassigned.
ListsUnset ==
    \/ Unset \in {torrent.tracker_count, torrent.file_name} \/ torrent.mode = Unset
    \/ torrent.mode = "multi" /\ Unset \in ToSet(torrent.files)

PrintTorrent ==
    /\ pc = "print"
    /\ idx' = 1
    /\ Goto(IF ListsUnset THEN "undef" ELSE "init")
    /\ UNCHANGED <<urls, torrent, trackers>>

InitTracker ==
    /\ pc = "init" /\ idx <= torrent.tracker_count
    /\ trackers' = Append(trackers, [url |-> urls[idx], started |-> FALSE, stopped |-> FALSE])
    /\ idx' = idx + 1
    /\ Goto("init")
    /\ UNCHANGED <<urls, torrent>>

\* Without a tracker nothing assigns c->trackers, which both walks begin with.
InitTrackersDone ==
    /\ pc = "init" /\ idx > torrent.tracker_count
    /\ idx' = 1
    /\ Goto(IF trackers = <<>> THEN "undef" ELSE "start")
    /\ UNCHANGED <<urls, torrent, trackers>>

\* The walks of client_start_trackers and client_stop_trackers.
Walk(at, field, next) ==
    /\ pc = at
    /\ \/ /\ idx <= Len(trackers)
          /\ trackers' = [trackers EXCEPT ![idx][field] = TRUE]
          /\ idx' = idx + 1
          /\ Goto(at)
       \/ /\ idx > Len(trackers)
          /\ idx' = 1
          /\ Goto(next)
          /\ UNCHANGED trackers
    /\ UNCHANGED <<urls, torrent>>

StartTrackers == Walk("start", "started", "loop")

\* The peer threads run and main counts peers, as in Swarm, until SIGINT.
LoopEnds ==
    /\ pc = "loop" /\ ~running
    /\ Goto("stop")
    /\ UNCHANGED <<urls, idx, torrent, trackers>>

\* Mutant: the walk tells no tracker to stop.
StopNothing == Walk("stop", "started", "exited")

StopTrackers == Walk("stop", "stopped", "exited")

Interrupt ==
    /\ running /\ pc \notin Ended
    /\ running' = FALSE
    /\ UNCHANGED <<doc, opts, pc, urls, idx, torrent, trackers>>

Init ==
    /\ doc \in Docs /\ opts \in Options
    /\ pc = "options"
    /\ urls = <<>>
    /\ idx = 0
    /\ torrent = [tracker_count |-> Unset, piece_length |-> Unset, mode |-> Unset,
                  file_name |-> Unset, file_length |-> Unset, files |-> Unset]
    /\ trackers = <<>>
    /\ running = TRUE

MainStep ==
    \/ ParseOptions \/ LoadFails \/ LoadOther \/ Load \/ Tier \/ Announce
    \/ PieceLength \/ SingleFile \/ MultiFile \/ File \/ FilesDone
    \/ PrintTorrent \/ InitTracker \/ InitTrackersDone
    \/ StartTrackers \/ LoopEnds \/ StopTrackers

Next == MainStep \/ Interrupt

Spec == Init /\ [][Next]_vars /\ WF_vars(MainStep)

-----------------------------------------------------------------------------
(* Properties.                                                               *)

\* The trackers the file names: the first of each tier, then "announce".
Wanted ==
    (IF doc.tiers = None THEN <<>> ELSE [i \in DOMAIN doc.tiers |-> doc.tiers[i][1]])
        \o (IF doc.announce = None THEN <<>> ELSE <<doc.announce>>)

\* While main loops, exactly these have a thread, in this order; none of their
\* URLs is a slot left unassigned or overwritten (torrent.c:70-89, client.c:19-47).
StartsWanted ==
    pc \in {"loop", "stop"} =>
        /\ [i \in DOMAIN trackers |-> trackers[i].url] = Wanted
        /\ \A i \in DOMAIN trackers : trackers[i].started

Complete ==
    /\ doc.form = "dict" /\ doc.info # None
    /\ doc.tiers # None => \A i \in DOMAIN doc.tiers : doc.tiers[i] # <<>>
    /\ Wanted # <<>>
    /\ doc.info.piece_length # None
    /\ doc.info.files # None =>
           \A i \in DOMAIN doc.info.files :
               doc.info.files[i].length # None /\ doc.info.files[i].path \notin {None, 0}

\* With a torrent file that has what the code looks for, main never uses
\* anything unassigned, whatever optional field is missing.
CompleteIsSafe ==
    opts = <<"t">> /\ Complete => pc \notin {"undef", "aborted", "usage"}

\* SIGINT, at whatever moment since setup() it comes, ends a started client
\* with every tracker told to stop before main returns (main.c:142-148).
InterruptStops ==
    (pc = "loop" /\ ~running) ~> (pc = "exited" /\ \A i \in DOMAIN trackers : trackers[i].stopped)

\* info.piece_length is "how many bytes/piece" once the torrent is loaded.
PieceLengthKnown ==
    pc = "print" /\ opts = <<"t">> => torrent.piece_length = doc.info.piece_length
==============================================================================
